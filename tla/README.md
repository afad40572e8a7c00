# The shop, specified in TLA+

This directory holds TLA+ models of the shop under `src/core` (a Django project on
PostgreSQL), the TLC configurations that check them on small instances, and proofs that
TLAPS checks for instances of every size. All paths below are relative to `src/core`.

## 1. The system

| part | where | state it keeps | operations | hard behaviour |
|---|---|---|---|---|
| payment execution | `payment/services/{services,retry,verify,reconciliation,callback}.py`, `payment/models`, `payment/repositories`, `payment/policies.py` | `PaymentModel`, `PaymentAttempt` rows | start, retry, verify, reconcile | calls to a remote gateway between two transactions; lost answers; duplicate and late callbacks; crashes |
| payment attempts | `payment/models/payment_attempt.py`, `payment/repositories/payment_attempt_repository.py`, `payment/policies.py` | `PaymentAttempt` rows | create, mark, save, conditional update | two ways to write a row, partial saves, identifiers assigned once |
| gateway access | `payment/services/{gateway_service,callback}.py`, `payment/gateways/`, `payment/views.py` | the registry of clients (the gateway keeps sessions) | resolve, initiate, verify, inquire, parse a callback | several gateways, a default that changes, answers that are lost, wrong or unreadable |
| order confirmation | `order/services/confirm_payment.py`, `order/services/coupon.py` | payment, order and coupon rows | `confirm_order_payment` | three aggregates in one transaction, long after the coupon was checked |
| order life cycle | `order/services/order.py`, `order/services/state_machine.py`, `order/management/commands/expire_pending_orders.py` | `OrderModel` rows | create, transition, expire | the deadline races with the customer |
| inventory | `order/services/inventory.py`, `shop/models.py`, `shop/admin.py` | `ProductModel.stock`, `InventoryReservation` rows | reserve, restore, increase, decrease, edit | several products at once, double restoration, a form that writes back an old stock |
| refunds | `payment/services/refund.py`, `payment/models/refund.py`, `payment/repositories/refund_repository.py` | `Refund` rows | request, answer, reconcile | partial refunds, unknown outcomes, an answer after the row was given up |
| outbox | `events/services/{enqueue,processor}.py` | `OutboxEvent` rows | enqueue, process batch | at-least-once delivery, order of delivery, a crash between effect and commit |
| one-time passwords | `accounts/services/{otp_service,throttle}.py` | `EmailOTP` rows, cache counters | send, verify | counters raised in transactions that roll back |
| sessions and tokens | `accounts/services/{session_service,token_service,jwt}.py` | `DeviceSession`, `RefreshToken` rows | login, rotate, revoke | reuse of a rotated token, concurrent rotation |
| cart | `cart/` | a session dictionary and `CartItem` rows | add, remove, merge at login | read by checkout under row locks |
| monitoring, dashboards, catalogue, reviews, website | `order/services/sla_monitoring.py`, `dashboard/`, `shop/`, `review/`, `website/` | forms over single rows, read-only reports | | none of its own |

How the parts interact. Checkout (`create_online_order`) reads the cart, validates the
coupon without consuming it, reserves stock and creates the order, in one transaction.
`start_payment` creates a payment and its first attempt and asks the gateway for a session;
the customer pays at the gateway; the gateway's callback names the attempt's authority and
makes `verify_payment` ask the gateway for the outcome. A success is committed first, and a
further transaction (`confirm_order_payment`) consumes the payment, redeems the coupon and
moves the order to `paid`. The command `expire_pending_orders` cancels overdue orders and
restores their stock. Transitions and payments enqueue events in the same transaction.

What makes each part correct: one active payment per order, no success without settlement and
no failure without an explicit no (payment); an order becomes paid in one step with the
consumption of a payment and the redemption of its coupon, and is never sold twice
(confirmation); stock plus reservations never change in sum (inventory); refunds never exceed
the payment (refunds); an event counts as delivered only when it was, and none is let wait for
ever (outbox); a spent password or token is not accepted again (accounts); an answer of a
gateway is only believed about the session it is about (gateway access); only the latest
attempt of a payment may still charge the customer (attempts). The hazards behind these are
listed, line by line, in `PROJECT.json`.

## 2. The modules

| module | what it is |
|---|---|
| `OrderStates` | the statuses of an order and the table `OrderStateMachine.TRANSITIONS` |
| `OrderPaymentData` | the rows, the requests in flight, the queries and the save operations: constants, assumptions, variables |
| `OrderPayment` | the actions (preceded by plausible mistakes in them, which no specification uses and which show that each property can be broken), `Spec`, `FairSpec`, `RepeatedSpec`, the properties, the inductive invariant, the refinement |
| `Sale` | the abstract specification: what a customer is promised about an order |
| `MCOrderPayment` | constants and symmetry of the TLC instances |
| `OrderPaymentProofs` | type correctness, the inductive invariant, the safety theorems, the count of the coupons, and that `OrderPayment` implements `Sale` |
| `Inventory` | stock, reservations, the state machine of an order, expiry and the product forms, lock by lock |
| `Warehouse` | the abstract specification of the inventory: baskets leave the shelf and come back whole |
| `MCInventory` | carts, stocks and symmetry of the TLC instances |
| `InventoryProofs` | the inductive invariants of `Inventory`, four safety theorems, and that it implements `Warehouse` |
| `Sums`, `SumsProofs` | the sum over a finite set, as the size of a set of units, and its laws |
| `Refund` | the three phases of a refund, reconciliation, the gateway's side of it |
| `RefundLedger` | the abstract specification of refunds: hold, then pay out or release |
| `MCRefund` | amounts, identities and symmetry of the TLC instances |
| `RefundProofs` | the inductive invariants of `Refund`, six safety theorems, and that it implements `RefundLedger` |
| `GatewayCalls` | the registry, callbacks, and what the shop makes of an answer |
| `AttemptRows` | the rows of the attempts of one payment, method by method and save by save |
| `MCGateway` | one instance of `AttemptRows` and one of `GatewayCalls`, of which a behaviour takes either |
| `GatewayProofs` | the inductive invariants of `AttemptRows` and of `GatewayCalls`, and all checked safety properties of both and of `MCGateway` |
| `Outbox`, `MCOutbox` | events, batches, handlers, retries |
| `Delivery` | the abstract specification of the outbox: what is owed is delivered or abandoned, once |
| `OutboxProofs` | the inductive invariant of `Outbox`, five safety theorems, and that it implements `Delivery` |
| `Throttle` | the counter of requests in the cache, call by call |
| `Otp` | codes, statement by statement |
| `Sessions` | device sessions and refresh tokens, statement by statement |
| `SessionsProofs` | the inductive invariant of `Sessions` and all its checked properties |
| `MCAccounts` | one instance each of `Sessions`, `Otp` and `Throttle`, of which a behaviour takes one |
| `AccountsProofs` | the inductive invariants of `Otp` and of `Throttle`, and all checked safety properties of both and of `MCAccounts` |

### OrderPayment

State and code: `order[o]` is an `OrderModel` row (its status, and whether `expire_at` has
passed), `payment[p]` a `PaymentModel` row, `attempt[p][n]` the `PaymentAttempt` with
`attempt_number` n (`authority` tells whether the gateway's authority is stored), `coupon[c]`
a `CouponModel` row; a status `"none"` means that the row does not exist yet. `worker[w]` is
the request that web or management worker `w` serves: the operation, the snapshot it took in
Phase A (which payment, which attempt), and the gateway's answer if it has one. `gateway` is
what the remote side knows of each attempt; it is external and written from how
`GatewayService` and `ZarinPalGateway` use it.

One action is one database transaction or one gateway call. The services take
`select_for_update` locks in the order Order, Payment, PaymentAttempt and re-read the rows
under them, and `PaymentRepository.save` and `PaymentAttemptRepository.save` are
compare-and-swap updates, so a transaction is atomic; between two of them anything may
happen, a crash included. Phase A of `start_payment` is `StartNewPayment` or
`StartRecoveredPayment`, of a retry `RetryPayment`; Phase B is `GatewayAccepts`,
`GatewayRejects` or `InitiationLost`; Phase C `PersistAuthority` or `PersistRejection`. Of
`verify_payment`: `VerifyPending` or `VerifySuccessful`, then `GatewayConfirms`,
`GatewayDenies` or `VerificationLost`, then `PersistSuccess`, `PersistFailure`,
`PersistDuplicate` or `PersistRefused`, then `Consume` or `ConsumeRefused`. Of
`reconcile_payment`: `ReconcilePending`, `InquiryConfirms` or `InquiryInconclusive`,
`PersistReconciliation`, and the same consumption. A call that is refused in Phase A, or
returns the stored payment URL, changes nothing and is no action.

The life of the order is all of `OrderStateMachine.TRANSITIONS` (module `OrderStates`).
`CreateOrder` is the checkout, `ExpirePendingOrders` the command, the move to `paid` belongs to
`Consume` alone, and every other legal move is `MoveOrder(o, status)`: a failed order is
pending again, a paid one is processed, shipped, returned, refunded, or cancelled while it is
processed. None of these touches a payment or a coupon: nothing calls `CouponService.rollback`,
and no method of `PaymentModel` undoes a consumption. So `PaidOrderBacked` says that an order
in the paid part of its life (`PaidLike`, the code's `OrderModel.is_paid`) has a payment
consumed for it, and that a consumed payment belongs to an order of that part or to one
cancelled in the middle of it; and `CouponAccounting` counts the orders that were ever `Sold`,
not those that are paid now. The constant `Moves` bounds the statuses the staff may choose in
an instance; the proofs are about any `Moves`.

Abstractions: amounts, currencies, gateway identities and reference numbers are immutable
snapshots that the services compare and never change; the model takes them as equal. The
statuses `TIMEOUT` and `CANCELLED` of payments are left out because no service writes them.
What a transition does to the stock is in `Inventory`. An attempt number 2 or higher without
`retry_of` fails `PaymentAttempt.clean`, which is why the recovery branch of `start_payment`
only ever executes attempt 1.

### Sale

`sale`, `charges` and `redeemed`: an order is opened, may be held (`failed`) and resumed, is
charged by at most one payment, ever, and is sold only when charged and open and with its
coupon redeemed in the same step. A sold order may be undone (refunded, or cancelled while it
is processed); neither the charge nor the use of the coupon is taken back, and it is never
sold again. A charge may find the order closed: the code commits the gateway's
success before it consumes it, and `confirm_order_payment` may then refuse for good. This
is the one promise a customer might expect and does not get, and `Sale` says so.

### Inventory

State and code: `product[p]` is a `ProductModel` row (stock, and status `PUBLISH` or not),
`order[o]` an `OrderModel` row with the eleven states of `OrderStateMachine.TRANSITIONS`
(`"none"` for no row), `items[o]` the order's items, `reservation[o][p]` the
`InventoryReservation` of the item for p, `form[e]` the product form an editor has open.
`worker[w]` is a database transaction under way: the rows it has locked, the overdue orders
it has selected and not locked yet, the reservations it has claimed. Order numbers stand for
`created_date`, product numbers for ids, because both decide the order of locks.

Here a transaction is several actions. PostgreSQL runs with its default isolation (READ
COMMITTED): a row lock waits for the transaction that holds it and then sees the committed
row. What a transaction writes is visible in its last action, which also releases its locks;
until then it is `claimed`. `create_online_order` is `BeginCheckout`, one `LockLine` per
cart line, then `PlaceOrder` (order, items, `InventoryService.reserve`) or `RefuseCheckout`.
Its first query joins `cart_items` with `select_related("product")` under
`select_for_update()`, which locks the products too, in the order the rows come, with no
`order_by`; the ordered query behind it and `reserve` lock rows that the transaction has
already. `expire_pending_orders` is `BeginExpiry`, `LockOverdue` per order found (newest first,
the model's ordering; the condition is checked again once the lock is granted), `Restore`
per reservation, and `FinishCancellation` for all of them. `OrderStateMachine.transition` is
`Transition`, or `BeginCancellation`, `Restore` and `FinishCancellation` when it cancels.
`WaitsFor` says who waits for whom, `BreakDeadlock` rolls a member of a cycle back, `Crash`
any transaction. `increase` and `decrease` have no caller in the repository; `Quantities`
gives them arguments.

Abstractions: each checkout has a cart of its own (the lock on a cart's rows orders two
checkouts of one customer, both of which succeed, as `tests/concurrency/test_double_checkout.py`
expects). `restore` refuses an order with fewer reservations than items; no order gets there,
since items and reservations are created in one transaction and the migration that
introduced reservations filled in the older ones. `reserved_stock` is written by no service.
`OrderModel.mark_cancelled` would bypass the state machine and keep the reservations; nothing
calls it. A returned or refunded order keeps its reservations: the state machine restores
stock on cancellation only.

`supply` is a history variable: what the shop owns of a product, changed only by what an
editor means (a correction of the stock the form showed) and by `increase` and `decrease`.

### Warehouse

`Take` an order's whole basket if all of it is on the shelf, `GiveBack` the baskets of a set
of orders, each once, `Count` a product. `Inventory` implements it with or without editors:
the shelf is the committed stock, an order holds its basket from its creation until it is
cancelled.

### Refund

State and code: `refund[k]` is the `Refund` row with the idempotency key k (the column is
unique in the whole table), `payment[p]` the two flags of `PaymentModel` that refunds read
and write, `order[p]` how far the order of the payment has come, `gateway[k]` what the remote
side knows of the refund (external), `worker[w]` the request a worker is serving.

Every transaction locks Order, Payment and Refund, so each is one action; between two of
them no lock is held. `refund` is `RequestRefund` (Phase A: the refund is reserved and
committed as `PENDING`), one of `RefundExecuted`, `RefundDeclined`, `RefundUnanswered`,
`RefundAnswerRaises`, `RefundUnsupported` (Phase B: the gateway, no lock held), and one of
the `Persist...` actions (Phase C: the answer meets the row as it is by then).
`refund_order` reads the balance in one transaction and reserves it in another
(`MeasureBalance`, `ReserveMeasured`). `reconcile_pending_refund` is `ReconcilePending`,
`InquiryAnswered` or `InquiryUnanswered`, and the same Phase C. The synchronisation of
`is_refunded` is part of the success.

Gateways are external here (ZarinPal's client offers no refunds). Nothing in the code keeps a
reconciliation apart from the refund it is about: both may be under way for one row, and
whichever answer comes second is compared with the row and discarded if that is decided
(`PersistDiscarded`). What makes this safe is an assumption about gateways, and the contract of
`get_refund_status` is where it comes from: a refund that the gateway does not know of, or has
not decided, is answered as unknown and changes nothing; SUCCESS and FAILED are only said of what
has been executed or declined (`InquiryAnswered`, `InquiryUnanswered`). A gateway that said
FAILED of a refund still on its way to it would make the shop release money that is then paid
out; nothing in `refund.py` would notice, and no property here is about such a gateway. An
identity that the gateway has given to another refund violates the constraint of the table and
rolls the success back (`PersistSuccessRefused`), which `refund_ledger` goes through; while the
identity stays taken, the refund stays pending.

### RefundLedger

`Hold` a part of what is left of a payment, `Decide` once whether it is paid out or released,
`Complete` a payment when all of it has been paid out.

### GatewayCalls

`OrderPayment` treats an answer as yes, no or lost. Here it is made. `row[a]` is a payment
and its one attempt; `session[a]` what its gateway knows; `setting` the default gateway of
the settings, which a deployment may change at any time; `call[w]` a request, its stage and
the result it carries. `StartPayment` stores the gateway with the payment, and from then on
every call asks that one (`AskedGateway`). Gateways number their own sessions, so two of
them may issue the same authority; `Resolves` is `resolve_callback`, which wants exactly one
attempt with it. `PaymentSettled`, `ShortPaymentReported`, `PaymentDenied` and
`UnreadableBody` are what a client makes of an answer; `Evidence` and `Agrees` what the
services check before they believe it.

The callback view takes any GET that names a known authority, at any time: `CallbackArrives`
does not ask whether the customer has decided. A callback that comes early is denied by a
gateway that has no payment yet, the payment fails, and the customer may still pay
(`refused` remembers in which state of the session its gateway said no). `FailedIsUnpaid`
therefore says what is left: there is money under a failed payment only after such an early
denial, or when the body could not be read; and `FailureIsRefusal` that no failure comes from
anything but an answer about the payment's own session.

Abstractions: `Registered` is a constant, since nothing in the repository registers a client
or sets `DEFAULT_PAYMENT_GATEWAY` after the start; amounts are the full amount or another,
since `payable_price` has whole rials only.

### AttemptRows

`row[n]` is the attempt with `attempt_number` n of one payment, `txn[w]` a transaction: the
row it has locked, its copy and the fields it is going to save. A service locks the payment
and the attempt (`LockAttempt`), changes its copy by one method of the model
(`RegisterOpening`, with the identifiers that the opening delivered, `RejectOpening`,
`MarkSuccess`, `MarkTerminal`) and saves some fields
(`SaveAttempt`), or `clean` refuses (`SaveRefused`). `CloseIfPending` is the conditional
UPDATE of `mark_terminal_if_pending`, which has no copy and calls no `clean`. `mark_timeout`,
`mark_cancelled` and the conditional UPDATE have no caller in the services: they are modelled
as what the model and the repository offer. Dates and latencies are left out.
`KeyIsUnused`, the guard of `CreateAttempt`, is what the unique constraint on the idempotency
key leaves of `retry.py:198-243` and `333-362`: a second request with a key finds the row of
the first, before or after its own INSERT, and creates none. No property is about it, since one
guard would decide it; the lookup of a key that belongs to another payment is not in a model of
one payment.

### Outbox and Delivery

`event[e]` is an `OutboxEvent` row; events are numbered by `created_date`, which need not be
the order in which they are committed. `publish_event` is the commit of the business
transaction. `BeginBatch` is the query with SKIP LOCKED and its limit, oldest first;
`HandlerAccepts`, `HandlerRaises` and `Dispatched` are the loop over the batch, handler by
handler; `CommitBatch` writes all rows of the batch at once; `Crash` rolls it back, but not
what handlers have sent (`sent`, external). `Delivery` is the promise behind it: an event is
owed from its commit on, counts as delivered only after each of its handlers had it, and the
decision to stop, either way, is taken once. A handler
that accepts an event may have sent nothing: the e-mail handler has no template for some
topics and the Telegram handler is a stub, so `sent` counts acceptances. `passed` is a history
variable: how many batches have gone to older events while this one was ready.

The only caller of the processor outside the tests, the management command, imports
`events.processor`, which does not exist
(`events/management/commands/process_outbox.py:4`). So nothing runs it, no liveness property is
stated, and all properties are about what the processor does when it is called. What a batch
can do to those behind it is a safety property, `WaitIsBounded`: events that fail keep their
place at the head of the queue, but each is taken up at most `MaxRetry` times, and once more
for a crash, so that the batches that pass over an event are bounded.

### Throttle and Otp

`Throttle` is `check_and_increment_otp_throttle`, one cache call per action, for one key; the
entry can expire between any two of them. `Otp` is `generate_or_reuse_otp` and `verify_otp`
for one email: a request for a code finds no live one (`FindNoLiveCode`), passes or fails the
rate limits (`CheckLimits`), and inserts (`CreateCode`); a verification locks and reads the
newest live row (`LockNewest`) and compares (`Admit`, `RefuseWrongCode`, `GiveUp`). What an
exception rolls back is not written: the raised counter and the consumption of an expired
row are lost.

### Sessions

`session[s]` is a `DeviceSession` and `token[t]` a `RefreshToken` of one user. A transaction
is split where another can come between its statements: `BeginRotation` and `CommitRotation`,
`BeginLogoutAll` and `CommitLogoutAll`, `BeginLogoutOthers` and `CommitLogoutOthers`;
`worker[w].locked` are the session rows it holds. `CreateSession` is a login, which locks
nothing that exists. `DetectReuse` and `RefuseIdle` are transactions that write and then
raise, so that only the history remembers them. A JWT is its row; its signature and its
claims are left out.

## 3. The runs

| run | instance | what it shows |
|---|---|---|
| `payment_retry` | two orders that share a coupon with one use, two payments, one of them found pending at the start, two attempts each, two workers, five statuses for the staff | all safety properties, `TerminalIsFinal` and the refinement over every interleaving, with orders that are processed, cancelled and refunded after they were paid |
| `payment_callbacks` | a legacy payment, two attempts, two workers, one crash, `RepeatedSpec` | with repeated callbacks a recorded success is consumed, or its order can no longer take it, and every known authority is decided |
| `payment_unanswered` | one payment, one worker, `RepeatedSpec` | expected violation, see below |
| `inventory_ledger` | three orders, two products, carts with both in either order, two workers, one crash | stock and reservations balance, transitions are legal, `Warehouse` is implemented, through deadlocks and rollbacks |
| `inventory_expiry` | two orders, two products with one unit each, two workers, an editor who saves the form as it was shown, `FairSpec` | no order stays overdue, with forms saved at any time (that `Warehouse` is implemented with editors too is proved) |
| `inventory_overwrite` | one order, one product, an editor who changes nothing | expected violation, see below |
| `inventory_lockorder` | one order, two products | expected violation, see below |
| `refund_ledger` | a payment of two units, three refunds of which two get one identity from the gateway, two workers that may die in any phase | money, outcomes, the refunded flag and `RefundLedger`, when partial refunds race for the balance, answers come late, reconciliation overtakes the refund itself and a success cannot be stored |
| `outbox_delivery` | three events with two, one and no handlers, two processors, batches of two, two failures, one crash | who was told how often, how long an event may wait behind failing ones, and `Delivery` |
| `accounts` | two sessions, four tokens, two workers, one time limit that passes; four codes, two purposes, two workers, three ticks; six requests, a limit of two, three windows | one valid token per session, what has ended stays ended; a code is accepted once and in time, the volume limit is nearly kept; nobody is refused without cause, and the limit is passed only by what was refused late |
| `accounts_reuse` | two sessions, three tokens, two workers | expected violation, see below |
| `gateway` | three attempts, two workers, two references, a gateway that names a reference at the opening; two payments, three gateways of which one has no client, two authorities, two workers, callbacks at any time, unreadable bodies | the rows of one payment stay consistent under every sequence of operations; money behind every success, a refusal of its own session, or an unreadable body, behind every failure |

`accounts` and `gateway` each check several modules that share no state: a behaviour chooses
one of them in its initial state, runs it, and leaves the variables of the others alone, so
the reachable states are the sum of the parts and each part is explored in full.

A property of a run that is about one question from several sides is a conjunction of the
properties that state them: `OutcomesHaveEvidence`, `PaidOrdersAccounted`, `BalanceAgrees`,
`ExecutionAgrees`, `SettledAsEarned`, `OneValidToken`, `LogoutIsFinal`, `ChangesAreSound` in
the components, the others in `MCAccounts` and `MCGateway`.

Bounds and why they are enough. `MaxAttempts` is 2 because a retry looks only at the attempt
before it and at the set of undecided ones. Two workers let any two requests about one attempt
overlap, with the customer, the expiry command and the gateway beside them; every request is
about one attempt, and Phase C compares its answer with the row only, whoever changed it. The
statuses of `Moves` in `payment_retry` are those that matter to a payment: `failed` and
`pending`, from which an order can still be paid, `cancelled`, which ends an open and a
processed order alike, `processing` and `refunded`. Shipping and returning lie between the last
two and allow payments nothing that `processing` does not. Only a payment that an older path
left pending is ever retried (a rejected first execution fails the payment with its attempt),
which is why both runs start with one. A dead worker leaves nothing but committed rows: for
safety it is like a worker that does not go on, so `payment_retry` has no crash, and
`payment_callbacks`, where it matters, has one. Two payments are enough to see a second active
payment of one order, and two orders to see a coupon exceed a limit of one. The theorems hold
without any of these bounds. For the inventory, two products and carts in both orders are the
smallest instance with a deadlock, three orders let a batch of two meet a checkout, and two
workers are enough for every cycle between two transactions; stock for two of three baskets
makes a checkout fail. `MaxStock` bounds `supply` only.

For refunds, a payment of two units is the smallest with a partial refund, and three refunds
compete for it so that one of each pair must lose. No refund or reservation looks at another
payment, so one is enough. Two workers let a reconciliation and the refund itself carry answers
at the same time; they may die at any time, and the run has no other bound. In the outbox a
batch of two of three events leaves one to the other processor, and an event with two handlers
is the smallest that can be half sent; the third event, which no handler knows, can be passed
over by a full batch of older ones that fail, as often as two failures and one crash of each
allow. Two gateways with clients and two authorities are enough for one authority issued twice,
two workers for two callbacks of one payment; three attempts are the smallest chain with a
middle. Six requests fill two windows beyond their limit; three windows show a place given back
two windows late. Four codes and three ticks, with a lifetime and a window of two, let codes
expire, be replaced, and pass the volume limit. Two sessions are the current one and the
others; four tokens allow a rotation of each, or three of one.

Deadlock checking is off in all runs: when all orders are final, all attempts used and no
worker busy, the shop may rest.

### Fairness

`FairSpec` asks that a worker that has begun a request goes on: its next gateway answer (a
loss is one; every HTTP call has a timeout), transaction or consumption happens. It asks
nothing of arrivals. `RepeatedSpec` is an environment at its best, used to ask what the code
can recover from: the gateway repeats its callback, reconciliation is called again, and the
gateway does not lose every answer. The callback view is public and idempotent, so repeated
callbacks are possible at any time; nothing in the repository schedules reconciliation (there
is no task runner), which is why properties that need it are stated under `RepeatedSpec` only.

In `Inventory`, `FairSpec` asks that a transaction reaches its end, that the database serves
those who wait for a lock (PostgreSQL queues them: strong fairness), that it breaks deadlocks,
and that the expiry command is run (`cron_expire_orders.bat` in the root is what the scheduler
calls; it is a process of its own, so strong fairness does not depend on idle web workers).
`OverdueIsExpired` excuses a database that has deadlocks to break for ever: PostgreSQL
chooses the victim, and nothing keeps it from choosing the batch each time.

`Refund` and `Outbox` have no fairness. Nothing in the repository calls
`reconcile_pending_refund`, and the command that calls the outbox's processor cannot be
imported; a property of what must happen in the end would be about a program that
runs them, which is not this one.

### The findings

`start_payment` says of an attempt whose initiation answer was lost that "Reconciliation can
safely resolve that attempt later". `payment_unanswered` shows that it cannot: reconciliation
and verification need the authority that was lost, `start_payment` refuses an attempt that is
in flight, a retry needs a failed one. The attempt stays pending for ever, and its order
cannot be paid.

`InventoryService` calls the reservations the authoritative ledger and the stock what can be
sold. `inventory_overwrite` shows a product form opened before a checkout and saved after it
with nothing changed: the reserved unit is on sale again. Both the dashboard's form and the
admin site's have the field.

`InventoryService.reserve` promises product locks in id order. `inventory_lockorder` shows that
the checkout around it has taken them in the order of the cart's rows before; two checkouts
with the same products can deadlock, which `inventory_ledger` goes through (`BreakDeadlock`).

`rotate_refresh_token` revokes the session of a token that is presented a second time and then
raises "Token reuse detected", in one transaction: what it wrote is rolled back, and the session
stays active with its current token. `accounts_reuse` shows it in four steps (a login, a
rotation in two, and the old token again).

### Promises the code does not keep

The following are stated in the modules, each with its comment, and checked by no run, because
the code does not keep them; listed as an `INVARIANT` or `PROPERTY` of the instance named, each
gives a counterexample of a few steps.

Besides the one of `accounts_reuse`, two transactions write something and then raise, and so
write nothing.

* `Otp.WrongCodesAreCounted` (`accounts`): `EmailOTP.verify` (`accounts/models/otp.py:75`) saves
  `attempts + 1` for a wrong code and raises; `verify_otp` is one transaction
  (`accounts/services/otp_service.py:86`), so the limit of line 71 is never reached.
* `Sessions.IdleSessionEnds` (`accounts`): `authenticate` saves an idle session as
  revoked and raises "Session expired" (`accounts/authentication.py:69`).

Four more are about an order of steps.

* `Sessions.EndedSessionHasNoToken` (`accounts`): `logout_others`
  (`accounts/services/session_service.py:145`) evaluates one filter twice; a session that logs
  in between is ended and keeps a token that is not revoked.
* `Throttle.WindowWithinLimit` (`accounts`): the `decr` of `accounts/services/throttle.py:48` can
  hit the next window, which then accepts one request more than the limit. What holds is
  `OvershootHasACause`.
* "Reuse unexpired & unconsumed OTP" (`accounts/services/otp_service.py:33`): the lock of line 47
  locks nothing when there is no live row, so concurrent requests create a code each. What
  holds is `LiveCodesAreFew`: no more live codes of one purpose than workers.
* `Outbox.DispatchIsAtomic` (`outbox_delivery`): "Atomic per-event dispatch"
  (`events/services/processor.py:17`) is a savepoint, which does not take back what the first
  handlers have sent.

One is about an order that has moved on. `OrderPayment.ConsumedIsPaid` (`payment_retry`):
`confirm_order_payment` calls a consumed payment whose order is not `PAID` "a broken
cross-aggregate invariant" (`order/services/confirm_payment.py:113`), but every order that is
processed or refunded is such a combination, and a repeated callback for it is refused with
that error. What holds is `PaidOrderBacked`.

Two more have no definition of their own. `_persist_initiation_result`
(`payment/services/services.py:346`) puts a reference that the gateway delivered with the
opening on a pending attempt, which `clean` refuses (`AttemptRows.SaveRefused`), so the
authority is lost with it; ZarinPal's client delivers none. And a body without a usable code
(`payment/gateways/zarinpal.py:551`) is recorded and reported as "Gateway explicitly rejected
the operation.", which is why `FailureIsRefusal` and `FailedIsUnpaid` except sessions that such
a body was about.

## 4. The proofs

Assumptions: the named `ASSUME`s of `OrderPaymentData` (the null values are no rows,
`MaxAttempts` is positive, coupons and limits are functions, legacy payments belong to
different orders). None of the constant sets of `OrderPayment` needs to be finite.

`TypeOK` and the safety properties are not inductive by themselves. The strengthening is
`PaymentInvariant`, which adds

* `RowsLinked`: a payment belongs to an existing order, and has no attempt before it exists;
* `SessionsLinked`: the gateway knows only of attempts that exist and were sent to it;
* `RequestsCoherent`: what each request in flight may rely on. While an initiation is under
  way its attempt is pending, has no authority, and nobody else serves it; a verification or
  reconciliation works on a stored authority; an answer on its way to the rows is what the
  gateway said (a success is settled, a failure was denied).

The last one carries the argument: two requests meet on one attempt only if both have its
authority, so no initiation is repeated; and an answer applied late is still true, because a
settled session stays settled and a no stays on record, and Phase C applies it only to rows
that are still pending. `OneActivePayment` holds because Phase A counts pending and successful
payments under the order's lock. `ChargedOncePerOrder` follows: a settled session that was
never denied has an attempt that did not fail, hence an active payment, of which there is one.

`OrderPaymentProofs` proves `Init => PaymentInvariant` (`InvariantInit`), one lemma per group
of actions (`OrderStepKeeps`, `StartKeeps`, `CallbackKeeps`, `GatewayAnswersKeeps`,
`AnswerPersistedKeeps`, `ConsumedKeeps`, `CustomerKeeps`) that the invariant is kept and that
no terminal state is left, and from them the theorems `TypeCorrect`, `InvariantHolds`,
`OnePaymentPerOrder`, `SuccessHasEvidence`, `FailureHasEvidence`, `OutcomesAreTheGateways`,
`InitiatedOnce`, `PaymentAgreesWithAttempts`, `PaidOrdersAreBacked`, `NeverChargedTwice` and
`TerminalStatesAreFinal`. It also proves `CouponsAreCounted` (the set of orders sold with a
coupon stays finite, grows by one exactly when the coupon is redeemed, and never shrinks,
whatever becomes of the orders), `PaidOrdersAreAccounted` and `ServicesImplementSale`, step by
step: `OrderStepPromise`, `SuccessPromise` (a recorded success is `Charge`, and the first of
its order by `OneActivePayment`), `ConsumePromise` (`Fulfil`, possible once because a consumed
payment stays consumed), and `OthersKeepSuccess` with `Invisible` for all other steps.

`InventoryProofs` assumes that order and product numbers are naturals and that a cart is a
non-empty sequence of lines with positive quantities (`ConstantsAssumption`,
`CartAssumption`). Its invariant is `InventoryInvariant`:

* `RowsTyped`: the rows have their types, but for the amount of a stock;
* `OrdersLockedOnce`: no two transactions hold one order;
* `TransactionsCoherent`: a checkout holds an order that does not exist yet, a cancellation
  holds orders that may be cancelled, and what it has claimed are reservations in force of
  orders it holds;
* `ReservedUntilCancelled` itself.

The argument is that of the code: what a transaction has read of an order stays true while
it holds the order, because every change of a status needs that lock (`TransitionKeeps`,
`PlaceOrderKeeps`), and an order the expiry command found overdue is looked at again when its
lock is granted (`LockOverdueKeeps`). So when a cancellation ends, its orders may still be
cancelled and nothing of theirs is left to claim (`FinishCancellationKeeps`). Crashes and
rolled back deadlocks only release locks (`TransactionEnds`). The theorems are
`InvariantHolds`, `ReservationsLiveWithTheirOrder`, `EveryStatusChangeIsInTheTable` and
`InventoryImplementsWarehouse`; the last one maps `PlaceOrder` to `Take`,
`FinishCancellation` to `GiveBack` and the product forms to `Count` (`PlaceOrderTakes`,
`FinishCancellationGivesBack`, `ProductStepCounts`), and everything else to a stutter.

A second invariant of `Inventory`, `StockInvariant` (`GoodsTyped`, `UnplacedHoldNothing`,
`ReservationsFinite`), carries the arithmetic: goods are typed, an order that does not exist
has no items, and the orders that hold a reservation of a product are finitely many, although
`Orders` need not be. The sum of their quantities is `SumOver` of module `Sums`, the size of a
set of units, so that the library's facts about cardinality give its laws (`SumSplits`: taking
a set of orders out takes their sum out), with no induction over a fold. From it follow
`TypeCorrect` (a stock is never negative, with or without editors) and
`StockAndReservationsBalance`, which needs `Editors = {}`: `inventory_overwrite` shows why.

`RefundProofs` assumes `RefundAssumption`; the set of keys is finite, amounts, payments and
workers are arbitrary. `ExecutionInvariant` relates every request in flight, its row and the
gateway: a refund is asked for at most once, by the worker that reserved it; an answer on its
way is what the gateway did; a success is executed, a failure has been declined, also when a
reconciliation asked while the refund was on its way. `BalanceInvariant` adds the sums: pending
and successful refunds of a payment never exceed it, and the refunded flag is set exactly when
the successful ones make it up. The theorems are `RefundTypes`, `RefundOutcomesAgree`,
`RefundExecutedOnce`, `RefundFinality`, `RefundFlagMatchesSum`, `RefundMoneyWithinPayment` (an
executed refund is pending or successful, so the executed sum is bounded by the reserved one),
`RefundBalanceAgrees`, `RefundExecutionAgrees` and `RefundImplementsLedger`.

The first part of `GatewayProofs` proves all properties of `AttemptRows` for any number of
attempts, workers and identifiers. `RowsInvariant` says that a transaction's copy is the row it
locked, changed in the fields it is going to save, that two transactions never work on the
payment at once, that every stored row is clean, and that only the last of the chain is live.
The conditional UPDATE holds no payment lock, but it touches a pending row that nobody has
locked, and leaves one that `clean` would accept.

`OutboxProofs` is about any number of events, processors and crashes, any batch size, limit of
retries and handlers. `OutboxInvariant` says that no event is in two batches
(`BatchesDisjoint`) and that what is locked stays pending (`BatchesPending`); that a row worked
off but not yet committed claims only what is true (`RowsJustified`), and that the handlers up
to the current one have sent the event at hand (`HandlersInOrder`). `RepeatsExcused` counts:
each handler has sent an event at most as often as something failed, and once more if the event
is processed or on its way to be (`OnItsWay`); a crash turns that once into a repetition and
pays for it. The theorems are `TypeCorrect`, `ProcessedEventsWereSent`,
`FailedEventsWereRetried`, `EventsSettleAsEarned` (the two together), `RepeatsAreCaused`,
`SettledEventsStay` and `OutboxImplementsDelivery`.

`SessionsProofs` is about any number of sessions, tokens and workers. `SessionsInvariant` says
that a session is locked by one transaction (`LocksDisjoint`); that a session has one token
that can be exchanged (`AtMostOneToken`), and each token a session that exists
(`TokensLinked`); that a rotation holds its session, which stays active, and that the token it
exchanges is the only one left there (`RotationCoherent`); that a logout from everywhere has
locked all active sessions but those created since (`LogoutCoherent`). A rotation then leaves
its session with its new token alone, and no logout ends a session that is being rotated
before the rotation is done. The steps fall into those that only begin or end a transaction
(`JobChanges`), those that only end sessions and revoke tokens (`ShrinkingKeeps`,
`BystandersKeep`, `LogoutSteps`), the login and the rotation. The theorems are `TypeCorrect`,
`OneTokenPerSession`, `ActiveSessionsHoldTokens`, `OneTokenIsValid`, `EndedSessionsStayEnded`,
`LogoutAllEndsAll` and `LogoutsAreFinal`.

The second part of `GatewayProofs` is about `GatewayCalls`: any number of payments, gateways
and workers, and gateways that answer as they like within the model; it assumes that the null
value is no authority. `CallsInvariant` rests on three facts. Authorities are issued once per
gateway (`IssuedOnce`), so that what a callback's authority finds among the payments of its
gateway is the payment whose customer was sent there (`SessionIsOfPayment`). A payment is
opened by one call, and has no authority until that one is persisted (`OneInitiation`,
`InitiationIsSound`), so nobody verifies a session that is still being opened. And a result
that has been read stays true until it is saved (`VerificationIsSound`): a settled session
stays settled, a no stays on record with the state of the session in which it was said, a
session that was declined gets no money, and a body that could not be read stays on record. So
a status agrees with how the payment's own session ended (`OutcomeIsOfSession`), however late
the result is saved. Each step either leaves sessions and rows alone and moves one request, or
changes them for one payment; `CallsInvariantHolds` joins these cases, and
`SuccessStaysSettled` and `FailureStaysRefusal` state the properties.

`AccountsProofs` has the two other parts of the accounts. For `Otp` it assumes what
`OtpAssumption` says: the workers are finitely many, and the volume limit is positive
(`OTP_MAX_PER_10_MIN`, `otp_service.py:19`). `CodesInvariant` says that what a verification has
read of a row is still there while it holds the lock (`SnapshotIsCurrent`) and that no two
compare with one row (`OneComparison`), hence a code is accepted once. The bounds are counting
arguments. A request past the limits counts from then on: it saw fewer than `MaxPerWindow`
codes, and at most all workers are past the limits at once, so the codes of an open window
and the requests past the limits are together at most `MaxPerWindow - 1` and the number of workers
(`VolumeIsBounded`). A request for a code found no live one, so the live codes of a purpose
and the requests for it are together at most the workers (`LiveCodesWereRequested`).

For `Throttle` it assumes that the requests are finitely many. `CounterInvariant` says that the
key counts the requests that hold a place in its window, less at most those of earlier windows
that gave theirs back to it (`KeyCounts`), so that whoever is first to find it above `Limit`
found `Limit` accepted; that a window in which somebody was refused has that many
(`RefusalsAreFair`); and that accepted requests above the limit are matched by refused ones of
earlier windows (`OvershootIsCaused`). The theorems are
`CodesInvariantHolds`, `CodesAreAcceptedOnceInTime`, `CodesStayFew`, `CounterInvariantHolds` and
`CountStaysFair`.

`MCAccounts` and `MCGateway` only put parts side by side. `PartsAreApart` and `ViewsAreApart`
prove that each behaviour of the composition is one of every part, step by step, and from
them each checked safety property of the two runs is a theorem of the composition
(`PartsKeepTypes`, `PartsKeepOneToken`, `PartsKeepLogouts`, `PartsAcceptOnceInTime`,
`PartsKeepCodesFew`, `PartsCountFairly`; `ViewsKeepTypes`, `ViewsSettleSuccess`,
`ViewsRefuseFailure`). The invariants were checked by TLC on the constants of the runs before
they were proved.

Only model-checked: the liveness properties `ChargedIsConsumed`, `AuthorityIsResolved`,
`OverdueIsExpired`, since liveness under fairness is out of the reach of the installed provers,
and `WaitIsBounded`, a count over all older events. Every other property of a passing run is a
theorem.

## 5. What is next

1. `Shop`: the composition of `OrderPayment` and `Inventory` over the shared order row: a paid
   order holds its basket, a charged order that was closed does not. Both modules have the
   transitions of that row, each with the locks its own half needs.
2. `Cart`: a session dictionary copied to rows at login, and read by checkout under locks.
3. The step from `GatewayCalls` to `OrderPayment`: that the answers which `OrderPayment` takes
   from its gateway are those that `GatewayCalls` lets through.

## 6. Not modelled

Prices, discounts, amounts and currencies, which are constant snapshots compared and never
changed once the order exists (`GatewayCalls` has the comparison); gateway logs
(`payment/models/gateway_log.py`), which no decision reads; SLA monitoring and metrics, which
report; the cart, an input of checkout in `Inventory`, in the order the database returns its
rows; the querysets of `managers.py`, which nothing that changes state uses; dashboards,
catalogue pages, reviews and the website, which are forms over single rows; the contents and
signature of a JWT, and the JWT middleware, which is not installed; vendored assets and
migrations. `PROJECT.json` lists each with its reason.
