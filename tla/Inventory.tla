----------------------------- MODULE Inventory -----------------------------
(***************************************************************************)
(* Stock, reservations and the life of an order: core/order/services       *)
(* (order.py, inventory.py, state_machine.py), the command                 *)
(* expire_pending_orders and the forms that edit a product.                *)
(*                                                                         *)
(* A transaction takes its row locks one after the other and holds them    *)
(* until it ends, so it is several actions here; what it writes becomes    *)
(* visible in its last one.  Two transactions may wait for each other:     *)
(* the database then rolls one of them back.                               *)
(***************************************************************************)
EXTENDS Integers, Sequences, FiniteSetsExt, Sums, OrderStates

CONSTANTS
    Orders, Products,      \* sets of numbers: creation order and ids order the locks
    Workers, Editors,
    NoProduct,
    Carts,                 \* lines <<product, quantity>> in the order the database returns them
    InitialStock,
    Quantities,            \* arguments of increase and decrease, which src never calls
    Corrections,           \* what an editor adds to the stock the form shows
    MaxStock,              \* bound: what the shop owns of a product
    MaxCrashes             \* bound: workers that die in the middle of a transaction

ASSUME ConstantsAssumption ==
    /\ Orders \subseteq Nat /\ Products \subseteq Nat
    /\ Quantities \subseteq Nat \ {0} /\ Corrections \subseteq Int
    /\ MaxStock \in Nat /\ MaxCrashes \in Nat
    /\ InitialStock \in [Products -> Nat]
    /\ NoProduct \notin Products

\* CartItemModel: at least one line, and a product on one line only.
ASSUME CartAssumption ==
    \A cart \in Carts :
        /\ cart \in Seq(Products \X (Nat \ {0})) /\ cart # <<>>
        /\ \A i, j \in DOMAIN cart : cart[i][1] = cart[j][1] => i = j

VARIABLES
    product,       \* ProductModel rows: stock, and whether it is on sale
    order,         \* OrderModel rows: status, and whether expire_at has passed
    items,         \* the order's items: how many of each product
    reservation,   \* InventoryReservation rows, by order and product
    worker,        \* the transaction of each worker: what it does, its locks
    form,          \* the product form an editor has open
    supply,        \* history: what the shop owns of each product
    crashes

rows == <<product, order, items, reservation>>
vars == <<product, order, items, reservation, worker, form, supply, crashes>>

ReservationStatus == {"none", "RESERVED", "RELEASED"}

ProductRow == [stock : Nat, onSale : BOOLEAN]
OrderRow == [status : OrderStatus, expired : BOOLEAN]
Basket == [Products -> Nat]
Form == [product : Products \cup {NoProduct}, stock : Nat]
Transaction == [op : {"idle", "checkout", "cancel"}, cart : Carts \cup {<<>>},
                products : SUBSET Products,         \* locked
                orders : SUBSET Orders,             \* locked
                selected : SUBSET Orders,           \* to be locked
                claimed : SUBSET (Orders \X Products)]

Idle == [op |-> "idle", cart |-> <<>>, products |-> {}, orders |-> {},
         selected |-> {}, claimed |-> {}]
Closed == [product |-> NoProduct, stock |-> 0]

TypeOK ==
    /\ product \in [Products -> ProductRow]
    /\ order \in [Orders -> OrderRow]
    /\ items \in [Orders -> Basket]
    /\ reservation \in [Orders -> [Products -> ReservationStatus]]
    /\ worker \in [Workers -> Transaction]
    /\ form \in [Editors -> Form]
    /\ supply \in [Products -> Nat]
    /\ crashes \in Nat

Init ==
    /\ product = [p \in Products |-> [stock |-> InitialStock[p], onSale |-> TRUE]]
    /\ order = [o \in Orders |-> [status |-> "none", expired |-> FALSE]]
    /\ items = [o \in Orders |-> [p \in Products |-> 0]]
    /\ reservation = [o \in Orders |-> [p \in Products |-> "none"]]
    /\ worker = [w \in Workers |-> Idle]
    /\ form = [e \in Editors |-> Closed]
    /\ supply = InitialStock
    /\ crashes = 0

(***************************************************************************)
(* Locks.                                                                  *)
(***************************************************************************)
IsIdle(w) == worker[w].op = "idle"
Proceed(w, transaction) == worker' = [worker EXCEPT ![w] = transaction]

\* Rollback and commit both release every lock.
Finish(w) == Proceed(w, Idle)

ProductFree(p, w) == \A v \in Workers \ {w} : p \notin worker[v].products
OrderFree(o, w) == \A v \in Workers \ {w} : o \notin worker[v].orders
Unlocked(p) == \A v \in Workers : p \notin worker[v].products

LinesOf(cart) == {cart[i][1] : i \in DOMAIN cart}
ItemsOf(cart) ==
    [p \in Products |->
        IF p \in LinesOf(cart) THEN cart[CHOOSE i \in DOMAIN cart : cart[i][1] = p][2] ELSE 0]

\* Reservations of the locked orders that the transaction has yet to claim.
Due(w) ==
    {d \in (worker[w].orders \X Products) \ worker[w].claimed :
        reservation[d[1]][d[2]] = "RESERVED"}

\* restore works through one order after the other, product by product.
Before(a, b) == a[1] > b[1] \/ (a[1] = b[1] /\ a[2] < b[2])

\* The row a transaction asks for next: at most one product or one order.
NextLine(w) ==
    {worker[w].cart[i][1] : i \in {j \in DOMAIN worker[w].cart :
        /\ worker[w].cart[j][1] \notin worker[w].products
        /\ \A k \in 1 .. j - 1 : worker[w].cart[k][1] \in worker[w].products}}

NextOrder(w) == {o \in worker[w].selected : \A r \in worker[w].selected : r <= o}

NextDue(w) ==
    {d \in Due(w) : worker[w].selected = {} /\ \A c \in Due(w) \ {d} : Before(d, c)}

WaitsFor(w, v) ==
    /\ w # v
    /\ \/ (NextLine(w) \cup {d[2] : d \in NextDue(w)}) \cap worker[v].products # {}
       \/ NextOrder(w) \cap worker[v].orders # {}

\* The members of a cycle, each waiting for another one.
InDeadlock(w) ==
    \E cycle \in SUBSET Workers :
        /\ w \in cycle
        /\ \A v \in cycle : \E u \in cycle : WaitsFor(v, u)
        /\ \A v \in cycle : \E u \in cycle : WaitsFor(u, v)

Overdue == {o \in Orders : order[o].status = "pending" /\ order[o].expired}

WithStatus(row, status) == [row EXCEPT !.status = status]
WithStock(row, n) == [stock |-> n, onSale |-> row.onSale]
Together(orders, p) == SumOver([o \in Orders |-> items[o][p]], orders)
ClaimedFor(w, p) == {o \in Orders : <<o, p>> \in worker[w].claimed}

(***************************************************************************)
(* Plausible mistakes: each of these is one of the definitions below with  *)
(* a guard, a check or an assignment changed.  No specification uses them; *)
(* they show that every property can be broken.                            *)
(***************************************************************************)
\* The stock is checked when the cart is filled, not under the lock.
CanReserveUnchecked(w) ==
    \A p \in LinesOf(worker[w].cart) : product[p].onSale

\* Overdue orders are locked, but not looked at again.
LockOverdueAsFound(w, o) ==
    /\ o \in NextOrder(w) /\ OrderFree(o, w)
    /\ Proceed(w, [worker[w] EXCEPT !.selected = worker[w].selected \ {o},
                     !.orders = worker[w].orders \cup {o}])
    /\ UNCHANGED <<rows, form, supply, crashes>>

\* A cancellation has no side effect.
TransitionWithoutRestore(o, status) ==
    /\ status \in TRANSITIONS[order[o].status]
    /\ \A w \in Workers : o \notin worker[w].orders
    /\ order' = [order EXCEPT ![o] = WithStatus(order[o], status)]
    /\ UNCHANGED <<product, items, reservation, worker, form, supply, crashes>>

\* The end of a cancellation raises, and everything is rolled back.
FinishRolledBack(w) ==
    /\ worker[w].op = "cancel" /\ worker[w].selected = {} /\ Due(w) = {}
    /\ Finish(w)
    /\ UNCHANGED <<rows, form, supply, crashes>>

\* The stock is written from the instance read before: of two orders that
\* return one product, the second overwrites what the first put back.
FinishFromInstances(w) ==
    /\ worker[w].op = "cancel" /\ worker[w].selected = {} /\ Due(w) = {}
    /\ order' = [o \in Orders |-> IF o \in worker[w].orders
          THEN WithStatus(order[o], "cancelled") ELSE order[o]]
    /\ reservation' = [o \in Orders |-> [p \in Products |->
          IF <<o, p>> \in worker[w].claimed THEN "RELEASED" ELSE reservation[o][p]]]
    /\ product' = [p \in Products |-> WithStock(product[p], product[p].stock +
          IF ClaimedFor(w, p) = {} THEN 0 ELSE items[Min(ClaimedFor(w, p))][p])]
    /\ Finish(w)
    /\ UNCHANGED <<items, form, supply, crashes>>

(***************************************************************************)
(* create_online_order.  Its first query joins cart items and products     *)
(* and locks both, line by line and in no stated order; the products are   *)
(* then re-read under their locks, checked, and reserved.                  *)
(***************************************************************************)
BeginCheckout(w, o, cart) ==
    /\ IsIdle(w)
    /\ order[o].status = "none" /\ OrderFree(o, w)
    /\ Proceed(w, [Idle EXCEPT !.op = "checkout", !.cart = cart, !.orders = {o}])
    /\ UNCHANGED <<rows, form, supply, crashes>>

LockLine(w, p) ==
    /\ worker[w].op = "checkout"
    /\ p \in NextLine(w)
    /\ ProductFree(p, w)
    /\ Proceed(w, [worker[w] EXCEPT !.products = worker[w].products \cup {p}])
    /\ UNCHANGED <<rows, form, supply, crashes>>

AllLocked(w) == worker[w].op = "checkout" /\ NextLine(w) = {}

CanReserve(w) ==
    \A p \in LinesOf(worker[w].cart) :
        product[p].onSale /\ product[p].stock >= ItemsOf(worker[w].cart)[p]

\* Order, items, reservations and stock appear together, or not at all.
PlaceOrder(w, o) ==
    LET taken == ItemsOf(worker[w].cart) IN
    /\ AllLocked(w) /\ CanReserve(w) /\ o \in worker[w].orders
    /\ order' = [order EXCEPT ![o] = WithStatus(order[o], "pending")]
    /\ items' = [items EXCEPT ![o] = taken]
    /\ reservation' = [reservation EXCEPT ![o] =
          [p \in Products |-> IF taken[p] > 0 THEN "RESERVED" ELSE "none"]]
    /\ product' = [p \in Products |->
          WithStock(product[p], product[p].stock - taken[p])]
    /\ Finish(w)
    /\ UNCHANGED <<form, supply, crashes>>

RefuseCheckout(w) ==
    /\ AllLocked(w) /\ ~CanReserve(w)
    /\ Finish(w)
    /\ UNCHANGED <<rows, form, supply, crashes>>

(***************************************************************************)
(* expire_pending_orders: one transaction over all overdue orders, newest  *)
(* first.  An order found by the query is locked, and looked at again when *)
(* the lock is granted.                                                    *)
(***************************************************************************)
\* expire_at is read of pending orders only, and failed ones may become that.
DeadlinePasses(o) ==
    /\ order[o].status \in {"pending", "failed"} /\ ~order[o].expired
    /\ order' = [order EXCEPT ![o] = [status |-> order[o].status, expired |-> TRUE]]
    /\ UNCHANGED <<product, items, reservation, worker, form, supply, crashes>>

BeginExpiry(w) ==
    /\ IsIdle(w) /\ Overdue # {}
    /\ Proceed(w, [Idle EXCEPT !.op = "cancel", !.selected = Overdue])
    /\ UNCHANGED <<rows, form, supply, crashes>>

LockOverdue(w, o) ==
    /\ o \in NextOrder(w) /\ OrderFree(o, w)
    /\ Proceed(w, [worker[w] EXCEPT !.selected = worker[w].selected \ {o},
                     !.orders = worker[w].orders \cup ({o} \cap Overdue)])
    /\ UNCHANGED <<rows, form, supply, crashes>>

(***************************************************************************)
(* OrderStateMachine.transition: the order is locked, and its status must  *)
(* lead to the new one.  Only a cancellation touches other rows: restore   *)
(* claims the order's reservations and locks their products.               *)
(***************************************************************************)
MayBecome(o, status) == status \in TRANSITIONS[order[o].status]

Transition(o, status) ==
    /\ MayBecome(o, status) /\ status # "cancelled"
    /\ \A w \in Workers : o \notin worker[w].orders
    /\ order' = [order EXCEPT ![o] = WithStatus(order[o], status)]
    /\ UNCHANGED <<product, items, reservation, worker, form, supply, crashes>>

BeginCancellation(w, o) ==
    /\ IsIdle(w)
    /\ MayBecome(o, "cancelled") /\ OrderFree(o, w)
    /\ Proceed(w, [Idle EXCEPT !.op = "cancel", !.orders = {o}])
    /\ UNCHANGED <<rows, form, supply, crashes>>

Restore(w, o, p) ==
    /\ worker[w].op = "cancel"
    /\ <<o, p>> \in NextDue(w) /\ ProductFree(p, w)
    /\ Proceed(w, [worker[w] EXCEPT !.products = worker[w].products \cup {p},
                     !.claimed = worker[w].claimed \cup {<<o, p>>}])
    /\ UNCHANGED <<rows, form, supply, crashes>>

FinishCancellation(w) ==
    /\ worker[w].op = "cancel" /\ worker[w].selected = {} /\ Due(w) = {}
    /\ order' = [o \in Orders |-> IF o \in worker[w].orders
          THEN WithStatus(order[o], "cancelled") ELSE order[o]]
    /\ reservation' = [o \in Orders |-> [p \in Products |->
          IF <<o, p>> \in worker[w].claimed THEN "RELEASED" ELSE reservation[o][p]]]
    /\ product' = [p \in Products |->
          WithStock(product[p], product[p].stock + Together(ClaimedFor(w, p), p))]
    /\ Finish(w)
    /\ UNCHANGED <<items, form, supply, crashes>>

(***************************************************************************)
(* The other ways to change a stock.  A product form shows the stock when  *)
(* it is opened and writes the entered one when it is saved, with no lock  *)
(* in between; the editor means to correct what the form showed.           *)
(***************************************************************************)
OpenForm(e, p) ==
    /\ form[e] = Closed
    /\ form' = [form EXCEPT ![e] = [product |-> p, stock |-> product[p].stock]]
    /\ UNCHANGED <<rows, worker, supply, crashes>>

SaveForm(e, correction, onSale) ==
    LET p == form[e].product IN
    /\ p # NoProduct /\ Unlocked(p)
    /\ form[e].stock + correction >= 0
    /\ supply[p] + correction \in 0 .. MaxStock
    /\ product' = [product EXCEPT ![p] =
          [stock |-> form[e].stock + correction, onSale |-> onSale]]
    /\ supply' = [supply EXCEPT ![p] = supply[p] + correction]
    /\ form' = [form EXCEPT ![e] = Closed]
    /\ UNCHANGED <<order, items, reservation, worker, crashes>>

Increase(p, quantity) ==
    /\ Unlocked(p) /\ supply[p] + quantity <= MaxStock
    /\ product' = [product EXCEPT ![p] = WithStock(product[p], product[p].stock + quantity)]
    /\ supply' = [supply EXCEPT ![p] = supply[p] + quantity]
    /\ UNCHANGED <<order, items, reservation, worker, form, crashes>>

Decrease(p, quantity) ==
    /\ Unlocked(p) /\ product[p].stock >= quantity /\ supply[p] >= quantity
    /\ product' = [product EXCEPT ![p] = WithStock(product[p], product[p].stock - quantity)]
    /\ supply' = [supply EXCEPT ![p] = supply[p] - quantity]
    /\ UNCHANGED <<order, items, reservation, worker, form, crashes>>

(***************************************************************************)
(* A transaction that does not end: its worker dies, or the database picks *)
(* it to break a deadlock.                                                 *)
(***************************************************************************)
Crash(w) ==
    /\ ~IsIdle(w) /\ crashes < MaxCrashes
    /\ Finish(w)
    /\ crashes' = crashes + 1
    /\ UNCHANGED <<rows, form, supply>>

BreakDeadlock(w) ==
    /\ InDeadlock(w)
    /\ Finish(w)
    /\ UNCHANGED <<rows, form, supply, crashes>>
(***************************************************************************)
(* The specification.                                                      *)
(***************************************************************************)
CheckoutStep(w) ==
    \/ \E o \in Orders, cart \in Carts : BeginCheckout(w, o, cart)
    \/ \E p \in Products : LockLine(w, p)
    \/ \E o \in Orders : PlaceOrder(w, o)
    \/ RefuseCheckout(w)

CancellationStep(w) ==
    \/ BeginExpiry(w)
    \/ \E o \in Orders : LockOverdue(w, o) \/ BeginCancellation(w, o)
    \/ \E o \in Orders, p \in Products : Restore(w, o, p)
    \/ FinishCancellation(w)

ProductStep ==
    \/ \E e \in Editors : \/ \E p \in Products : OpenForm(e, p)
                          \/ \E n \in Corrections, onSale \in BOOLEAN : SaveForm(e, n, onSale)
    \/ \E p \in Products, n \in Quantities : Increase(p, n) \/ Decrease(p, n)

Next ==
    \/ \E w \in Workers : CheckoutStep(w) \/ CancellationStep(w) \/ Crash(w) \/ BreakDeadlock(w)
    \/ \E o \in Orders : DeadlinePasses(o) \/ \E s \in OrderStatus : Transition(o, s)
    \/ ProductStep

Spec == Init /\ [][Next]_vars

\* A transaction that has begun goes on; the database queues who waits for a
\* lock, and breaks deadlocks; the expiry command is scheduled as a process of
\* its own.
LockStep(w) ==
    \/ \E p \in Products : LockLine(w, p)
    \/ \E o \in Orders : LockOverdue(w, o)
    \/ \E o \in Orders, p \in Products : Restore(w, o, p)

LastStep(w) ==
    \/ \E o \in Orders : PlaceOrder(w, o)
    \/ RefuseCheckout(w)
    \/ FinishCancellation(w)

Scheduled(w) ==
    SF_vars(BeginExpiry(w)) /\ SF_vars(LockStep(w)) /\ WF_vars(LastStep(w) \/ BreakDeadlock(w))

FairSpec == Spec /\ \A w \in Workers : Scheduled(w)

(***************************************************************************)
(* Safety.                                                                 *)
(***************************************************************************)
ReservedBy(p) == {o \in Orders : reservation[o][p] = "RESERVED"}
Reserved(p) == Together(ReservedBy(p), p)

\* Product.stock is the "currently sellable/available stock", InventoryReservation
\* the "authoritative reservation ledger": what the shop owns of a product is
\* in its stock or reserved, so nothing is oversold and nothing gets lost.
LedgerBalances ==
    \A p \in Products : product[p].stock + Reserved(p) = supply[p]

\* The reservations of an order live and die together and with the order:
\* every item of a live order is reserved, every item of a cancelled one
\* released, whichever of expiry and cancellation came first.
ReservedUntilCancelled ==
    \A o \in Orders, p \in Products :
        /\ items[o][p] = 0 => reservation[o][p] = "none"
        /\ items[o][p] > 0 => reservation[o][p] =
              IF order[o].status = "cancelled" THEN "RELEASED" ELSE "RESERVED"

\* The state machine is "the final authority for concurrent status
\* transitions": a batch that found an order overdue never cancels it after
\* it was paid.
StatusStep ==
    \A o \in Orders : order[o].status # "none" /\ order'[o].status # order[o].status =>
        order'[o].status \in TRANSITIONS[order[o].status]

StatusFollowsMachine == [][StatusStep]_vars

\* "Product locks are acquired in deterministic product-id order": a checkout
\* that holds a product has locked every lower one it needs.
LocksInProductOrder ==
    \A w \in Workers : worker[w].op = "checkout" =>
        \A p, q \in LinesOf(worker[w].cart) :
            p < q /\ q \in worker[w].products => p \in worker[w].products

(***************************************************************************)
(* Why it works: what is true of the transactions under way.               *)
(***************************************************************************)
OrdersLockedOnce ==
    \A v, w \in Workers : v # w => worker[v].orders \cap worker[w].orders = {}

\* A checkout holds the order it is about to create; a cancellation holds
\* orders that may be cancelled, and has claimed reservations of theirs.
Coherent(t) ==
    /\ t.op = "idle" => t = Idle
    /\ t.op = "checkout" =>
          /\ t.cart \in Carts /\ t.selected = {} /\ t.claimed = {}
          /\ \A o \in t.orders : order[o].status = "none"
    /\ t.op = "cancel" => \A o \in t.orders : MayBecome(o, "cancelled")
    /\ \A o \in Orders, p \in Products : <<o, p>> \in t.claimed =>
          o \in t.orders /\ reservation[o][p] = "RESERVED"

TransactionsCoherent == \A w \in Workers : Coherent(worker[w])

\* TypeOK of what transactions read.  That a stock is never negative takes more.
RowsTyped ==
    /\ product = [p \in Products |-> product[p]]
    /\ order \in [Orders -> OrderRow]
    /\ items \in [Orders -> Basket]
    /\ reservation \in [Orders -> [Products -> ReservationStatus]]
    /\ worker \in [Workers -> Transaction]

\* Inductive: every conjunct holds after a step because all hold before it.
InventoryInvariant ==
    /\ RowsTyped
    /\ OrdersLockedOnce
    /\ TransactionsCoherent
    /\ ReservedUntilCancelled

GoodsTyped ==
    /\ product \in [Products -> ProductRow]
    /\ form \in [Editors -> Form]
    /\ supply \in [Products -> Nat]
    /\ crashes \in Nat

\* An order that does not exist has no items, and however many orders there
\* are, those that reserve a product can be counted.
UnplacedHoldNothing ==
    \A o \in Orders, p \in Products : order[o].status = "none" => items[o][p] = 0

ReservationsFinite == \A p \in Products : IsFiniteSet(ReservedBy(p))

\* Inductive as well, and enough to weigh stock against reservations.
StockInvariant ==
    /\ InventoryInvariant
    /\ GoodsTyped
    /\ UnplacedHoldNothing
    /\ ReservationsFinite

(***************************************************************************)
(* The transactions, lock by lock, implement the promise of Warehouse.     *)
(***************************************************************************)
Holding(o) ==
    IF order[o].status = "none" THEN "absent"
    ELSE IF order[o].status = "cancelled" THEN "returned" ELSE "held"

Shelf == INSTANCE Warehouse WITH
    Baskets <- {ItemsOf(cart) : cart \in Carts},
    onShelf <- [p \in Products |-> product[p].stock],
    holding <- [o \in Orders |-> Holding(o)],
    basket  <- items

\* Checkout takes a whole basket in one step or nothing, a batch of expired
\* orders gives all of theirs back once, and nobody else moves goods but by
\* counting one product.
ImplementsWarehouse == Shelf!Spec

(***************************************************************************)
(* Liveness.                                                               *)
(***************************************************************************)
\* No order stays overdue, however many orders of a batch other workers hold
\* or pay, unless the database has deadlocks to break again and again.
OverdueIsExpired ==
    \A o \in Orders : []<>(o \notin Overdue \/ \E w \in Workers : InDeadlock(w))
=============================================================================
