-------------------------- MODULE InventoryProofs --------------------------
(***************************************************************************)
(* Proofs about Inventory, for any number of orders, products, workers,    *)
(* editors and crashes, any carts and any stock.                           *)
(***************************************************************************)
EXTENDS Inventory, SumsProofs

(***************************************************************************)
(* Tables and rows.                                                        *)
(***************************************************************************)
\* What the transition table says of the statuses the model names.
LEMMA StatusFacts ==
  /\ {"none", "pending", "cancelled"} \subseteq OrderStatus
  /\ TRANSITIONS["none"] = {}
  /\ TRANSITIONS["cancelled"] = {}
  /\ \A s \in OrderStatus : TRANSITIONS[s] \subseteq OrderStatus
  BY DEF OrderStatus, TRANSITIONS

\* A row with another status is a row, and has that status.
LEMMA WithStatusTyped ==
  ASSUME NEW row \in OrderRow, NEW s \in OrderStatus
  PROVE  /\ WithStatus(row, s) \in OrderRow
         /\ WithStatus(row, s).status = s
  BY DEF OrderRow, WithStatus

\* What a cart puts into an order is a natural number of every product.
LEMMA ItemsTyped ==
  ASSUME NEW cart \in Carts \cup {<<>>}
  PROVE  ItemsOf(cart) \in Basket
<1>1. SUFFICES ASSUME NEW p \in Products, p \in LinesOf(cart)
               PROVE  cart[CHOOSE i \in DOMAIN cart : cart[i][1] = p][2] \in Nat
  BY DEF ItemsOf, Basket
<1>2. cart \in Seq(Products \X (Nat \ {0}))
  <2>1. CASE cart \in Carts
    BY <2>1, CartAssumption
  <2>2. CASE cart = <<>>
    BY <2>2
  <2>3. QED
    BY <2>1, <2>2
<1>3. PICK i \in DOMAIN cart : cart[i][1] = p
  BY <1>1 DEF LinesOf
<1> DEFINE chosen == CHOOSE k \in DOMAIN cart : cart[k][1] = p
<1>4. chosen \in DOMAIN cart
  BY <1>3
<1>5. cart[chosen] \in Products \X (Nat \ {0})
  BY <1>2, <1>4
<1>6. QED
  BY <1>5

\* An idle worker is a transaction without locks or claims.
LEMMA IdleTyped ==
  /\ Idle \in Transaction
  /\ Idle.op = "idle" /\ Idle.orders = {} /\ Idle.claimed = {} /\ Idle.selected = {}
  BY DEF Idle, Transaction

\* A worker's transaction is replaced and no other one changes.
LEMMA ProceedEffect ==
  ASSUME worker \in [Workers -> Transaction], NEW w \in Workers,
         NEW t \in Transaction, Proceed(w, t)
  PROVE  /\ worker' \in [Workers -> Transaction]
         /\ \A v \in Workers : worker'[v] = IF v = w THEN t ELSE worker[v]
  BY DEF Proceed

\* Saving the row of one order.
LEMMA OrderSaved ==
  ASSUME order \in [Orders -> OrderRow], NEW o \in Orders, NEW row \in OrderRow,
         order' = [order EXCEPT ![o] = row]
  PROVE  /\ order' \in [Orders -> OrderRow]
         /\ \A r \in Orders : order'[r] = IF r = o THEN row ELSE order[r]
  OBVIOUS

(***************************************************************************)
(* The inductive invariant.                                                *)
(***************************************************************************)
LEMMA InvariantInit == Init => InventoryInvariant
<1> SUFFICES ASSUME Init PROVE InventoryInvariant
  OBVIOUS
<1>1. RowsTyped
  <2>1. order \in [Orders -> OrderRow]
    BY StatusFacts DEF Init, OrderRow
  <2>2. worker \in [Workers -> Transaction]
    BY IdleTyped DEF Init
  <2>3. /\ items \in [Orders -> Basket]
        /\ reservation \in [Orders -> [Products -> ReservationStatus]]
        /\ product = [p \in Products |-> product[p]]
    BY DEF Init, Basket, ReservationStatus
  <2>4. QED
    BY <2>1, <2>2, <2>3 DEF RowsTyped
<1>2. OrdersLockedOnce
  BY IdleTyped DEF Init, OrdersLockedOnce
<1>3. TransactionsCoherent
  BY IdleTyped DEF Init, TransactionsCoherent, Coherent
<1>4. ReservedUntilCancelled
  BY DEF Init, ReservedUntilCancelled
<1>5. QED
  BY <1>1, <1>2, <1>3, <1>4 DEF InventoryInvariant

\* A transaction that only takes a step of its own keeps the invariant if its
\* new state is coherent and it takes no order that another one has locked.
LEMMA TransactionMoves ==
  ASSUME InventoryInvariant, NEW w \in Workers, NEW t \in Transaction,
         Proceed(w, t), UNCHANGED rows,
         \A v \in Workers \ {w} : worker[v].orders \cap t.orders = {},
         Coherent(t)
  PROVE  InventoryInvariant' /\ StatusStep
<1>1. /\ worker' \in [Workers -> Transaction]
      /\ \A v \in Workers : worker'[v] = IF v = w THEN t ELSE worker[v]
  BY ProceedEffect DEF InventoryInvariant, RowsTyped
<1>2. RowsTyped'
  BY <1>1 DEF InventoryInvariant, RowsTyped, rows
<1>3. OrdersLockedOnce'
  BY <1>1 DEF InventoryInvariant, OrdersLockedOnce
<1>4. TransactionsCoherent'
  <2> SUFFICES ASSUME NEW v \in Workers PROVE Coherent(worker[v])'
    BY DEF TransactionsCoherent
  <2>1. Coherent(worker'[v])
    BY <1>1 DEF InventoryInvariant, TransactionsCoherent
  <2>2. QED
    BY <2>1 DEF Coherent, MayBecome, rows
<1>5. ReservedUntilCancelled' /\ StatusStep
  BY DEF InventoryInvariant, ReservedUntilCancelled, StatusStep, rows
<1>6. QED
  BY <1>2, <1>3, <1>4, <1>5 DEF InventoryInvariant

\* A transaction that ends without a trace keeps it, whatever it held.
LEMMA TransactionEnds ==
  ASSUME InventoryInvariant, NEW w \in Workers, Finish(w), UNCHANGED rows
  PROVE  InventoryInvariant' /\ StatusStep
<1>1. Coherent(Idle)
  BY IdleTyped DEF Coherent
<1>2. QED
  BY <1>1, IdleTyped, TransactionMoves DEF Finish

\* What the invariant says of one worker and its transaction.
LEMMA TransactionFacts ==
  ASSUME InventoryInvariant, NEW w \in Workers
  PROVE  /\ worker[w] \in Transaction
         /\ Coherent(worker[w])
         /\ \A v \in Workers \ {w} : worker[v].orders \cap worker[w].orders = {}
  BY DEF InventoryInvariant, RowsTyped, TransactionsCoherent, OrdersLockedOnce

\* A checkout starts with an order that does not exist yet.
LEMMA BeginCheckoutKeeps ==
  ASSUME InventoryInvariant, NEW w \in Workers, NEW o \in Orders, NEW cart \in Carts,
         BeginCheckout(w, o, cart)
  PROVE  InventoryInvariant' /\ StatusStep
<1> DEFINE t == [Idle EXCEPT !.op = "checkout", !.cart = cart, !.orders = {o}]
<1>1. /\ t \in Transaction
      /\ t.op = "checkout" /\ t.orders = {o} /\ t.cart = cart
      /\ t.selected = {} /\ t.claimed = {}
  BY DEF Idle, Transaction
<1>2. /\ order[o].status = "none" /\ OrderFree(o, w)
      /\ Proceed(w, t) /\ UNCHANGED rows
  BY DEF BeginCheckout
<1>3. Coherent(t)
  BY <1>1, <1>2 DEF Coherent
<1>4. \A v \in Workers \ {w} : worker[v].orders \cap t.orders = {}
  BY <1>1, <1>2 DEF OrderFree
<1> HIDE DEF t
<1>5. QED
  BY <1>1, <1>2, <1>3, <1>4, TransactionMoves

\* A checkout locks one more product, and holds the same order.
LEMMA LockLineKeeps ==
  ASSUME InventoryInvariant, NEW w \in Workers, NEW p \in Products, LockLine(w, p)
  PROVE  InventoryInvariant' /\ StatusStep
<1> DEFINE t == [worker[w] EXCEPT !.products = worker[w].products \cup {p}]
<1>1. /\ t \in Transaction
      /\ t.op = worker[w].op /\ t.orders = worker[w].orders /\ t.cart = worker[w].cart
      /\ t.selected = worker[w].selected /\ t.claimed = worker[w].claimed
  BY TransactionFacts DEF Transaction
<1>2. worker[w].op = "checkout" /\ Proceed(w, t) /\ UNCHANGED rows
  BY DEF LockLine
<1>3. Coherent(t)
  BY <1>1, <1>2, TransactionFacts DEF Coherent
<1>4. \A v \in Workers \ {w} : worker[v].orders \cap t.orders = {}
  BY <1>1, TransactionFacts
<1> HIDE DEF t
<1>5. QED
  BY <1>1, <1>2, <1>3, <1>4, TransactionMoves

\* The expiry command starts with no order locked.
LEMMA BeginExpiryKeeps ==
  ASSUME InventoryInvariant, NEW w \in Workers, BeginExpiry(w)
  PROVE  InventoryInvariant' /\ StatusStep
<1> DEFINE t == [Idle EXCEPT !.op = "cancel", !.selected = Overdue]
<1>1. t \in Transaction /\ t.op = "cancel" /\ t.orders = {} /\ t.claimed = {}
  BY DEF Idle, Transaction, Overdue
<1>2. Proceed(w, t) /\ UNCHANGED rows
  BY DEF BeginExpiry
<1>3. Coherent(t)
  BY <1>1 DEF Coherent
<1> HIDE DEF t
<1>4. QED
  BY <1>1, <1>2, <1>3, TransactionMoves

\* An order that is locked by the expiry command and is still overdue is
\* pending, and so may be cancelled.
LEMMA LockOverdueKeeps ==
  ASSUME InventoryInvariant, NEW w \in Workers, NEW o \in Orders, LockOverdue(w, o)
  PROVE  InventoryInvariant' /\ StatusStep
<1> DEFINE t == [worker[w] EXCEPT !.selected = worker[w].selected \ {o},
                   !.orders = worker[w].orders \cup ({o} \cap Overdue)]
<1>1. /\ t \in Transaction
      /\ t.op = worker[w].op /\ t.orders = worker[w].orders \cup ({o} \cap Overdue)
      /\ t.claimed = worker[w].claimed
  BY TransactionFacts DEF Transaction
<1>2. OrderFree(o, w) /\ o \in worker[w].selected /\ Proceed(w, t) /\ UNCHANGED rows
  BY DEF LockOverdue, NextOrder
<1>3. worker[w].op = "cancel"
  BY <1>2, TransactionFacts, IdleTyped DEF Coherent, Transaction
<1>4. o \in Overdue => MayBecome(o, "cancelled")
  BY DEF Overdue, MayBecome, TRANSITIONS
<1>5. Coherent(t)
  BY <1>1, <1>3, <1>4, TransactionFacts DEF Coherent
<1>6. \A v \in Workers \ {w} : worker[v].orders \cap t.orders = {}
  BY <1>1, <1>2, TransactionFacts DEF OrderFree
<1> HIDE DEF t
<1>7. QED
  BY <1>1, <1>2, <1>5, <1>6, TransactionMoves

\* A cancellation starts with an order that may be cancelled.
LEMMA BeginCancellationKeeps ==
  ASSUME InventoryInvariant, NEW w \in Workers, NEW o \in Orders, BeginCancellation(w, o)
  PROVE  InventoryInvariant' /\ StatusStep
<1> DEFINE t == [Idle EXCEPT !.op = "cancel", !.orders = {o}]
<1>1. t \in Transaction /\ t.op = "cancel" /\ t.orders = {o} /\ t.claimed = {}
  BY DEF Idle, Transaction
<1>2. /\ MayBecome(o, "cancelled") /\ OrderFree(o, w)
      /\ Proceed(w, t) /\ UNCHANGED rows
  BY DEF BeginCancellation
<1>3. Coherent(t)
  BY <1>1, <1>2 DEF Coherent
<1>4. \A v \in Workers \ {w} : worker[v].orders \cap t.orders = {}
  BY <1>1, <1>2 DEF OrderFree
<1> HIDE DEF t
<1>5. QED
  BY <1>1, <1>2, <1>3, <1>4, TransactionMoves

\* A claim is of a reservation in force, of an order that is locked.
LEMMA RestoreKeeps ==
  ASSUME InventoryInvariant, NEW w \in Workers, NEW o \in Orders, NEW p \in Products,
         Restore(w, o, p)
  PROVE  InventoryInvariant' /\ StatusStep
<1> DEFINE locks == worker[w].products \cup {p}
           claims == worker[w].claimed \cup {<<o, p>>}
           t == [worker[w] EXCEPT !.products = locks, !.claimed = claims]
<1>1. worker[w] \in Transaction
  BY TransactionFacts
<1>2. locks \in SUBSET Products /\ claims \in SUBSET (Orders \X Products)
  BY <1>1 DEF Transaction
<1>3. /\ worker[w].op = "cancel" /\ <<o, p>> \in Due(w)
      /\ Proceed(w, t) /\ UNCHANGED rows
  BY DEF Restore, NextDue
<1>4. o \in worker[w].orders /\ reservation[o][p] = "RESERVED"
  BY <1>3 DEF Due
<1>5. \A r \in Orders, q \in Products :
        <<r, q>> \in claims => r \in worker[w].orders /\ reservation[r][q] = "RESERVED"
  BY <1>4, TransactionFacts DEF Coherent
<1> HIDE DEF locks, claims
<1>6. t = [worker[w] EXCEPT !.products = locks, !.claimed = claims]
  OBVIOUS
<1> HIDE DEF t
<1>7. /\ t \in Transaction
      /\ t.op = worker[w].op /\ t.orders = worker[w].orders
      /\ t.selected = worker[w].selected
      /\ t.claimed = claims
  BY <1>1, <1>2, <1>6 DEF Transaction
<1>8. Coherent(t)
  BY <1>3, <1>5, <1>7, TransactionFacts DEF Coherent
<1>9. \A v \in Workers \ {w} : worker[v].orders \cap t.orders = {}
  BY <1>7, TransactionFacts
<1>10. QED
  BY <1>3, <1>7, <1>8, <1>9, TransactionMoves

\* A change of products, forms and counters keeps the invariant.
LEMMA GoodsMove ==
  ASSUME InventoryInvariant, product' = [p \in Products |-> product'[p]],
         UNCHANGED <<order, items, reservation, worker>>
  PROVE  InventoryInvariant' /\ StatusStep
<1>1. RowsTyped' /\ OrdersLockedOnce'
  BY DEF InventoryInvariant, RowsTyped, OrdersLockedOnce
<1>2. TransactionsCoherent'
  BY DEF InventoryInvariant, TransactionsCoherent, Coherent, MayBecome
<1>3. ReservedUntilCancelled' /\ StatusStep
  BY DEF InventoryInvariant, ReservedUntilCancelled, StatusStep
<1>4. QED
  BY <1>1, <1>2, <1>3 DEF InventoryInvariant

\* No form and no call of increase or decrease touches an order.
LEMMA ProductStepKeeps ==
  ASSUME InventoryInvariant, ProductStep
  PROVE  InventoryInvariant' /\ StatusStep
<1>1. product = [p \in Products |-> product[p]]
  BY DEF InventoryInvariant, RowsTyped
<1>2. ASSUME NEW e \in Editors, NEW p \in Products, OpenForm(e, p)
      PROVE  product' = product /\ UNCHANGED <<order, items, reservation, worker>>
  BY <1>2 DEF OpenForm, rows
<1>3. ASSUME NEW p, NEW row, product' = [product EXCEPT ![p] = row]
      PROVE  product' = [q \in Products |-> product'[q]]
  BY <1>1, <1>3
<1>4. ASSUME NEW e \in Editors, NEW n \in Corrections, NEW onSale \in BOOLEAN,
             SaveForm(e, n, onSale)
      PROVE  /\ product' = [q \in Products |-> product'[q]]
             /\ UNCHANGED <<order, items, reservation, worker>>
  BY <1>3, <1>4 DEF SaveForm
<1>5. ASSUME NEW p \in Products, NEW n \in Quantities, Increase(p, n) \/ Decrease(p, n)
      PROVE  /\ product' = [q \in Products |-> product'[q]]
             /\ UNCHANGED <<order, items, reservation, worker>>
  BY <1>3, <1>5 DEF Increase, Decrease
<1>6. QED
  BY <1>1, <1>2, <1>4, <1>5, GoodsMove DEF ProductStep

\* A change of the rows of some orders that no transaction holds, or whose
\* transaction ends with it.
LEMMA TransactionsStayCoherent ==
  ASSUME InventoryInvariant, worker' \in [Workers -> Transaction],
         NEW changed \in SUBSET Orders,
         \A v \in Workers : \/ worker'[v] = Idle
                            \/ /\ worker'[v] = worker[v]
                               /\ worker[v].orders \cap changed = {},
         \A o \in Orders \ changed :
            order'[o].status = order[o].status /\ reservation'[o] = reservation[o]
  PROVE  OrdersLockedOnce' /\ TransactionsCoherent'
<1>1. OrdersLockedOnce'
  BY IdleTyped DEF InventoryInvariant, OrdersLockedOnce
<1>2. ASSUME NEW v \in Workers PROVE Coherent(worker[v])'
  <2>1. CASE worker'[v] = Idle
    BY <2>1, IdleTyped DEF Coherent
  <2>2. CASE worker'[v] = worker[v] /\ worker[v].orders \cap changed = {}
    <3>1. Coherent(worker[v]) /\ worker[v].orders \subseteq Orders \ changed
      BY <2>2, TransactionFacts DEF Transaction
    <3>2. QED
      BY <2>2, <3>1 DEF Coherent, MayBecome
  <2>3. QED
    BY <2>1, <2>2
<1>3. QED
  BY <1>1, <1>2 DEF TransactionsCoherent

\* A deadline is not part of what the invariant says of an order.
LEMMA DeadlinePassesKeeps ==
  ASSUME InventoryInvariant, NEW o \in Orders, DeadlinePasses(o)
  PROVE  InventoryInvariant' /\ StatusStep
<1> DEFINE row == [status |-> order[o].status, expired |-> TRUE]
<1>1. order \in [Orders -> OrderRow] /\ row \in OrderRow /\ row.status = order[o].status
  BY DEF InventoryInvariant, RowsTyped, OrderRow
<1>2. order' = [order EXCEPT ![o] = row]
      /\ UNCHANGED <<product, items, reservation, worker>>
  BY DEF DeadlinePasses
<1> HIDE DEF row
<1>3. /\ order' \in [Orders -> OrderRow]
      /\ \A r \in Orders : order'[r].status = order[r].status
  BY <1>1, <1>2, OrderSaved
<1>4. RowsTyped'
  BY <1>2, <1>3 DEF InventoryInvariant, RowsTyped
<1>5. OrdersLockedOnce' /\ TransactionsCoherent'
  BY <1>2, <1>3 DEF InventoryInvariant, OrdersLockedOnce, TransactionsCoherent,
                    Coherent, MayBecome
<1>6. ReservedUntilCancelled' /\ StatusStep
  BY <1>2, <1>3 DEF InventoryInvariant, ReservedUntilCancelled, StatusStep
<1>7. QED
  BY <1>4, <1>5, <1>6 DEF InventoryInvariant

\* A transition leads from one live status to another one.
LEMMA TransitionKeeps ==
  ASSUME InventoryInvariant, NEW o \in Orders, NEW s \in OrderStatus, Transition(o, s)
  PROVE  InventoryInvariant' /\ StatusStep
<1> DEFINE row == WithStatus(order[o], s)
<1>1. order \in [Orders -> OrderRow] /\ worker \in [Workers -> Transaction]
  BY DEF InventoryInvariant, RowsTyped
<1>2. row \in OrderRow /\ row.status = s
  BY <1>1, WithStatusTyped
<1>3. /\ s \in TRANSITIONS[order[o].status] /\ s # "cancelled"
      /\ \A w \in Workers : o \notin worker[w].orders
      /\ order' = [order EXCEPT ![o] = row]
      /\ UNCHANGED <<product, items, reservation, worker>>
  BY DEF Transition, MayBecome
<1> HIDE DEF row
<1>4. /\ order' \in [Orders -> OrderRow]
      /\ \A r \in Orders : order'[r] = IF r = o THEN row ELSE order[r]
  BY <1>1, <1>2, <1>3, OrderSaved
<1>5. RowsTyped'
  BY <1>3, <1>4 DEF InventoryInvariant, RowsTyped
<1>6. OrdersLockedOnce' /\ TransactionsCoherent'
  <2>1. \A v \in Workers : worker'[v] = worker[v] /\ worker[v].orders \cap {o} = {}
    BY <1>3
  <2>2. \A r \in Orders \ {o} :
           order'[r].status = order[r].status /\ reservation'[r] = reservation[r]
    BY <1>3, <1>4
  <2>3. worker' \in [Workers -> Transaction] /\ {o} \in SUBSET Orders
    BY <1>1, <1>3
  <2>4. QED
    BY <2>1, <2>2, <2>3, TransactionsStayCoherent
<1>7. order[o].status # "cancelled"
  BY <1>3, StatusFacts
<1>8. ReservedUntilCancelled'
  BY <1>2, <1>3, <1>4, <1>7 DEF InventoryInvariant, ReservedUntilCancelled
<1>9. StatusStep
  BY <1>2, <1>3, <1>4 DEF StatusStep
<1>10. QED
  BY <1>5, <1>6, <1>8, <1>9 DEF InventoryInvariant

\* An order is placed by the only transaction that holds it, and did not exist.
LEMMA PlaceOrderKeeps ==
  ASSUME InventoryInvariant, NEW w \in Workers, NEW o \in Orders, PlaceOrder(w, o)
  PROVE  InventoryInvariant' /\ StatusStep
<1> DEFINE taken == ItemsOf(worker[w].cart)
           row == WithStatus(order[o], "pending")
           kept == [p \in Products |-> IF taken[p] > 0 THEN "RESERVED" ELSE "none"]
<1>1. /\ order \in [Orders -> OrderRow] /\ worker \in [Workers -> Transaction]
      /\ items \in [Orders -> Basket]
      /\ reservation \in [Orders -> [Products -> ReservationStatus]]
  BY DEF InventoryInvariant, RowsTyped
<1>2. row \in OrderRow /\ row.status = "pending"
  BY <1>1, WithStatusTyped, StatusFacts
<1>3. taken \in Basket
  BY <1>1, ItemsTyped DEF Transaction
<1>4. kept \in [Products -> ReservationStatus]
  BY DEF ReservationStatus
<1>5. /\ worker[w].op = "checkout" /\ o \in worker[w].orders
      /\ order' = [order EXCEPT ![o] = row]
      /\ items' = [items EXCEPT ![o] = taken]
      /\ reservation' = [reservation EXCEPT ![o] = kept]
      /\ product' = [p \in Products |-> WithStock(product[p], product[p].stock - taken[p])]
      /\ Proceed(w, Idle)
  BY DEF PlaceOrder, AllLocked, Finish
<1>6. \A p \in Products : kept[p] = IF taken[p] > 0 THEN "RESERVED" ELSE "none"
  OBVIOUS
<1>7. product' = [p \in Products |-> product'[p]]
  BY <1>5
<1> HIDE DEF taken, row, kept
<1>8. order[o].status = "none"
  BY <1>5, TransactionFacts DEF Coherent
<1>9. /\ order' \in [Orders -> OrderRow]
      /\ \A r \in Orders : order'[r] = IF r = o THEN row ELSE order[r]
  BY <1>1, <1>2, <1>5, OrderSaved
<1>10. /\ items' \in [Orders -> Basket]
       /\ \A r \in Orders : items'[r] = IF r = o THEN taken ELSE items[r]
  BY <1>1, <1>3, <1>5
<1>11. /\ reservation' \in [Orders -> [Products -> ReservationStatus]]
       /\ \A r \in Orders : reservation'[r] = IF r = o THEN kept ELSE reservation[r]
  BY <1>1, <1>4, <1>5
<1>12. /\ worker' \in [Workers -> Transaction]
       /\ \A v \in Workers : worker'[v] = IF v = w THEN Idle ELSE worker[v]
  BY <1>1, <1>5, IdleTyped, ProceedEffect
<1>13. RowsTyped'
  BY <1>7, <1>9, <1>10, <1>11, <1>12 DEF RowsTyped
<1>14. OrdersLockedOnce' /\ TransactionsCoherent'
  <2>1. \A v \in Workers : \/ worker'[v] = Idle
                           \/ worker'[v] = worker[v] /\ worker[v].orders \cap {o} = {}
    BY <1>5, <1>12, TransactionFacts
  <2>2. \A r \in Orders \ {o} :
           order'[r].status = order[r].status /\ reservation'[r] = reservation[r]
    BY <1>9, <1>11
  <2>3. {o} \in SUBSET Orders
    OBVIOUS
  <2>4. QED
    BY <1>12, <2>1, <2>2, <2>3, TransactionsStayCoherent
<1>15. ReservedUntilCancelled'
  <2>1. ASSUME NEW r \in Orders, NEW p \in Products, r # o
        PROVE  /\ items'[r][p] = items[r][p] /\ reservation'[r][p] = reservation[r][p]
               /\ order'[r].status = order[r].status
    BY <1>9, <1>10, <1>11, <2>1
  <2>2. ASSUME NEW p \in Products
        PROVE  /\ items'[o][p] = taken[p] /\ taken[p] \in Nat
               /\ reservation'[o][p] = IF taken[p] > 0 THEN "RESERVED" ELSE "none"
               /\ order'[o].status = "pending"
    BY <1>2, <1>3, <1>6, <1>9, <1>10, <1>11, <2>2 DEF Basket
  <2>3. QED
    BY <2>1, <2>2 DEF InventoryInvariant, ReservedUntilCancelled
<1>16. StatusStep
  BY <1>8, <1>9 DEF StatusStep
<1>17. QED
  BY <1>13, <1>14, <1>15, <1>16 DEF InventoryInvariant

\* A cancellation closes orders that may be cancelled and releases what they
\* had reserved: nothing of theirs is left to claim.
LEMMA FinishCancellationKeeps ==
  ASSUME InventoryInvariant, NEW w \in Workers, FinishCancellation(w)
  PROVE  InventoryInvariant' /\ StatusStep
<1> DEFINE closed == worker[w].orders
           claimed == worker[w].claimed
<1>1. /\ order \in [Orders -> OrderRow] /\ worker \in [Workers -> Transaction]
      /\ items \in [Orders -> Basket]
      /\ reservation \in [Orders -> [Products -> ReservationStatus]]
  BY DEF InventoryInvariant, RowsTyped
<1>2. /\ worker[w].op = "cancel" /\ Due(w) = {}
      /\ order' = [o \in Orders |->
            IF o \in closed THEN WithStatus(order[o], "cancelled") ELSE order[o]]
      /\ reservation' = [o \in Orders |-> [p \in Products |->
            IF <<o, p>> \in claimed THEN "RELEASED" ELSE reservation[o][p]]]
      /\ product' = [p \in Products |-> product'[p]]
      /\ Proceed(w, Idle) /\ UNCHANGED items
  BY DEF FinishCancellation, Finish
<1>3. closed \in SUBSET Orders
  BY <1>1 DEF Transaction
<1>4. \A o \in closed : "cancelled" \in TRANSITIONS[order[o].status]
  BY <1>2, TransactionFacts DEF Coherent, MayBecome
<1>5. \A o \in Orders, p \in Products :
        <<o, p>> \in claimed => o \in closed /\ reservation[o][p] = "RESERVED"
  BY TransactionFacts DEF Coherent
<1>6. \A o \in closed, p \in Products :
        reservation[o][p] = "RESERVED" => <<o, p>> \in claimed
  <2> SUFFICES ASSUME NEW o \in closed, NEW p \in Products,
                      reservation[o][p] = "RESERVED", <<o, p>> \notin claimed
               PROVE  FALSE
    OBVIOUS
  <2>1. <<o, p>> \in Due(w)
    BY DEF Due
  <2>2. QED
    BY <1>2, <2>1
<1> HIDE DEF closed, claimed
<1>7. /\ order' \in [Orders -> OrderRow]
      /\ \A o \in Orders : order'[o].status =
            IF o \in closed THEN "cancelled" ELSE order[o].status
  BY <1>1, <1>2, WithStatusTyped, StatusFacts
<1>8. /\ reservation' \in [Orders -> [Products -> ReservationStatus]]
      /\ \A o \in Orders, p \in Products : reservation'[o][p] =
            IF <<o, p>> \in claimed THEN "RELEASED" ELSE reservation[o][p]
  BY <1>1, <1>2 DEF ReservationStatus
<1>9. /\ worker' \in [Workers -> Transaction]
      /\ \A v \in Workers : worker'[v] = IF v = w THEN Idle ELSE worker[v]
  BY <1>1, <1>2, IdleTyped, ProceedEffect
<1>10. RowsTyped'
  BY <1>1, <1>2, <1>7, <1>8, <1>9 DEF RowsTyped
<1>11. OrdersLockedOnce' /\ TransactionsCoherent'
  <2>1. \A v \in Workers : \/ worker'[v] = Idle
                           \/ worker'[v] = worker[v] /\ worker[v].orders \cap closed = {}
    BY <1>9, TransactionFacts DEF closed
  <2>2. ASSUME NEW o \in Orders \ closed
        PROVE  order'[o].status = order[o].status /\ reservation'[o] = reservation[o]
    <3>1. \A p \in Products : <<o, p>> \notin claimed
      BY <1>5, <2>2
    <3>2. \A p \in Products : reservation'[o][p] = reservation[o][p]
      BY <1>8, <3>1
    <3>3. reservation'[o] = reservation[o]
      BY <1>1, <1>8, <3>2
    <3>4. QED
      BY <1>7, <3>3
  <2>3. QED
    BY <1>3, <1>9, <2>1, <2>2, TransactionsStayCoherent
<1>12. ReservedUntilCancelled'
  <2>1. ASSUME NEW o \in closed, NEW p \in Products
        PROVE  order[o].status # "cancelled" /\ order'[o].status = "cancelled"
    BY <1>3, <1>4, <1>7, <2>1, StatusFacts
  <2>2. ASSUME NEW o \in Orders \ closed, NEW p \in Products
        PROVE  order'[o].status = order[o].status /\ reservation'[o][p] = reservation[o][p]
    BY <1>5, <1>7, <1>8, <2>2
  <2>3. QED
    BY <1>2, <1>3, <1>5, <1>6, <1>8, <2>1, <2>2 DEF InventoryInvariant, ReservedUntilCancelled
<1>13. StatusStep
  BY <1>4, <1>7 DEF StatusStep
<1>14. QED
  BY <1>10, <1>11, <1>12, <1>13 DEF InventoryInvariant

(***************************************************************************)
(* Theorems.                                                               *)
(***************************************************************************)
\* Every step of the specification keeps the invariant and follows the table.
LEMMA InvariantStep == InventoryInvariant /\ [Next]_vars => InventoryInvariant' /\ StatusStep
<1> SUFFICES ASSUME InventoryInvariant, [Next]_vars PROVE InventoryInvariant' /\ StatusStep
  OBVIOUS
<1>1. ASSUME NEW w \in Workers, CheckoutStep(w) PROVE InventoryInvariant' /\ StatusStep
  <2>1. CASE RefuseCheckout(w)
    BY <2>1, TransactionEnds DEF RefuseCheckout
  <2>2. QED
    BY <1>1, <2>1, BeginCheckoutKeeps, LockLineKeeps, PlaceOrderKeeps DEF CheckoutStep
<1>2. ASSUME NEW w \in Workers, CancellationStep(w) PROVE InventoryInvariant' /\ StatusStep
  BY <1>2, BeginExpiryKeeps, LockOverdueKeeps, BeginCancellationKeeps, RestoreKeeps,
     FinishCancellationKeeps DEF CancellationStep
<1>3. ASSUME NEW w \in Workers, Crash(w) \/ BreakDeadlock(w)
      PROVE  InventoryInvariant' /\ StatusStep
  BY <1>3, TransactionEnds DEF Crash, BreakDeadlock
<1>4. CASE UNCHANGED vars
  <2>1. product' = [p \in Products |-> product'[p]]
    BY <1>4 DEF InventoryInvariant, RowsTyped, vars
  <2>2. QED
    BY <1>4, <2>1, GoodsMove DEF vars
<1>5. QED
  BY <1>1, <1>2, <1>3, <1>4, DeadlinePassesKeeps, TransitionKeeps, ProductStepKeeps DEF Next

\* The invariant holds in every reachable state.
THEOREM InvariantHolds == Spec => []InventoryInvariant
<1>1. InventoryInvariant /\ [Next]_vars => InventoryInvariant'
  BY InvariantStep
<1>2. QED
  BY <1>1, InvariantInit, PTL DEF Spec

\* Whatever expiry, cancellation, payment and checkout do at once, every item
\* of a live order is reserved and every item of a cancelled one released.
THEOREM ReservationsLiveWithTheirOrder == Spec => []ReservedUntilCancelled
<1>1. InventoryInvariant => ReservedUntilCancelled
  BY DEF InventoryInvariant
<1>2. QED
  BY <1>1, InvariantHolds, PTL

\* No transaction ever moves an order past the table of the state machine.
THEOREM EveryStatusChangeIsInTheTable == Spec => StatusFollowsMachine
<1>1. InventoryInvariant /\ [Next]_vars => [StatusStep]_vars
  BY InvariantStep
<1>2. QED
  BY <1>1, InvariantHolds, PTL DEF Spec, StatusFollowsMachine

(***************************************************************************)
(* Stock and reservations.                                                 *)
(***************************************************************************)
\* The quantities of the orders that reserve a product can be added up, and
\* split into those of some of them and those of the rest.
LEMMA ReservedSums ==
  ASSUME StockInvariant, NEW p \in Products, NEW S \in SUBSET ReservedBy(p)
  PROVE  /\ Together(S, p) \in Nat /\ Reserved(p) \in Nat
         /\ Reserved(p) = Together(ReservedBy(p) \ S, p) + Together(S, p)
<1> DEFINE f == [o \in Orders |-> items[o][p]]
           R == ReservedBy(p)
<1>1. items \in [Orders -> Basket] /\ IsFiniteSet(R)
  BY DEF StockInvariant, InventoryInvariant, RowsTyped, ReservationsFinite
<1>2. f \in [Orders -> Nat]
  BY <1>1 DEF Basket
<1>3. R \in SUBSET Orders /\ S \in SUBSET R
  BY DEF ReservedBy
<1>4. /\ Together(S, p) = SumOver(f, S) /\ Reserved(p) = SumOver(f, R)
      /\ Together(R \ S, p) = SumOver(f, R \ S)
  BY DEF Together, Reserved
<1> HIDE DEF f, R
<1>5. S \in SUBSET Orders /\ IsFiniteSet(S)
  BY <1>1, <1>3, FS_Subset
<1>6. SumOver(f, S) \in Nat /\ SumOver(f, R) \in Nat
  BY <1>1, <1>2, <1>3, <1>5, SumType
<1>7. SumOver(f, R) = SumOver(f, R \ S) + SumOver(f, S)
  BY <1>1, <1>2, <1>3, SumSplits
<1>8. QED
  BY <1>4, <1>6, <1>7 DEF R

\* Nothing changes for goods if no product, basket or reservation does.
LEMMA GoodsRest ==
  ASSUME StockInvariant, InventoryInvariant', UNCHANGED <<product, items, reservation, supply>>,
         GoodsTyped',
         \A o \in Orders : order'[o].status = "none" => order[o].status = "none"
  PROVE  StockInvariant' /\ (LedgerBalances => LedgerBalances')
<1>1. UnplacedHoldNothing'
  BY DEF StockInvariant, UnplacedHoldNothing
<1>2. \A p \in Products : ReservedBy(p)' = ReservedBy(p) /\ Reserved(p)' = Reserved(p)
  BY DEF ReservedBy, Reserved, Together
<1>3. ReservationsFinite'
  BY <1>2 DEF StockInvariant, ReservationsFinite
<1>4. LedgerBalances => LedgerBalances'
  BY <1>2 DEF LedgerBalances
<1>5. QED
  BY <1>1, <1>3, <1>4 DEF StockInvariant

\* A placed order moves its basket from the stock to the reservations.
LEMMA PlaceOrderBalances ==
  ASSUME StockInvariant, InventoryInvariant', NEW w \in Workers, NEW o \in Orders,
         PlaceOrder(w, o)
  PROVE  StockInvariant' /\ (LedgerBalances => LedgerBalances')
<1> DEFINE taken == ItemsOf(worker[w].cart)
<1>1. /\ order \in [Orders -> OrderRow] /\ worker \in [Workers -> Transaction]
      /\ items \in [Orders -> Basket]
      /\ reservation \in [Orders -> [Products -> ReservationStatus]]
      /\ product \in [Products -> ProductRow]
  BY DEF StockInvariant, InventoryInvariant, RowsTyped, GoodsTyped
<1>2. /\ worker[w].op = "checkout" /\ o \in worker[w].orders /\ CanReserve(w)
      /\ order' = [order EXCEPT ![o] = WithStatus(order[o], "pending")]
      /\ items' = [items EXCEPT ![o] = taken]
      /\ reservation' = [reservation EXCEPT ![o] =
            [p \in Products |-> IF taken[p] > 0 THEN "RESERVED" ELSE "none"]]
      /\ product' = [p \in Products |-> WithStock(product[p], product[p].stock - taken[p])]
      /\ UNCHANGED <<form, supply, crashes>>
  BY DEF PlaceOrder, AllLocked
<1>3. order[o].status = "none"
  BY <1>2, TransactionFacts DEF Coherent, StockInvariant
<1>4. \A p \in Products : items[o][p] = 0 /\ o \notin ReservedBy(p)
  <2>1. \A p \in Products : items[o][p] = 0
    BY <1>3 DEF StockInvariant, UnplacedHoldNothing
  <2>2. QED
    BY <2>1 DEF StockInvariant, InventoryInvariant, ReservedUntilCancelled, ReservedBy
<1>5. taken \in [Products -> Nat]
  BY <1>1, ItemsTyped DEF Transaction, Basket
<1>6. \A p \in Products : taken[p] <= product[p].stock
  <2> SUFFICES ASSUME NEW p \in Products PROVE taken[p] <= product[p].stock
    OBVIOUS
  <2>1. product[p].stock \in Nat
    BY <1>1 DEF ProductRow
  <2>2. CASE p \in LinesOf(worker[w].cart)
    <3>1. product[p].stock >= taken[p]
      BY <1>2, <2>2 DEF CanReserve
    <3>2. QED
      BY <1>5, <2>1, <3>1
  <2>3. CASE p \notin LinesOf(worker[w].cart)
    <3>1. taken[p] = 0
      BY <2>3 DEF ItemsOf
    <3>2. QED
      BY <2>1, <3>1
  <2>4. QED
    BY <2>2, <2>3
<1> HIDE DEF taken
<1>7. \A p \in Products : /\ product'[p].stock = product[p].stock - taken[p]
                          /\ product'[p] \in ProductRow
  BY <1>1, <1>2, <1>5, <1>6 DEF WithStock, ProductRow
<1>8. GoodsTyped'
  BY <1>2, <1>7 DEF StockInvariant, GoodsTyped
<1>9. UnplacedHoldNothing'
  <2>1. order'[o].status = "pending"
    BY <1>1, <1>2, WithStatusTyped, StatusFacts
  <2>2. \A r \in Orders \ {o} : order'[r] = order[r] /\ items'[r] = items[r]
    BY <1>1, <1>2
  <2>3. QED
    BY <2>1, <2>2 DEF StockInvariant, UnplacedHoldNothing
<1>10. \A p \in Products : ReservedBy(p)' =
          IF taken[p] > 0 THEN ReservedBy(p) \cup {o} ELSE ReservedBy(p)
  <2>1. \A r \in Orders, p \in Products : reservation'[r][p] =
          IF r # o THEN reservation[r][p] ELSE IF taken[p] > 0 THEN "RESERVED" ELSE "none"
    BY <1>1, <1>2
  <2>2. QED
    BY <1>4, <2>1 DEF ReservedBy
<1>11. ReservationsFinite'
  <2>1. \A p \in Products : IsFiniteSet(ReservedBy(p))
    BY DEF StockInvariant, ReservationsFinite
  <2>2. \A p \in Products : IsFiniteSet(ReservedBy(p) \cup {o})
    BY <2>1, FS_AddElement
  <2>3. QED
    BY <1>10, <2>1, <2>2 DEF ReservationsFinite
<1>12. ASSUME NEW p \in Products PROVE Reserved(p)' = Reserved(p) + taken[p]
  <2> DEFINE f == [r \in Orders |-> items[r][p]]
             g == [r \in Orders |-> items'[r][p]]
             R == ReservedBy(p)
  <2>1. Reserved(p) = SumOver(f, R) /\ Reserved(p)' = SumOver(g, ReservedBy(p)')
    BY DEF Reserved, Together
  <2>2. R \in SUBSET Orders /\ IsFiniteSet(R) /\ o \notin R
    BY <1>4 DEF StockInvariant, ReservationsFinite, ReservedBy
  <2>3. \A r \in R : f[r] = g[r]
    BY <1>1, <1>2, <2>2
  <2>4. g \in [Orders -> Nat] /\ g[o] = taken[p]
    BY <1>1, <1>2, <1>5 DEF Basket
  <2>5. ReservedBy(p)' = IF taken[p] > 0 THEN R \cup {o} ELSE R
    BY <1>10
  <2> HIDE DEF f, g, R
  <2>6. SumOver(f, R) = SumOver(g, R)
    BY <2>3, SumSame
  <2>7. SumOver(g, R \cup {o}) = SumOver(g, R) + g[o]
    BY <2>2, <2>4, SumAdd
  <2>8. SumOver(g, R) \in Nat
    BY <2>2, <2>4, SumType
  <2>9. taken[p] \in Nat
    BY <1>5
  <2>10. CASE taken[p] > 0
    BY <2>1, <2>4, <2>5, <2>6, <2>7, <2>10
  <2>11. CASE ~(taken[p] > 0)
    <3>1. taken[p] = 0
      BY <2>9, <2>11
    <3>2. QED
      BY <2>1, <2>5, <2>6, <2>8, <2>11, <3>1
  <2>12. QED
    BY <2>10, <2>11
<1>13. ASSUME LedgerBalances PROVE LedgerBalances'
  <2> SUFFICES ASSUME NEW p \in Products PROVE product'[p].stock + Reserved(p)' = supply[p]
    BY <1>2 DEF LedgerBalances
  <2>1. product[p].stock + Reserved(p) = supply[p]
    BY <1>13 DEF LedgerBalances
  <2>2. product[p].stock \in Nat /\ taken[p] \in Nat /\ Reserved(p) \in Nat
    <3>1. Reserved(p) \in Nat
      BY ReservedSums
    <3>2. QED
      BY <1>1, <1>5, <3>1 DEF ProductRow
  <2>3. QED
    BY <1>7, <1>12, <2>1, <2>2
<1>14. QED
  BY <1>8, <1>9, <1>11, <1>13 DEF StockInvariant

\* A cancellation moves what it has claimed from the reservations to the stock.
LEMMA FinishCancellationBalances ==
  ASSUME StockInvariant, InventoryInvariant', NEW w \in Workers, FinishCancellation(w)
  PROVE  StockInvariant' /\ (LedgerBalances => LedgerBalances')
<1>1. /\ order \in [Orders -> OrderRow] /\ worker \in [Workers -> Transaction]
      /\ product \in [Products -> ProductRow]
  BY DEF StockInvariant, InventoryInvariant, RowsTyped, GoodsTyped
<1>2. /\ order' = [o \in Orders |-> IF o \in worker[w].orders
            THEN WithStatus(order[o], "cancelled") ELSE order[o]]
      /\ reservation' = [o \in Orders |-> [p \in Products |->
            IF <<o, p>> \in worker[w].claimed THEN "RELEASED" ELSE reservation[o][p]]]
      /\ product' = [p \in Products |->
            WithStock(product[p], product[p].stock + Together(ClaimedFor(w, p), p))]
      /\ UNCHANGED <<items, form, supply, crashes>>
  BY DEF FinishCancellation
<1>3. \A p \in Products : ClaimedFor(w, p) \in SUBSET ReservedBy(p)
  BY TransactionFacts DEF StockInvariant, Coherent, ClaimedFor, ReservedBy
<1>4. \A p \in Products : /\ Together(ClaimedFor(w, p), p) \in Nat /\ Reserved(p) \in Nat
                          /\ Reserved(p) = Together(ReservedBy(p) \ ClaimedFor(w, p), p)
                                           + Together(ClaimedFor(w, p), p)
  BY <1>3, ReservedSums
<1>5. \A p \in Products : ReservedBy(p)' = ReservedBy(p) \ ClaimedFor(w, p)
  <2>1. \A o \in Orders, p \in Products : reservation'[o][p] =
          IF <<o, p>> \in worker[w].claimed THEN "RELEASED" ELSE reservation[o][p]
    BY <1>2
  <2>2. QED
    BY <2>1 DEF ReservedBy, ClaimedFor
<1>6. \A p \in Products :
         Reserved(p)' = Together(ReservedBy(p) \ ClaimedFor(w, p), p)
  BY <1>2, <1>5 DEF Reserved, Together
<1>7. \A p \in Products :
        /\ product'[p].stock = product[p].stock + Together(ClaimedFor(w, p), p)
        /\ product'[p] \in ProductRow
  <2> SUFFICES ASSUME NEW p \in Products
               PROVE  /\ product'[p].stock = product[p].stock + Together(ClaimedFor(w, p), p)
                      /\ product'[p] \in ProductRow
    OBVIOUS
  <2> DEFINE given == Together(ClaimedFor(w, p), p)
  <2>1. product'[p] = WithStock(product[p], product[p].stock + given)
    BY <1>2
  <2>2. given \in Nat
    BY <1>4
  <2> HIDE DEF given
  <2>3. product[p] \in ProductRow
    BY <1>1
  <2>4. product'[p].stock = product[p].stock + given /\ product'[p] \in ProductRow
    BY <2>1, <2>2, <2>3 DEF WithStock, ProductRow
  <2>5. QED
    BY <2>4 DEF given
<1>8. GoodsTyped'
  BY <1>2, <1>7 DEF StockInvariant, GoodsTyped
<1>9. UnplacedHoldNothing'
  <2>1. \A o \in Orders : order'[o].status = "none" => order[o].status = "none"
    BY <1>1, <1>2, WithStatusTyped, StatusFacts
  <2>2. QED
    BY <1>2, <2>1 DEF StockInvariant, UnplacedHoldNothing
<1>10. ReservationsFinite'
  BY <1>5, FS_Subset DEF StockInvariant, ReservationsFinite
<1>11. ASSUME LedgerBalances PROVE LedgerBalances'
  <2> SUFFICES ASSUME NEW p \in Products PROVE product'[p].stock + Reserved(p)' = supply[p]
    BY <1>2 DEF LedgerBalances
  <2>1. product[p].stock + Reserved(p) = supply[p] /\ product[p].stock \in Nat
    BY <1>1, <1>11 DEF LedgerBalances, ProductRow
  <2> DEFINE kept == Together(ReservedBy(p) \ ClaimedFor(w, p), p)
             given == Together(ClaimedFor(w, p), p)
  <2>2. /\ Reserved(p)' = kept /\ product'[p].stock = product[p].stock + given
        /\ Reserved(p) = kept + given
        /\ given \in Nat /\ Reserved(p) \in Nat
    BY <1>4, <1>6, <1>7
  <2>3. kept \in Nat
    <3>1. ReservedBy(p) \ ClaimedFor(w, p) \in SUBSET ReservedBy(p)
      OBVIOUS
    <3>2. QED
      BY <3>1, ReservedSums
  <2> HIDE DEF kept, given
  <2>4. QED
    BY <2>1, <2>2, <2>3
<1>12. QED
  BY <1>8, <1>9, <1>10, <1>11 DEF StockInvariant

\* Increase and decrease change what the shop owns with the stock; so does a
\* form, but not by the same amount.
LEMMA ProductStepBalances ==
  ASSUME StockInvariant, InventoryInvariant', ProductStep
  PROVE  StockInvariant' /\ (Editors = {} /\ LedgerBalances => LedgerBalances')
<1>1. /\ product \in [Products -> ProductRow] /\ form \in [Editors -> Form]
      /\ supply \in [Products -> Nat] /\ crashes \in Nat
  BY DEF StockInvariant, GoodsTyped
<1>2. ASSUME NEW e \in Editors, NEW p \in Products, OpenForm(e, p)
      PROVE  StockInvariant'
  <2> DEFINE shown == [product |-> p, stock |-> product[p].stock]
  <2>1. shown \in Form
    BY <1>1 DEF Form, ProductRow
  <2>2. form' = [form EXCEPT ![e] = shown] /\ UNCHANGED <<rows, worker, supply, crashes>>
    BY <1>2 DEF OpenForm
  <2> HIDE DEF shown
  <2>3. GoodsTyped'
    BY <1>1, <2>1, <2>2 DEF GoodsTyped, rows
  <2>4. QED
    BY <2>2, <2>3, GoodsRest DEF rows
<1>3. ASSUME UNCHANGED <<order, items, reservation>>, GoodsTyped'
      PROVE  /\ StockInvariant'
             /\ \A p \in Products : Reserved(p)' = Reserved(p)
  BY <1>3 DEF StockInvariant, UnplacedHoldNothing, ReservationsFinite, Reserved, ReservedBy,
              Together
<1>4. ASSUME NEW e \in Editors, NEW n \in Corrections, NEW onSale \in BOOLEAN,
             SaveForm(e, n, onSale)
      PROVE  StockInvariant'
  <2> DEFINE p == form[e].product
             row == [stock |-> form[e].stock + n, onSale |-> onSale]
  <2>1. /\ p # NoProduct /\ form[e].stock + n >= 0 /\ supply[p] + n \in 0 .. MaxStock
        /\ product' = [product EXCEPT ![p] = row]
        /\ supply' = [supply EXCEPT ![p] = supply[p] + n]
        /\ form' = [form EXCEPT ![e] = Closed]
        /\ UNCHANGED <<order, items, reservation, crashes>>
    BY <1>4 DEF SaveForm
  <2>2. p \in Products /\ form[e].stock \in Nat
    BY <1>1, <2>1 DEF Form
  <2>3. n \in Int /\ MaxStock \in Nat
    BY ConstantsAssumption
  <2>4. row \in ProductRow
    BY <2>1, <2>2, <2>3 DEF ProductRow
  <2>5. supply[p] + n \in Nat
    BY <2>1, <2>3
  <2>6. Closed \in Form
    BY DEF Closed, Form
  <2> HIDE DEF p, row
  <2>7. GoodsTyped'
    BY <1>1, <2>1, <2>2, <2>4, <2>5, <2>6 DEF GoodsTyped
  <2>8. QED
    BY <1>3, <2>1, <2>7
<1>5. ASSUME NEW p \in Products, NEW n \in Quantities, NEW d \in {n, -n},
             product[p].stock + d >= 0, supply[p] + d >= 0,
             product' = [product EXCEPT ![p] = WithStock(product[p], product[p].stock + d)],
             supply' = [supply EXCEPT ![p] = supply[p] + d],
             UNCHANGED <<order, items, reservation, form, crashes>>
      PROVE  StockInvariant' /\ (LedgerBalances => LedgerBalances')
  <2>1. d \in Int /\ product[p].stock \in Nat /\ supply[p] \in Nat
    BY <1>1, ConstantsAssumption DEF ProductRow
  <2> DEFINE row == WithStock(product[p], product[p].stock + d)
  <2>2. row \in ProductRow /\ row.stock = product[p].stock + d
    BY <1>1, <1>5, <2>1 DEF ProductRow, WithStock
  <2>3. product' = [product EXCEPT ![p] = row]
    BY <1>5
  <2>4. supply[p] + d \in Nat
    BY <1>5, <2>1
  <2> HIDE DEF row
  <2>5. GoodsTyped'
    BY <1>1, <1>5, <2>2, <2>3, <2>4 DEF GoodsTyped
  <2>6. StockInvariant' /\ \A q \in Products : Reserved(q)' = Reserved(q)
    BY <1>3, <1>5, <2>5
  <2>7. ASSUME LedgerBalances, NEW q \in Products
        PROVE  product'[q].stock + Reserved(q)' = supply'[q]
    <3>1. product[q].stock + Reserved(q) = supply[q]
      BY <2>7 DEF LedgerBalances
    <3>2. CASE q = p
      <4>1. product'[q].stock = product[p].stock + d /\ supply'[q] = supply[p] + d
        BY <1>1, <1>5, <2>2, <2>3, <3>2
      <4>2. Reserved(q) \in Nat
        BY ReservedSums
      <4>3. QED
        BY <2>1, <2>6, <3>1, <3>2, <4>1, <4>2
    <3>3. CASE q # p
      <4>1. product'[q] = product[q] /\ supply'[q] = supply[q]
        BY <1>1, <1>5, <3>3
      <4>2. QED
        BY <2>6, <3>1, <4>1
    <3>4. QED
      BY <3>2, <3>3
  <2>8. QED
    BY <2>6, <2>7 DEF LedgerBalances
<1>6. ASSUME NEW p \in Products, NEW n \in Quantities, Increase(p, n)
      PROVE  StockInvariant' /\ (LedgerBalances => LedgerBalances')
  <2>1. n \in Nat /\ product[p].stock \in Nat /\ supply[p] \in Nat
    BY <1>1, ConstantsAssumption DEF ProductRow
  <2>2. product[p].stock + n >= 0 /\ supply[p] + n >= 0
    BY <2>1
  <2>3. QED
    BY <1>5, <1>6, <2>2 DEF Increase
<1>7. ASSUME NEW p \in Products, NEW n \in Quantities, Decrease(p, n)
      PROVE  StockInvariant' /\ (LedgerBalances => LedgerBalances')
  <2>1. n \in Nat /\ product[p].stock \in Nat /\ supply[p] \in Nat
    BY <1>1, ConstantsAssumption DEF ProductRow
  <2>2. product[p].stock >= n /\ supply[p] >= n
    BY <1>7 DEF Decrease
  <2>3. /\ product[p].stock - n = product[p].stock + (-n) /\ supply[p] - n = supply[p] + (-n)
        /\ product[p].stock + (-n) >= 0 /\ supply[p] + (-n) >= 0
    BY <2>1, <2>2
  <2>4. QED
    BY <1>5, <1>7, <2>3 DEF Decrease
<1>8. QED
  BY <1>2, <1>4, <1>6, <1>7 DEF ProductStep

LEMMA StockInit == Init => StockInvariant /\ LedgerBalances
<1> SUFFICES ASSUME Init PROVE StockInvariant /\ LedgerBalances
  OBVIOUS
<1>1. \A p \in Products : /\ product[p] = [stock |-> InitialStock[p], onSale |-> TRUE]
                          /\ InitialStock[p] \in Nat
  BY ConstantsAssumption DEF Init
<1>2. GoodsTyped
  <2>1. product \in [Products -> ProductRow]
    BY <1>1 DEF Init, ProductRow
  <2>2. form \in [Editors -> Form] /\ supply \in [Products -> Nat] /\ crashes \in Nat
    BY ConstantsAssumption DEF Init, Closed, Form
  <2>3. QED
    BY <2>1, <2>2 DEF GoodsTyped
<1>3. UnplacedHoldNothing
  BY DEF Init, UnplacedHoldNothing
<1>4. \A p \in Products : ReservedBy(p) = {}
  BY DEF Init, ReservedBy
<1>5. ReservationsFinite
  BY <1>4, FS_EmptySet DEF ReservationsFinite
<1>6. \A p \in Products : Reserved(p) = 0
  BY <1>4, SumEmpty DEF Reserved, Together
<1>7. LedgerBalances
  <2> SUFFICES ASSUME NEW p \in Products PROVE product[p].stock + Reserved(p) = supply[p]
    BY DEF LedgerBalances
  <2>1. product[p].stock = InitialStock[p] /\ supply[p] = InitialStock[p]
    BY <1>1 DEF Init
  <2>2. Reserved(p) = 0 /\ InitialStock[p] \in Nat
    BY <1>1, <1>6
  <2>3. QED
    BY <2>1, <2>2
<1>8. QED
  BY <1>2, <1>3, <1>5, <1>7, InvariantInit DEF StockInvariant

\* Every other step moves no goods.
LEMMA StockStep ==
  StockInvariant /\ [Next]_vars =>
    StockInvariant' /\ (Editors = {} /\ LedgerBalances => LedgerBalances')
<1> SUFFICES ASSUME StockInvariant, [Next]_vars
             PROVE  StockInvariant' /\ (Editors = {} /\ LedgerBalances => LedgerBalances')
  OBVIOUS
<1>1. InventoryInvariant'
  BY InvariantStep DEF StockInvariant
<1>2. GoodsTyped
  BY DEF StockInvariant
<1>3. ASSUME UNCHANGED <<rows, form, supply>>, crashes' \in Nat
      PROVE  StockInvariant' /\ (LedgerBalances => LedgerBalances')
  <2>1. GoodsTyped'
    BY <1>2, <1>3 DEF GoodsTyped, rows
  <2>2. QED
    BY <1>1, <1>3, <2>1, GoodsRest DEF rows
<1>4. crashes \in Nat
  BY <1>2 DEF GoodsTyped
<1>5. ASSUME NEW w \in Workers, CheckoutStep(w)
      PROVE  StockInvariant' /\ (LedgerBalances => LedgerBalances')
  BY <1>1, <1>3, <1>4, <1>5, PlaceOrderBalances
     DEF CheckoutStep, BeginCheckout, LockLine, RefuseCheckout
<1>6. ASSUME NEW w \in Workers, CancellationStep(w)
      PROVE  StockInvariant' /\ (LedgerBalances => LedgerBalances')
  BY <1>1, <1>3, <1>4, <1>6, FinishCancellationBalances
     DEF CancellationStep, BeginExpiry, LockOverdue, BeginCancellation, Restore
<1>7. ASSUME NEW w \in Workers, Crash(w) \/ BreakDeadlock(w)
      PROVE  StockInvariant' /\ (LedgerBalances => LedgerBalances')
  BY <1>3, <1>4, <1>7 DEF Crash, BreakDeadlock
<1>8. ASSUME NEW o \in Orders, NEW row, row.status # "none",
             order' = [order EXCEPT ![o] = row],
             UNCHANGED <<product, items, reservation, worker, form, supply, crashes>>
      PROVE  StockInvariant' /\ (LedgerBalances => LedgerBalances')
  <2>1. order \in [Orders -> OrderRow]
    BY DEF StockInvariant, InventoryInvariant, RowsTyped
  <2>2. \A r \in Orders : order'[r].status = "none" => order[r].status = "none"
    BY <1>8, <2>1
  <2>3. GoodsTyped'
    BY <1>2, <1>8 DEF GoodsTyped
  <2>4. QED
    BY <1>1, <1>8, <2>2, <2>3, GoodsRest
<1>9. ASSUME NEW o \in Orders, DeadlinePasses(o)
      PROVE  StockInvariant' /\ (LedgerBalances => LedgerBalances')
  BY <1>8, <1>9 DEF DeadlinePasses
<1>10. ASSUME NEW o \in Orders, NEW s \in OrderStatus, Transition(o, s)
       PROVE  StockInvariant' /\ (LedgerBalances => LedgerBalances')
  <2>1. order[o] \in OrderRow /\ s \in TRANSITIONS[order[o].status]
    BY <1>10 DEF Transition, MayBecome, StockInvariant, InventoryInvariant, RowsTyped
  <2>2. s # "none" /\ WithStatus(order[o], s).status = s
    BY <2>1, WithStatusTyped DEF TRANSITIONS, OrderRow, OrderStatus
  <2>3. QED
    BY <1>8, <1>10, <2>2 DEF Transition
<1>11. CASE UNCHANGED vars
  BY <1>3, <1>4, <1>11 DEF vars, rows
<1>12. QED
  BY <1>1, <1>5, <1>6, <1>7, <1>9, <1>10, <1>11, ProductStepBalances DEF Next

THEOREM StockInvariantHolds == Spec => []StockInvariant
  BY StockInit, StockStep, PTL DEF Spec

\* All rows have their types at all times; above all, no stock is ever negative.
THEOREM TypeCorrect == Spec => []TypeOK
<1>1. StockInvariant => TypeOK
  BY DEF StockInvariant, InventoryInvariant, RowsTyped, GoodsTyped, TypeOK
<1>2. QED
  BY <1>1, StockInvariantHolds, PTL

\* As long as nobody saves a product form, what the shop owns of a product is
\* in its stock or reserved, whatever checkouts, cancellations and expiry do.
THEOREM StockAndReservationsBalance ==
  ASSUME Editors = {}
  PROVE  Spec => []LedgerBalances
<1>1. StockInvariant /\ LedgerBalances /\ [Next]_vars => LedgerBalances'
  BY StockStep
<1>2. QED
  BY <1>1, StockInit, StockInvariantHolds, PTL DEF Spec

(***************************************************************************)
(* Inventory implements Warehouse.                                         *)
(***************************************************************************)
\* Both modules add up the same quantities in the same way.
LEMMA SameSums ==
  ASSUME NEW f, NEW S
  PROVE  Shelf!SumOver(f, S) = SumOver(f, S)
<1>1. \A x \in S : Shelf!Units(f, x) = Units(f, x)
  BY DEF Shelf!Units, Units
<1>2. {Shelf!Units(f, x) : x \in S} = {Units(f, x) : x \in S}
  BY <1>1
<1>3. \A T : Shelf!Cardinality(T) = Cardinality(T)
  BY Zenon DEF Shelf!Cardinality, Cardinality
<1>4. QED
  BY <1>2, <1>3 DEF Shelf!SumOver, SumOver

\* Nothing is held before the first order.
LEMMA ShelfInit == Init => Shelf!Init
<1> SUFFICES ASSUME Init PROVE Shelf!Init
  OBVIOUS
<1>1. [p \in Products |-> product[p].stock] \in [Products -> Nat]
  BY ConstantsAssumption DEF Init
<1>2. [o \in Orders |-> Holding(o)] = [o \in Orders |-> "absent"]
  BY DEF Init, Holding
<1>3. items = [o \in Orders |-> [p \in Products |-> 0]]
  BY DEF Init
<1>4. QED
  BY <1>1, <1>2, <1>3 DEF Shelf!Init

\* A step that leaves stocks, baskets and the holding of every order alone is
\* none of the warehouse.
LEMMA ShelfStutters ==
  ASSUME UNCHANGED items,
         \A o \in Orders : Holding(o)' = Holding(o),
         \A p \in Products : product'[p].stock = product[p].stock
  PROVE  UNCHANGED Shelf!vars
<1>1. [p \in Products |-> product[p].stock]' = [p \in Products |-> product[p].stock]
  OBVIOUS
<1>2. [o \in Orders |-> Holding(o)]' = [o \in Orders |-> Holding(o)]
  OBVIOUS
<1>3. QED
  BY <1>1, <1>2 DEF Shelf!vars

\* Placing an order takes its basket off the shelf.
LEMMA PlaceOrderTakes ==
  ASSUME InventoryInvariant, NEW w \in Workers, NEW o \in Orders, PlaceOrder(w, o)
  PROVE  Shelf!Next
<1> DEFINE taken == ItemsOf(worker[w].cart)
<1>1. /\ worker[w].op = "checkout" /\ o \in worker[w].orders /\ CanReserve(w)
      /\ order' = [order EXCEPT ![o] = WithStatus(order[o], "pending")]
      /\ items' = [items EXCEPT ![o] = taken]
      /\ product' = [p \in Products |-> WithStock(product[p], product[p].stock - taken[p])]
  BY DEF PlaceOrder, AllLocked
<1>2. order \in [Orders -> OrderRow]
  BY DEF InventoryInvariant, RowsTyped
<1>3. worker[w].cart \in Carts /\ order[o].status = "none"
  BY <1>1, TransactionFacts DEF Coherent
<1>4. \A p \in Products : taken[p] > 0 => taken[p] <= product[p].stock
  <2> SUFFICES ASSUME NEW p \in Products, taken[p] > 0 PROVE taken[p] <= product[p].stock
    OBVIOUS
  <2>1. p \in LinesOf(worker[w].cart)
    BY DEF ItemsOf
  <2>2. product[p].stock >= taken[p]
    BY <1>1, <2>1 DEF CanReserve
  <2>3. QED
    BY <2>2
<1>5. taken \in {ItemsOf(cart) : cart \in Carts}
  BY <1>3
<1> HIDE DEF taken
<1>6. \A p \in Products : product'[p].stock = product[p].stock - taken[p]
  BY <1>1 DEF WithStock
<1>7. \A r \in Orders : order'[r] = IF r = o THEN WithStatus(order[o], "pending") ELSE order[r]
  BY <1>1, <1>2
<1>8. \A r \in Orders : Holding(r)' = IF r = o THEN "held" ELSE Holding(r)
  BY <1>2, <1>7, WithStatusTyped, StatusFacts DEF Holding
<1>9. Holding(o) = "absent"
  BY <1>3 DEF Holding
<1>10. PICK wanted \in {ItemsOf(cart) : cart \in Carts} : wanted = taken
  BY <1>5
<1>11. Shelf!Take(o, wanted)
  BY <1>1, <1>4, <1>6, <1>8, <1>9, <1>10 DEF Shelf!Take
<1>12. QED
  BY <1>10, <1>11 DEF Shelf!Next

\* A cancellation gives back the baskets of all the orders it closes.
LEMMA FinishCancellationGivesBack ==
  ASSUME InventoryInvariant, NEW w \in Workers, FinishCancellation(w)
  PROVE  Shelf!Next
<1> DEFINE closed == worker[w].orders
<1>1. /\ worker[w].op = "cancel" /\ Due(w) = {}
      /\ order' = [o \in Orders |->
            IF o \in closed THEN WithStatus(order[o], "cancelled") ELSE order[o]]
      /\ product' = [p \in Products |->
            WithStock(product[p], product[p].stock + Together(ClaimedFor(w, p), p))]
      /\ UNCHANGED items
  BY DEF FinishCancellation
<1>2. /\ order \in [Orders -> OrderRow] /\ items \in [Orders -> Basket]
      /\ closed \in SUBSET Orders
  BY TransactionFacts DEF InventoryInvariant, RowsTyped, Transaction
<1>3. \A o \in closed : order[o].status \notin {"none", "cancelled"}
  BY <1>1, TransactionFacts, StatusFacts DEF Coherent, MayBecome
<1>4. \A p \in Products : ClaimedFor(w, p) = {o \in closed : items[o][p] > 0}
  <2> SUFFICES ASSUME NEW p \in Products, NEW o \in Orders
               PROVE  <<o, p>> \in worker[w].claimed <=> o \in closed /\ items[o][p] > 0
    BY <1>2 DEF ClaimedFor
  <2>1. items[o][p] \in Nat
    BY <1>2 DEF Basket
  <2>2. ASSUME <<o, p>> \in worker[w].claimed PROVE o \in closed /\ items[o][p] > 0
    <3>1. o \in closed /\ reservation[o][p] = "RESERVED"
      BY <2>2, TransactionFacts DEF Coherent
    <3>2. QED
      BY <2>1, <3>1 DEF InventoryInvariant, ReservedUntilCancelled
  <2>3. ASSUME o \in closed, items[o][p] > 0 PROVE <<o, p>> \in worker[w].claimed
    <3>1. reservation[o][p] = "RESERVED"
      BY <1>3, <2>3 DEF InventoryInvariant, ReservedUntilCancelled
    <3>2. <<o, p>> \notin Due(w)
      BY <1>1
    <3>3. QED
      BY <2>3, <3>1, <3>2 DEF Due
  <2>4. QED
    BY <2>2, <2>3
<1>5. \A p \in Products : Together(ClaimedFor(w, p), p) = Shelf!Together(closed, p)
  BY <1>4, SameSums DEF Together, Shelf!Together
<1> HIDE DEF closed
<1>6. \A p \in Products : product'[p].stock = product[p].stock + Shelf!Together(closed, p)
  BY <1>1, <1>5 DEF WithStock
<1>7. \A o \in Orders : Holding(o)' = IF o \in closed THEN "returned" ELSE Holding(o)
  BY <1>1, <1>2, WithStatusTyped, StatusFacts DEF Holding
<1>8. \A o \in closed : Holding(o) = "held"
  BY <1>3 DEF Holding
<1>9. PICK closing \in SUBSET Orders : closing = closed
  BY <1>2
<1>10. Shelf!GiveBack(closing)
  BY <1>1, <1>2, <1>6, <1>7, <1>8, <1>9 DEF Shelf!GiveBack
<1>11. QED
  BY <1>9, <1>10 DEF Shelf!Next

\* Two functions that differ at one argument at most.
LEMMA OneEntryChanged ==
  ASSUME NEW S, NEW f, NEW g, NEW p \in S,
         f = [q \in S |-> f[q]], g = [q \in S |-> g[q]], \A q \in S \ {p} : g[q] = f[q]
  PROVE  g = [f EXCEPT ![p] = g[p]]
  OBVIOUS

\* Saving one product, or changing its stock, is a count of that product.
LEMMA ProductCounted ==
  ASSUME InventoryInvariant, NEW p \in Products, NEW row,
         product' = [product EXCEPT ![p] = row], UNCHANGED <<order, items>>
  PROVE  Shelf!Next
<1>1. product = [q \in Products |-> product[q]]
  BY DEF InventoryInvariant, RowsTyped
<1>2. \A q \in Products \ {p} : product'[q].stock = product[q].stock
  BY <1>1
<1>3. \A o \in Orders : Holding(o)' = Holding(o)
  BY DEF Holding
<1>4. Shelf!Count(p)
  <2> DEFINE shelf == [q \in Products |-> product[q].stock]
             seen == [q \in Products |-> product'[q].stock]
  <2>1. seen = [shelf EXCEPT ![p] = seen[p]]
    <3>1. /\ shelf = [q \in Products |-> shelf[q]] /\ seen = [q \in Products |-> seen[q]]
          /\ \A q \in Products \ {p} : seen[q] = shelf[q]
      BY <1>2
    <3> HIDE DEF shelf, seen
    <3>2. QED
      BY <3>1, OneEntryChanged
  <2>2. [o \in Orders |-> Holding(o)]' = [o \in Orders |-> Holding(o)]
    BY <1>3
  <2>3. QED
    BY <2>1, <2>2 DEF Shelf!Count
<1>5. QED
  BY <1>4 DEF Shelf!Next

\* What happens to products outside a transaction is a count or is not seen.
LEMMA ProductStepCounts ==
  ASSUME InventoryInvariant, ProductStep
  PROVE  Shelf!Next \/ UNCHANGED Shelf!vars
<1>1. ASSUME NEW e \in Editors, NEW p \in Products, OpenForm(e, p)
      PROVE  UNCHANGED Shelf!vars
  <2>1. UNCHANGED <<product, order, items>>
    BY <1>1 DEF OpenForm, rows
  <2>2. QED
    BY <2>1, ShelfStutters DEF Holding
<1>2. ASSUME NEW e \in Editors, NEW n \in Corrections, NEW onSale \in BOOLEAN,
             SaveForm(e, n, onSale)
      PROVE  Shelf!Next \/ UNCHANGED Shelf!vars
  <2> DEFINE p == form[e].product
             row == [stock |-> form[e].stock + n, onSale |-> onSale]
  <2>1. product' = [product EXCEPT ![p] = row] /\ UNCHANGED <<order, items>>
    BY <1>2 DEF SaveForm
  <2> HIDE DEF p, row
  <2>2. CASE p \in Products
    <3>1. PICK q \in Products : q = p
      BY <2>2
    <3>2. QED
      BY <2>1, <3>1, ProductCounted
  <2>3. CASE p \notin Products
    <3>1. product' = product
      BY <2>1, <2>3 DEF InventoryInvariant, RowsTyped
    <3>2. QED
      BY <2>1, <3>1, ShelfStutters DEF Holding
  <2>4. QED
    BY <2>2, <2>3
<1>3. ASSUME NEW p \in Products, NEW n \in Quantities, Increase(p, n) \/ Decrease(p, n)
      PROVE  Shelf!Next
  <2>1. CASE Increase(p, n)
    BY <2>1, ProductCounted DEF Increase
  <2>2. CASE Decrease(p, n)
    BY <2>2, ProductCounted DEF Decrease
  <2>3. QED
    BY <1>3, <2>1, <2>2
<1>4. QED
  BY <1>1, <1>2, <1>3 DEF ProductStep

\* Every step of the shop is one of the warehouse, or is not seen there.
LEMMA ShelfStep ==
  InventoryInvariant /\ [Next]_vars => [Shelf!Next]_(Shelf!vars)
<1> SUFFICES ASSUME InventoryInvariant, [Next]_vars PROVE Shelf!Next \/ UNCHANGED Shelf!vars
  OBVIOUS
<1>1. ASSUME UNCHANGED <<product, order, items>> PROVE UNCHANGED Shelf!vars
  BY <1>1, ShelfStutters DEF Holding
<1>2. ASSUME NEW w \in Workers, CheckoutStep(w) PROVE Shelf!Next \/ UNCHANGED Shelf!vars
  BY <1>1, <1>2, PlaceOrderTakes
     DEF CheckoutStep, BeginCheckout, LockLine, RefuseCheckout, rows
<1>3. ASSUME NEW w \in Workers, CancellationStep(w) PROVE Shelf!Next \/ UNCHANGED Shelf!vars
  BY <1>1, <1>3, FinishCancellationGivesBack
     DEF CancellationStep, BeginExpiry, LockOverdue, BeginCancellation, Restore, rows
<1>4. ASSUME NEW w \in Workers, Crash(w) \/ BreakDeadlock(w) PROVE UNCHANGED Shelf!vars
  BY <1>1, <1>4 DEF Crash, BreakDeadlock, rows
<1>5. ASSUME NEW o \in Orders, DeadlinePasses(o) PROVE UNCHANGED Shelf!vars
  <2>1. \A r \in Orders : Holding(r)' = Holding(r)
    BY <1>5 DEF DeadlinePasses, Holding, InventoryInvariant, RowsTyped, OrderRow
  <2>2. UNCHANGED <<product, items>>
    BY <1>5 DEF DeadlinePasses
  <2>3. QED
    BY <2>1, <2>2, ShelfStutters
<1>6. ASSUME NEW o \in Orders, NEW s \in OrderStatus, Transition(o, s)
      PROVE  UNCHANGED Shelf!vars
  <2>1. /\ order \in [Orders -> OrderRow]
        /\ s \in TRANSITIONS[order[o].status] /\ s # "cancelled"
        /\ order' = [order EXCEPT ![o] = WithStatus(order[o], s)]
        /\ UNCHANGED <<product, items>>
    BY <1>6 DEF Transition, MayBecome, InventoryInvariant, RowsTyped
  <2>2. s # "none"
    BY <2>1 DEF TRANSITIONS, OrderRow, OrderStatus
  <2>3. \A r \in Orders : order'[r].status = IF r = o THEN s ELSE order[r].status
    BY <2>1, WithStatusTyped
  <2>4. order[o].status \notin {"none", "cancelled"}
    BY <2>1, StatusFacts
  <2>5. \A r \in Orders : Holding(r)' = Holding(r)
    BY <2>1, <2>2, <2>3, <2>4 DEF Holding
  <2>6. QED
    BY <2>1, <2>5, ShelfStutters
<1>7. CASE UNCHANGED vars
  BY <1>1, <1>7 DEF vars
<1>8. QED
  BY <1>2, <1>3, <1>4, <1>5, <1>6, <1>7, ProductStepCounts DEF Next

\* Seen from the warehouse, the lock by lock transactions take and give back
\* whole baskets, each in one step.
THEOREM InventoryImplementsWarehouse == Spec => ImplementsWarehouse
  BY InvariantHolds, ShelfInit, ShelfStep, PTL DEF Spec, Shelf!Spec, ImplementsWarehouse
=============================================================================
