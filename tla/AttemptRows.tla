---------------------------- MODULE AttemptRows ----------------------------
(***************************************************************************)
(* The attempts of one payment: core/payment/models/payment_attempt.py,    *)
(* the repository that stores them and the policies about them.            *)
(*                                                                         *)
(* A service locks the payment and then an attempt, changes its copy of    *)
(* the row with one method of the model, and saves some of its fields; any *)
(* exception on the way rolls everything back.  Next to these transactions *)
(* the repository offers a conditional UPDATE that reads no copy and calls *)
(* no clean(); no service uses it yet.  What the rows promise together     *)
(* must survive every sequence of these operations.                        *)
(***************************************************************************)
EXTENDS Naturals

CONSTANTS
    MaxAttempts,    \* bound on the attempts of the payment
    Workers,        \* the processes that run the services
    Authorities, References, Transactions,   \* what gateways issue
    Keys,           \* Idempotency-Key headers of retry requests
    NamesAtOpening, \* may a gateway name the payment when it opens a session?
    None            \* an empty field

ASSUME MaxAttemptsAssumption == MaxAttempts \in Nat \ {0}
ASSUME NamesAtOpeningAssumption == NamesAtOpening \in BOOLEAN

VARIABLES
    row,            \* the table, by attempt_number
    txn             \* the open transaction of each worker

vars == <<row, txn>>

Numbers == 1..MaxAttempts
Terminal == {"SUCCESS", "FAILED", "TIMEOUT", "CANCELLED"}
Retryable == Terminal \ {"SUCCESS"}

Row == [status : {"none", "PENDING"} \cup Terminal,
        authority : Authorities \cup {None},
        reference : References \cup {None},
        transaction : Transactions \cup {None},
        reason : BOOLEAN,                   \* is there a failure_reason?
        key : Keys \cup {None}]

Fields == {"status", "authority", "reference", "transaction", "reason"}

Txn == [number : 0..MaxAttempts, values : Row, fields : SUBSET Fields]

NoRow == [status |-> "none", authority |-> None, reference |-> None,
          transaction |-> None, reason |-> FALSE, key |-> None]
NoTxn == [number |-> 0, values |-> NoRow, fields |-> {}]

TypeOK ==
    /\ row \in [Numbers -> Row]
    /\ txn \in [Workers -> Txn]

Init ==
    /\ row = [n \in Numbers |-> NoRow]
    /\ txn = [w \in Workers |-> NoTxn]

(***************************************************************************)
(* Plausible mistakes: each changes one check of a definition below.       *)
(***************************************************************************)
\* Duplicate notifications are merged without comparing identities.
AgreesAlways(old, new) == TRUE

\* The attempt is read without a lock.
PaymentUnlocked == TRUE

\* The table has no check constraint on successful attempts.
StorableAlways(values) == TRUE

(***************************************************************************)
(* PaymentAttemptPolicy.                                                   *)
(***************************************************************************)
CanSucceed(status) == status \in {"PENDING", "SUCCESS"}
CanFail(status) == status \in {"PENDING", "FAILED"}
CanTimeout(status) == status \in {"PENDING", "TIMEOUT"}
CanCancel(status) == status \in {"PENDING", "CANCELLED"}
CanRetry(status) == status \in Retryable

PolicyPermits(from, to) ==
    \/ to = "SUCCESS" /\ CanSucceed(from)
    \/ to = "FAILED" /\ CanFail(from)
    \/ to = "TIMEOUT" /\ CanTimeout(from)
    \/ to = "CANCELLED" /\ CanCancel(from)

(***************************************************************************)
(* The model.                                                              *)
(***************************************************************************)
\* PaymentAttempt._ALLOWED_TRANSITIONS and _require_transition.
Transitions(from, to) == from = to \/ (from = "PENDING" /\ to \in Terminal)

\* An identifier is assigned once; the same one may come again.
Agrees(old, new) == new = None \/ old \in {None, new}
Assigned(old, new) == IF new = None THEN old ELSE new

\* PaymentAttempt.clean: only a success has a reference or a transaction, and
\* it has no failure reason.
Clean(values) ==
    IF values.status = "SUCCESS"
    THEN values.authority # None /\ values.reference # None /\ ~values.reason
    ELSE values.reference = None /\ values.transaction = None

\* The check constraints of the table.
Storable(values) ==
    values.status = "SUCCESS" => values.authority # None /\ values.reference # None

(***************************************************************************)
(* New rows, under the lock of the payment.                                *)
(***************************************************************************)
PaymentIsFree == \A w \in Workers : txn[w].number = 0

IsNextNumber(n) == \A m \in Numbers : row[m].status # "none" <=> m < n

\* No attempt has the key: RetryPaymentService looks it up first, and the column
\* is unique.
KeyIsUnused(key) == key # None => \A n \in Numbers : row[n].key # key

\* PaymentAttemptRepository.create, by start_payment and by a retry of the
\* latest attempt; at most one pending attempt per payment.  All of _prepare_retry
\* happens under the lock of the payment, so that none of its attempts changes
\* between the lookup and the INSERT.  A key that another payment has, or takes
\* in between (the IntegrityError), ends in an exception and stores nothing.
CreateAttempt(n, key) ==
    /\ PaymentIsFree
    /\ IsNextNumber(n)
    /\ \A m \in Numbers : row[m].status # "PENDING"
    /\ IF n = 1 THEN key = None ELSE CanRetry(row[n - 1].status) /\ KeyIsUnused(key)
    /\ row' = [row EXCEPT ![n] = [NoRow EXCEPT !.status = "PENDING", !.key = key]]
    /\ UNCHANGED txn

(***************************************************************************)
(* A transaction of a service: lock, one method, save.                     *)
(***************************************************************************)
\* PaymentRepository.get_for_update, PaymentAttemptRepository.find_for_update.
LockAttempt(w, n) ==
    /\ PaymentIsFree
    /\ txn[w].number = 0
    /\ row[n].status # "none"
    /\ txn' = [txn EXCEPT ![w] = [NoTxn EXCEPT !.number = n, !.values = row[n]]]
    /\ UNCHANGED row

Loaded(w) == txn[w].number # 0 /\ txn[w].fields = {}

Changed(w, values, fields) ==
    /\ txn' = [txn EXCEPT ![w] = [@ EXCEPT !.values = values, !.fields = fields]]
    /\ UNCHANGED row

\* _persist_initiation_result: what the gateway said when it was asked to
\* open a session, an identity included, is put on the pending attempt.
RegisterOpening(w, authority, reference, transaction) ==
    LET v == txn[w].values IN
    /\ Loaded(w)
    /\ v.status = "PENDING" /\ v.authority = None
    /\ Changed(w, [v EXCEPT !.authority = authority,
                            !.reference = Assigned(v.reference, reference),
                            !.transaction = Assigned(v.transaction, transaction)],
               {"authority", "reference", "transaction"})

\* The gateway refused to open one: the answer is put on the copy all the same,
\* but save_failure does not store its identity.
RejectOpening(w, reference, transaction) ==
    LET v == txn[w].values IN
    /\ Loaded(w)
    /\ v.status = "PENDING" /\ v.authority = None
    /\ Changed(w, [v EXCEPT !.status = "FAILED", !.reason = TRUE,
                            !.reference = Assigned(v.reference, reference),
                            !.transaction = Assigned(v.transaction, transaction)],
               {"status", "reason"})

\* mark_success and, for a success that is reported again, _merge_success.
MarkSuccess(w, reference, transaction) ==
    LET v == txn[w].values IN
    /\ Loaded(w)
    /\ Transitions(v.status, "SUCCESS")
    /\ v.authority # None
    /\ Agrees(v.reference, reference)
    /\ Agrees(v.transaction, transaction)
    /\ Changed(w, [v EXCEPT !.status = "SUCCESS", !.reason = FALSE,
                            !.reference = Assigned(v.reference, reference),
                            !.transaction = Assigned(v.transaction, transaction)],
               Fields)

\* mark_failed, mark_timeout and mark_cancelled, also repeated.
MarkTerminal(w, status, reason) ==
    LET v == txn[w].values IN
    /\ Loaded(w)
    /\ Transitions(v.status, status)
    /\ Changed(w, [v EXCEPT !.status = status,
                            !.reason = reason \/ (v.status = status /\ v.reason)],
               {"status", "reason"})

\* UPDATE of the given fields.
Updated(n, values, fields) ==
    [f \in DOMAIN row[n] |-> IF f \in fields THEN values[f] ELSE row[n][f]]

\* PaymentAttemptRepository.save and COMMIT.
SaveAttempt(w) ==
    LET t == txn[w] IN
    /\ t.fields # {}
    /\ Clean(t.values)
    /\ Storable(Updated(t.number, t.values, t.fields))
    /\ row' = [row EXCEPT ![t.number] = Updated(t.number, t.values, t.fields)]
    /\ txn' = [txn EXCEPT ![w] = NoTxn]

\* clean() raises: the transaction is rolled back.  An initiation that the gateway
\* has accepted under a name of its own loses its authority in this way.
SaveRefused(w) ==
    LET t == txn[w] IN
    /\ t.fields # {}
    /\ ~Clean(t.values)
    /\ txn' = [txn EXCEPT ![w] = NoTxn]
    /\ UNCHANGED row

\* The worker dies, or an error of something else rolls its work back.
RollBack(w) ==
    /\ txn[w].number # 0
    /\ txn' = [txn EXCEPT ![w] = NoTxn]
    /\ UNCHANGED row

(***************************************************************************)
(* mark_terminal_if_pending: UPDATE ... WHERE status = PENDING.  It locks  *)
(* no payment, but waits for the lock of the row.  It has no caller.       *)
(***************************************************************************)
CloseIfPending(n, status) ==
    LET closed == [row[n] EXCEPT !.status = status] IN
    /\ \A w \in Workers : txn[w].number # n
    /\ row[n].status = "PENDING"
    /\ Storable(closed)
    /\ row' = [row EXCEPT ![n] = closed]
    /\ UNCHANGED txn

\* What a gateway may send as a name of the payment before anything is paid.
AtOpening(names) == {None} \cup (IF NamesAtOpening THEN names ELSE {})

Next ==
    \/ \E n \in Numbers, key \in Keys \cup {None} : CreateAttempt(n, key)
    \/ \E w \in Workers, n \in Numbers : LockAttempt(w, n)
    \/ \E w \in Workers, r \in AtOpening(References), t \in AtOpening(Transactions) :
          RejectOpening(w, r, t) \/ \E a \in Authorities : RegisterOpening(w, a, r, t)
    \/ \E w \in Workers, r \in References, t \in Transactions \cup {None} :
          MarkSuccess(w, r, t)
    \/ \E w \in Workers, s \in Retryable, reason \in BOOLEAN : MarkTerminal(w, s, reason)
    \/ \E w \in Workers : SaveAttempt(w) \/ SaveRefused(w) \/ RollBack(w)
    \/ \E n \in Numbers, s \in Terminal : CloseIfPending(n, s)

Spec == Init /\ [][Next]_vars

(***************************************************************************)
(* What the rows promise.                                                  *)
(***************************************************************************)
\* Only the latest attempt of a payment may be running or successful: a retry
\* is never started beside an attempt that may still charge the customer, and
\* no attempt that was given up is found successful afterwards.
OnlyLatestIsLive ==
    \A m, n \in Numbers : m < n /\ row[n].status # "none" => row[m].status \in Retryable

\* Every stored row would pass clean(), although each save stores only some of the
\* fields that it looked at, and the conditional UPDATE does not call it.
RowsAreClean == \A n \in Numbers : row[n].status # "none" => Clean(row[n])

\* "Gateway identity is immutable": what was once stored about an attempt is
\* kept by every later save, of whatever copy and whatever fields.
IdentityIsImmutable ==
    [][\A n \in Numbers : \A f \in {"authority", "reference", "transaction", "key"} :
          row[n][f] # None => row'[n][f] = row[n][f]]_vars

\* The "authoritative business policy", which no service consults before it
\* changes an attempt: each change of a row is one that it permits.
ChangesArePermitted ==
    [][\A n \in Numbers : row[n].status # "none" /\ row'[n].status # row[n].status
          => PolicyPermits(row[n].status, row'[n].status)]_vars

\* No save, late or repeated, undoes what an earlier one has stored of an attempt:
\* neither its identity nor a status that the policy calls final.
ChangesAreSound == IdentityIsImmutable /\ ChangesArePermitted

=============================================================================
