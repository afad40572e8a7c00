---------------------------- MODULE GatewayProofs ----------------------------
(***************************************************************************)
(* Proofs about AttemptRows and GatewayCalls, for any number of attempts,  *)
(* payments, gateways, workers and identifiers, whether or not gateways    *)
(* give references early, and whatever they answer.                        *)
(***************************************************************************)
EXTENDS MCGateway, TLAPS

(***************************************************************************)
(* Part 1: the rows of one payment's attempts (AttemptRows).               *)
(* The inductive invariant.                                                *)
(***************************************************************************)
Identity == {"authority", "reference", "transaction"}

\* The row that a worker's COMMIT would leave.
Saved(w) == Updated(txn[w].number, txn[w].values, txn[w].fields)

\* The lock of the payment.
OneTransaction == \A v, w \in Workers : txn[v].number # 0 /\ txn[w].number # 0 => v = w

\* A copy is the row until it is changed.  What is saved of a changed copy is
\* clean whenever the copy is, a permitted change, and forgets no identifier.
CopyIsFaithful(w) ==
    /\ txn[w].number = 0 => txn[w].fields = {}
    /\ txn[w].number # 0 =>
          LET old == row[txn[w].number] IN
          /\ old.status # "none"
          /\ txn[w].fields = {} => txn[w].values = old
          /\ txn[w].fields # {} =>
                /\ Transitions(old.status, txn[w].values.status)
                /\ Clean(txn[w].values) => Clean(Saved(w))
                /\ \A f \in Identity \cap txn[w].fields :
                      old[f] # None => txn[w].values[f] = old[f]

CopiesAreFaithful == \A w \in Workers : CopyIsFaithful(w)

\* A number that no attempt has yet has no identity either.
UnusedIsBlank ==
    \A n \in Numbers : row[n].status = "none" =>
        \A f \in Identity \cup {"key"} : row[n][f] = None

RowsInvariant ==
    /\ TypeOK
    /\ UnusedIsBlank
    /\ OnlyLatestIsLive
    /\ RowsAreClean
    /\ OneTransaction
    /\ CopiesAreFaithful

(***************************************************************************)
(* Rows and copies.                                                        *)
(***************************************************************************)
LEMMA NoRowTyped == NoRow \in Row /\ NoRow.status = "none" /\ NoRow.key = None
  BY DEF NoRow, Row

LEMMA NoTxnTyped == NoTxn \in Txn /\ NoTxn.number = 0 /\ NoTxn.fields = {}
  BY NoRowTyped, MaxAttemptsAssumption DEF NoTxn, Txn

LEMMA PendingTyped ==
  ASSUME NEW key \in Keys \cup {None}
  PROVE  LET new == [NoRow EXCEPT !.status = "PENDING", !.key = key] IN
         new \in Row /\ new.status = "PENDING" /\ new.key = key /\ Clean(new)
<1> DEFINE new == [NoRow EXCEPT !.status = "PENDING", !.key = key]
<1>1. /\ new.status = "PENDING" /\ new.key = key
      /\ new.reference = None /\ new.transaction = None
  BY DEF NoRow
<1>2. new \in Row
  BY DEF NoRow, Row
<1> HIDE DEF new
<1>3. Clean(new)
  BY <1>1 DEF Clean
<1>4. QED
  BY <1>1, <1>2, <1>3 DEF new

\* UPDATE writes the given fields of the copy and keeps the others.
LEMMA UpdatedIsRow ==
  ASSUME TypeOK, NEW n \in Numbers, NEW values \in Row, NEW fields \in SUBSET Fields
  PROVE  /\ Updated(n, values, fields) \in Row
         /\ \A f \in {"status", "authority", "reference", "transaction", "reason", "key"} :
               Updated(n, values, fields)[f] = IF f \in fields THEN values[f] ELSE row[n][f]
<1>1. row[n] \in Row
  BY DEF TypeOK
<1>2. DOMAIN row[n] = {"status", "authority", "reference", "transaction", "reason", "key"}
  BY <1>1 DEF Row
<1>3. \A f \in {"status", "authority", "reference", "transaction", "reason", "key"} :
         Updated(n, values, fields)[f] = IF f \in fields THEN values[f] ELSE row[n][f]
  BY <1>2 DEF Updated
<1>4. Updated(n, values, fields) \in Row
  BY <1>1, <1>2 DEF Updated, Row
<1>5. QED
  BY <1>3, <1>4

LEMMA LoadedFacts ==
  ASSUME RowsInvariant, NEW w \in Workers, txn[w].number # 0
  PROVE  /\ txn[w].number \in Numbers
         /\ txn[w].values \in Row /\ txn[w].fields \in SUBSET Fields
         /\ row[txn[w].number] \in Row
         /\ row[txn[w].number].status # "none"
         /\ Clean(row[txn[w].number])
         /\ CopyIsFaithful(w)
<1>1. txn[w] \in Txn
  BY DEF RowsInvariant, TypeOK
<1>2. txn[w].number \in Numbers
  BY <1>1, MaxAttemptsAssumption DEF Txn, Numbers
<1>3. CopyIsFaithful(w)
  BY DEF RowsInvariant, CopiesAreFaithful
<1>4. row[txn[w].number].status # "none"
  BY <1>3 DEF CopyIsFaithful
<1>5. row[txn[w].number] \in Row
  BY <1>2 DEF RowsInvariant, TypeOK
<1>6. Clean(row[txn[w].number])
  BY <1>2, <1>4 DEF RowsInvariant, RowsAreClean
<1>7. txn[w].values \in Row /\ txn[w].fields \in SUBSET Fields
  BY <1>1 DEF Txn
<1>8. QED
  BY <1>2, <1>3, <1>4, <1>5, <1>6, <1>7

\* What a method of the model leaves in the worker's transaction.
LEMMA ChangedEffect ==
  ASSUME TypeOK, NEW w \in Workers, NEW values \in Row, NEW fields \in SUBSET Fields,
         Changed(w, values, fields)
  PROVE  /\ txn' \in [Workers -> Txn]
         /\ txn'[w].number = txn[w].number
         /\ txn'[w].values = values /\ txn'[w].fields = fields
         /\ \A v \in Workers : v # w => txn'[v] = txn[v]
         /\ row' = row
<1> DEFINE copy == [txn[w] EXCEPT !.values = values, !.fields = fields]
<1>1. txn[w] \in Txn
  BY DEF TypeOK
<1>2. copy \in Txn /\ copy.number = txn[w].number /\ copy.values = values
        /\ copy.fields = fields
  BY <1>1 DEF Txn
<1>3. txn' = [txn EXCEPT ![w] = copy] /\ row' = row
  BY DEF Changed
<1> HIDE DEF copy
<1>4. QED
  BY <1>2, <1>3 DEF TypeOK

(***************************************************************************)
(* Steps of a transaction: the table stays as it is.                       *)
(***************************************************************************)
LEMMA CopyKept ==
  ASSUME NEW w \in Workers, CopyIsFaithful(w), txn'[w] = txn[w],
         txn[w].number # 0 => row'[txn[w].number] = row[txn[w].number]
  PROVE  CopyIsFaithful(w)'
  BY DEF CopyIsFaithful, Saved, Updated

LEMMA TransactionStep ==
  ASSUME RowsInvariant, NEW w \in Workers,
         row' = row, txn' \in [Workers -> Txn],
         \A v \in Workers : v # w => txn'[v] = txn[v],
         txn'[w].number # 0 => PaymentIsFree \/ txn[w].number # 0,
         CopyIsFaithful(w)'
  PROVE  RowsInvariant'
<1>1. TypeOK'
  BY DEF RowsInvariant, TypeOK
<1>2. OnlyLatestIsLive' /\ RowsAreClean' /\ UnusedIsBlank'
  BY DEF RowsInvariant, OnlyLatestIsLive, RowsAreClean, UnusedIsBlank
<1>3. OneTransaction'
  BY DEF RowsInvariant, OneTransaction, PaymentIsFree
<1>4. ASSUME NEW v \in Workers PROVE CopyIsFaithful(v)'
  <2>1. CASE v = w
    BY <2>1
  <2>2. CASE v # w
    BY <2>2, CopyKept DEF RowsInvariant, CopiesAreFaithful
  <2>3. QED
    BY <2>1, <2>2
<1>5. CopiesAreFaithful'
  BY <1>4 DEF CopiesAreFaithful
<1>6. QED
  BY <1>1, <1>2, <1>3, <1>5 DEF RowsInvariant

LEMMA EndOfTransaction ==
  ASSUME RowsInvariant, NEW w \in Workers, row' = row,
         txn' = [txn EXCEPT ![w] = NoTxn]
  PROVE  RowsInvariant'
<1>1. /\ txn' \in [Workers -> Txn] /\ txn'[w].number = 0 /\ txn'[w].fields = {}
      /\ \A v \in Workers : v # w => txn'[v] = txn[v]
  BY NoTxnTyped DEF RowsInvariant, TypeOK
<1>2. CopyIsFaithful(w)'
  BY <1>1 DEF CopyIsFaithful
<1>3. QED
  BY <1>1, <1>2, TransactionStep

LEMMA LockStep ==
  ASSUME RowsInvariant, NEW w \in Workers, NEW n \in Numbers, LockAttempt(w, n)
  PROVE  RowsInvariant'
<1> DEFINE copy == [NoTxn EXCEPT !.number = n, !.values = row[n]]
<1>1. copy \in Txn /\ copy.number = n /\ copy.values = row[n] /\ copy.fields = {}
  <2>1. row[n] \in Row
    BY DEF RowsInvariant, TypeOK
  <2>2. n \in 0..MaxAttempts
    BY MaxAttemptsAssumption DEF Numbers
  <2>3. copy \in Txn /\ copy.number = n /\ copy.values = row[n] /\ copy.fields = {}
    BY <2>1, <2>2, NoTxnTyped DEF Txn
  <2>4. QED
    BY <2>3
<1>2. txn' = [txn EXCEPT ![w] = copy] /\ row' = row
      /\ row[n].status # "none" /\ PaymentIsFree
  BY DEF LockAttempt
<1> HIDE DEF copy
<1>3. /\ txn' \in [Workers -> Txn] /\ txn'[w] = copy
      /\ \A v \in Workers : v # w => txn'[v] = txn[v]
  BY <1>1, <1>2 DEF RowsInvariant, TypeOK
<1>4. CopyIsFaithful(w)'
  BY <1>1, <1>2, <1>3 DEF CopyIsFaithful
<1>6. QED
  BY <1>2, <1>3, <1>4, TransactionStep

\* The obligation of a method: a permitted status, no identifier forgotten,
\* and a clean row if the copy is clean.
MayBecome(n, old, new, fields) ==
    /\ Transitions(old.status, new.status)
    /\ \A f \in Identity \cap fields : old[f] # None => new[f] = old[f]
    /\ Clean(new) => Clean(Updated(n, new, fields))

LEMMA MethodStep ==
  ASSUME RowsInvariant, NEW w \in Workers, NEW values \in Row, NEW fields \in SUBSET Fields,
         Loaded(w), fields # {},
         MayBecome(txn[w].number, txn[w].values, values, fields),
         Changed(w, values, fields)
  PROVE  RowsInvariant'
<1>1. /\ txn' \in [Workers -> Txn]
      /\ txn'[w].number = txn[w].number
      /\ txn'[w].values = values /\ txn'[w].fields = fields
      /\ \A v \in Workers : v # w => txn'[v] = txn[v]
      /\ row' = row
  BY ChangedEffect DEF RowsInvariant
<1>2. txn[w].number # 0 /\ txn[w].values = row[txn[w].number]
        /\ row[txn[w].number].status # "none"
  BY LoadedFacts DEF Loaded, CopyIsFaithful
<1>3. Saved(w)' = Updated(txn[w].number, values, fields)
  BY <1>1 DEF Saved, Updated
<1>4. CopyIsFaithful(w)'
  BY <1>1, <1>2, <1>3 DEF CopyIsFaithful, MayBecome
<1>6. QED
  BY <1>1, <1>2, <1>4, TransactionStep

(***************************************************************************)
(* The methods of the model.                                               *)
(***************************************************************************)
LEMMA RegisterOpeningStep ==
  ASSUME RowsInvariant, NEW w \in Workers, NEW authority \in Authorities,
         NEW reference \in References \cup {None}, NEW transaction \in Transactions \cup {None},
         RegisterOpening(w, authority, reference, transaction)
  PROVE  RowsInvariant'
<1> DEFINE old == txn[w].values
           fields == {"authority", "reference", "transaction"}
           new == [old EXCEPT !.authority = authority,
                              !.reference = Assigned(old.reference, reference),
                              !.transaction = Assigned(old.transaction, transaction)]
<1>1. /\ Loaded(w) /\ old.status = "PENDING" /\ old.authority = None
      /\ Changed(w, new, fields)
  BY DEF RegisterOpening
<1>2. /\ txn[w].number \in Numbers /\ old \in Row
      /\ old = row[txn[w].number] /\ Clean(old)
  BY <1>1, LoadedFacts DEF Loaded, CopyIsFaithful
<1>3. /\ new \in Row
      /\ new.status = old.status /\ new.authority = authority
      /\ new.reason = old.reason /\ new.key = old.key
  BY <1>2 DEF Row, Assigned
<1>4. old.reference = None /\ old.transaction = None
  BY <1>1, <1>2 DEF Clean
<1>5. fields \in SUBSET Fields
  BY DEF Fields
<1> HIDE DEF new
<1>6. Clean(new) => Clean(Updated(txn[w].number, new, fields))
  BY <1>2, <1>3, <1>5, UpdatedIsRow DEF RowsInvariant, Clean
<1>7. MayBecome(txn[w].number, old, new, fields)
  BY <1>1, <1>3, <1>4, <1>6 DEF MayBecome, Transitions, Identity
<1>8. QED
  BY <1>1, <1>3, <1>5, <1>7, MethodStep

LEMMA RejectOpeningStep ==
  ASSUME RowsInvariant, NEW w \in Workers,
         NEW reference \in References \cup {None}, NEW transaction \in Transactions \cup {None},
         RejectOpening(w, reference, transaction)
  PROVE  RowsInvariant'
<1> DEFINE old == txn[w].values
           fields == {"status", "reason"}
           new == [old EXCEPT !.status = "FAILED", !.reason = TRUE,
                              !.reference = Assigned(old.reference, reference),
                              !.transaction = Assigned(old.transaction, transaction)]
<1>1. Loaded(w) /\ old.status = "PENDING" /\ Changed(w, new, fields)
  BY DEF RejectOpening
<1>2. /\ txn[w].number \in Numbers /\ old \in Row
      /\ old = row[txn[w].number] /\ Clean(old)
  BY <1>1, LoadedFacts DEF Loaded, CopyIsFaithful
<1>3. new \in Row /\ new.status = "FAILED"
  BY <1>2 DEF Row, Assigned, Terminal
<1>4. old.reference = None /\ old.transaction = None
  BY <1>1, <1>2 DEF Clean
<1>5. fields \in SUBSET Fields
  BY DEF Fields
<1> HIDE DEF new
<1>6. Clean(Updated(txn[w].number, new, fields))
  BY <1>2, <1>3, <1>4, <1>5, UpdatedIsRow DEF RowsInvariant, Clean
<1>7. MayBecome(txn[w].number, old, new, fields)
  BY <1>1, <1>3, <1>6 DEF MayBecome, Transitions, Identity, Terminal
<1>8. QED
  BY <1>1, <1>3, <1>5, <1>7, MethodStep

LEMMA MarkSuccessStep ==
  ASSUME RowsInvariant, NEW w \in Workers, NEW reference \in References,
         NEW transaction \in Transactions \cup {None}, MarkSuccess(w, reference, transaction)
  PROVE  RowsInvariant'
<1> DEFINE old == txn[w].values
           new == [old EXCEPT !.status = "SUCCESS", !.reason = FALSE,
                              !.reference = Assigned(old.reference, reference),
                              !.transaction = Assigned(old.transaction, transaction)]
<1>1. /\ Loaded(w) /\ Transitions(old.status, "SUCCESS")
      /\ Agrees(old.reference, reference) /\ Agrees(old.transaction, transaction)
      /\ Changed(w, new, Fields)
  BY DEF MarkSuccess
<1>2. /\ txn[w].number \in Numbers /\ old \in Row
      /\ old = row[txn[w].number] /\ Clean(old)
  BY <1>1, LoadedFacts DEF Loaded, CopyIsFaithful
<1>3. /\ new \in Row /\ new.status = "SUCCESS" /\ new.authority = old.authority
      /\ new.reference = Assigned(old.reference, reference)
      /\ new.transaction = Assigned(old.transaction, transaction)
  <2>1. /\ Assigned(old.reference, reference) \in References \cup {None}
        /\ Assigned(old.transaction, transaction) \in Transactions \cup {None}
    BY <1>2 DEF Row, Assigned
  <2>2. QED
    BY <1>2, <2>1 DEF Row, Terminal
<1>4. \A f \in Identity : old[f] # None => new[f] = old[f]
  BY <1>1, <1>3 DEF Agrees, Assigned, Identity
<1> HIDE DEF new
<1>5. Clean(new) => Clean(Updated(txn[w].number, new, Fields))
  <2>1. \A f \in {"status", "authority", "reference", "transaction", "reason"} :
           Updated(txn[w].number, new, Fields)[f] = new[f]
    BY <1>2, <1>3, UpdatedIsRow DEF RowsInvariant, Fields
  <2>2. QED
    BY <2>1 DEF Clean
<1>6. MayBecome(txn[w].number, old, new, Fields)
  BY <1>1, <1>3, <1>4, <1>5 DEF MayBecome
<1>7. Fields # {}
  BY DEF Fields
<1>8. QED
  BY <1>1, <1>3, <1>6, <1>7, MethodStep

LEMMA MarkTerminalStep ==
  ASSUME RowsInvariant, NEW w \in Workers, NEW status \in Retryable, NEW reason \in BOOLEAN,
         MarkTerminal(w, status, reason)
  PROVE  RowsInvariant'
<1> DEFINE old == txn[w].values
           fields == {"status", "reason"}
           kept == reason \/ (old.status = status /\ old.reason)
           new == [old EXCEPT !.status = status, !.reason = kept]
<1>1. Loaded(w) /\ Transitions(old.status, status) /\ Changed(w, new, fields)
  BY DEF MarkTerminal
<1>2. /\ txn[w].number \in Numbers /\ old \in Row
      /\ old = row[txn[w].number] /\ Clean(old)
  BY <1>1, LoadedFacts DEF Loaded, CopyIsFaithful
<1>3. kept \in BOOLEAN
  OBVIOUS
<1> HIDE DEF kept
<1>4. /\ new \in Row /\ new.status = status
      /\ new.reference = old.reference /\ new.transaction = old.transaction
  BY <1>2, <1>3 DEF Row, Retryable
<1>5. fields \in SUBSET Fields
  BY DEF Fields
<1> HIDE DEF new
<1>6. Clean(new) => Clean(Updated(txn[w].number, new, fields))
  BY <1>2, <1>4, <1>5, UpdatedIsRow DEF RowsInvariant, Clean, Retryable
<1>7. MayBecome(txn[w].number, old, new, fields)
  BY <1>1, <1>4, <1>6 DEF MayBecome, Identity
<1>8. QED
  <2>1. Changed(w, new, fields)
    BY <1>1 DEF new, kept
  <2>2. QED
    BY <2>1, <1>1, <1>4, <1>5, <1>7, MethodStep

(***************************************************************************)
(* Steps of the table.                                                     *)
(***************************************************************************)
\* A row changes as the model permits and the other rows do not.
RowChanges(n, new) ==
    /\ new \in Row /\ Clean(new)
    /\ row[n].status # "none"
    /\ Transitions(row[n].status, new.status)
    /\ \A f \in Identity \cup {"key"} : row[n][f] # None => new[f] = row[n][f]
    /\ new.key = row[n].key
    /\ row' = [row EXCEPT ![n] = new]

LEMMA RowChangeEffect ==
  ASSUME RowsInvariant, NEW n \in Numbers, NEW new, RowChanges(n, new)
  PROVE  /\ row' \in [Numbers -> Row] /\ row'[n] = new
         /\ \A m \in Numbers : m # n => row'[m] = row[m]
         /\ \A m \in Numbers : row'[m].key = row[m].key
         /\ \A m \in Numbers : row'[m].status = "none" <=> row[m].status = "none"
  BY DEF RowsInvariant, TypeOK, RowChanges, Transitions, Terminal

LEMMA RowChangeStep ==
  ASSUME RowsInvariant, NEW n \in Numbers, NEW new, RowChanges(n, new)
  PROVE  OnlyLatestIsLive' /\ RowsAreClean' /\ UnusedIsBlank'
<1>1. OnlyLatestIsLive'
  <2> SUFFICES ASSUME NEW m \in Numbers, NEW k \in Numbers,
                      m < k, row'[k].status # "none"
               PROVE  row'[m].status \in Retryable
    BY DEF OnlyLatestIsLive
  <2>1. row[m].status \in Retryable
    BY RowChangeEffect DEF RowsInvariant, OnlyLatestIsLive
  <2>2. row'[m].status = row[m].status
    BY <2>1, RowChangeEffect DEF RowChanges, Transitions, Retryable, Terminal
  <2>3. QED
    BY <2>1, <2>2
<1>2. RowsAreClean'
  BY RowChangeEffect DEF RowsInvariant, RowsAreClean, RowChanges
<1>4. UnusedIsBlank'
  <2> SUFFICES ASSUME NEW m \in Numbers, row'[m].status = "none"
               PROVE  \A f \in Identity \cup {"key"} : row'[m][f] = None
    BY DEF UnusedIsBlank
  <2>1. row[m].status = "none" /\ m # n
    BY RowChangeEffect DEF RowChanges
  <2>2. row'[m] = row[m]
    BY <2>1, RowChangeEffect
  <2>3. QED
    BY <2>1, <2>2 DEF RowsInvariant, UnusedIsBlank
<1>5. QED
  BY <1>1, <1>2, <1>4

LEMMA SaveChanges ==
  ASSUME RowsInvariant, NEW w \in Workers, SaveAttempt(w)
  PROVE  txn[w].number \in Numbers /\ RowChanges(txn[w].number, Saved(w))
<1> DEFINE n == txn[w].number
<1>1. txn[w].fields # {} /\ Clean(txn[w].values) /\ row' = [row EXCEPT ![n] = Saved(w)]
  BY DEF SaveAttempt, Saved
<1>2. n # 0
  BY <1>1 DEF RowsInvariant, CopiesAreFaithful, CopyIsFaithful
<1>3. /\ n \in Numbers /\ txn[w].values \in Row /\ txn[w].fields \in SUBSET Fields
      /\ row[n] \in Row /\ row[n].status # "none" /\ CopyIsFaithful(w)
  BY <1>2, LoadedFacts
<1>4. /\ Transitions(row[n].status, txn[w].values.status) /\ Clean(Saved(w))
      /\ \A f \in Identity \cap txn[w].fields : row[n][f] # None => txn[w].values[f] = row[n][f]
  BY <1>1, <1>2, <1>3 DEF CopyIsFaithful
<1>5. /\ Saved(w) \in Row
      /\ \A f \in {"status", "authority", "reference", "transaction", "reason", "key"} :
            Saved(w)[f] = IF f \in txn[w].fields THEN txn[w].values[f] ELSE row[n][f]
  BY <1>3, UpdatedIsRow DEF RowsInvariant, Saved
<1>6. Saved(w).key = row[n].key
  BY <1>3, <1>5 DEF Fields
<1>7. Transitions(row[n].status, Saved(w).status)
  BY <1>4, <1>5 DEF Transitions
<1>8. \A f \in Identity \cup {"key"} : row[n][f] # None => Saved(w)[f] = row[n][f]
  BY <1>4, <1>5, <1>6 DEF Identity
<1>9. QED
  BY <1>1, <1>3, <1>4, <1>5, <1>6, <1>7, <1>8 DEF RowChanges

LEMMA CloseChanges ==
  ASSUME RowsInvariant, NEW n \in Numbers, NEW status \in Terminal, CloseIfPending(n, status)
  PROVE  RowChanges(n, [row[n] EXCEPT !.status = status])
<1> DEFINE new == [row[n] EXCEPT !.status = status]
<1>1. row[n].status = "PENDING" /\ Storable(new) /\ row' = [row EXCEPT ![n] = new]
  BY DEF CloseIfPending
<1>2. row[n] \in Row /\ Clean(row[n])
  BY <1>1 DEF RowsInvariant, TypeOK, RowsAreClean
<1>3. /\ new \in Row /\ new.status = status
      /\ \A f \in Identity \cup {"key"} : new[f] = row[n][f]
  BY <1>2 DEF Row, Identity
<1>4. row[n].reference = None
  BY <1>1, <1>2 DEF Clean
<1> HIDE DEF new
<1>5. Clean(new)
  BY <1>1, <1>2, <1>3, <1>4 DEF Clean, Storable, Identity
<1>6. QED
  BY <1>1, <1>3, <1>5 DEF RowChanges, Transitions, Identity, new

(***************************************************************************)
(* Creation, COMMIT and the conditional UPDATE.                            *)
(***************************************************************************)
LEMMA CreateStep ==
  ASSUME RowsInvariant, NEW n \in Numbers, NEW key \in Keys \cup {None}, CreateAttempt(n, key)
  PROVE  RowsInvariant'
<1> DEFINE new == [NoRow EXCEPT !.status = "PENDING", !.key = key]
<1>1. /\ PaymentIsFree /\ IsNextNumber(n)
      /\ \A m \in Numbers : row[m].status # "PENDING"
      /\ IF n = 1 THEN key = None ELSE CanRetry(row[n - 1].status) /\ KeyIsUnused(key)
      /\ row' = [row EXCEPT ![n] = new] /\ txn' = txn
  BY DEF CreateAttempt
<1>2. new \in Row /\ new.status = "PENDING" /\ new.key = key /\ Clean(new)
  BY PendingTyped
<1> HIDE DEF new
<1>3. /\ row' \in [Numbers -> Row] /\ row'[n] = new
      /\ \A m \in Numbers : m # n => row'[m] = row[m]
  BY <1>1, <1>2 DEF RowsInvariant, TypeOK
<1>4. row[n].status = "none" /\ row[n].key = None
  <2>1. ~(n < n)
    BY MaxAttemptsAssumption DEF Numbers
  <2>2. row[n].status = "none"
    BY <1>1, <2>1 DEF IsNextNumber
  <2>3. QED
    BY <2>2 DEF RowsInvariant, UnusedIsBlank
<1>5. TypeOK'
  BY <1>1, <1>3 DEF RowsInvariant, TypeOK
<1>6. OnlyLatestIsLive'
  <2> SUFFICES ASSUME NEW m \in Numbers, NEW k \in Numbers,
                      m < k, row'[k].status # "none"
               PROVE  row'[m].status \in Retryable
    BY DEF OnlyLatestIsLive
  <2>1. k <= n
    BY <1>1, <1>3, MaxAttemptsAssumption DEF IsNextNumber, Numbers
  <2>2. m < n /\ m # n /\ n # 1 /\ n - 1 \in Numbers
    BY <2>1, MaxAttemptsAssumption DEF Numbers
  <2>3. row[n - 1].status \in Retryable
    BY <1>1, <2>2 DEF CanRetry
  <2>4. row[n - 1].status # "none"
    BY <2>3 DEF Retryable, Terminal
  <2>5. m = n - 1 \/ m < n - 1
    BY <2>2, MaxAttemptsAssumption DEF Numbers
  <2>6. row[m].status \in Retryable
    BY <2>2, <2>3, <2>4, <2>5 DEF RowsInvariant, OnlyLatestIsLive
  <2>7. QED
    BY <1>3, <2>2, <2>6
<1>7. RowsAreClean'
  BY <1>2, <1>3 DEF RowsInvariant, RowsAreClean
<1>9. UnusedIsBlank'
  <2> SUFFICES ASSUME NEW m \in Numbers, row'[m].status = "none"
               PROVE  \A f \in Identity \cup {"key"} : row'[m][f] = None
    BY DEF UnusedIsBlank
  <2>1. m # n
    BY <1>2, <1>3
  <2>2. row'[m] = row[m]
    BY <1>3, <2>1
  <2>3. QED
    BY <2>2 DEF RowsInvariant, UnusedIsBlank
<1>10. OneTransaction'
  BY <1>1 DEF RowsInvariant, OneTransaction
<1>11. CopiesAreFaithful'
  <2> SUFFICES ASSUME NEW w \in Workers PROVE CopyIsFaithful(w)'
    BY DEF CopiesAreFaithful
  <2>1. txn[w].number = 0 /\ txn'[w] = txn[w]
    BY <1>1 DEF PaymentIsFree
  <2>2. QED
    BY <2>1, CopyKept DEF RowsInvariant, CopiesAreFaithful
<1>12. QED
  BY <1>5, <1>6, <1>7, <1>9, <1>10, <1>11 DEF RowsInvariant

LEMMA SaveStep ==
  ASSUME RowsInvariant, NEW w \in Workers, SaveAttempt(w)
  PROVE  RowsInvariant'
<1>1. txn[w].number \in Numbers /\ RowChanges(txn[w].number, Saved(w))
  BY SaveChanges
<1>2. OnlyLatestIsLive' /\ RowsAreClean' /\ UnusedIsBlank'
  BY <1>1, RowChangeStep
<1>3. /\ txn' \in [Workers -> Txn] /\ txn'[w].number = 0 /\ txn'[w].fields = {}
      /\ \A v \in Workers : v # w => txn'[v] = txn[v]
     
  BY NoTxnTyped DEF SaveAttempt, RowsInvariant, TypeOK
<1>4. TypeOK'
  BY <1>1, <1>3, RowChangeEffect DEF RowsInvariant, TypeOK
<1>5. OneTransaction'
  BY <1>3 DEF RowsInvariant, OneTransaction
<1>6. ASSUME NEW v \in Workers PROVE CopyIsFaithful(v)'
  <2>1. CASE v = w
    BY <1>3, <2>1 DEF CopyIsFaithful
  <2>2. CASE v # w
    <3>1. txn[w].number # 0
      BY <1>1, MaxAttemptsAssumption DEF Numbers
    <3>2. txn[v].number = 0
      BY <2>2, <3>1 DEF RowsInvariant, OneTransaction
    <3>3. QED
      BY <1>3, <2>2, <3>2, CopyKept DEF RowsInvariant, CopiesAreFaithful
  <2>3. QED
    BY <2>1, <2>2
<1>7. CopiesAreFaithful'
  BY <1>6 DEF CopiesAreFaithful
<1>8. QED
  BY <1>2, <1>4, <1>5, <1>7 DEF RowsInvariant

LEMMA CloseStep ==
  ASSUME RowsInvariant, NEW n \in Numbers, NEW status \in Terminal, CloseIfPending(n, status)
  PROVE  RowsInvariant'
<1> DEFINE new == [row[n] EXCEPT !.status = status]
<1>1. RowChanges(n, new)
  BY CloseChanges
<1> HIDE DEF new
<1>2. OnlyLatestIsLive' /\ RowsAreClean' /\ UnusedIsBlank'
  BY <1>1, RowChangeStep
<1>3. (\A w \in Workers : txn[w].number # n) /\ txn' = txn
  BY DEF CloseIfPending
<1>4. TypeOK'
  BY <1>1, <1>3, RowChangeEffect DEF RowsInvariant, TypeOK
<1>5. OneTransaction'
  BY <1>3 DEF RowsInvariant, OneTransaction
<1>6. ASSUME NEW w \in Workers PROVE CopyIsFaithful(w)'
  <2>1. txn[w].number # 0 => row'[txn[w].number] = row[txn[w].number]
    BY <1>1, <1>3, LoadedFacts, RowChangeEffect
  <2>2. QED
    BY <1>3, <2>1, CopyKept DEF RowsInvariant, CopiesAreFaithful
<1>7. CopiesAreFaithful'
  BY <1>6 DEF CopiesAreFaithful
<1>8. QED
  BY <1>2, <1>4, <1>5, <1>7 DEF RowsInvariant

(***************************************************************************)
(* The invariant and the theorems.                                         *)
(***************************************************************************)
LEMMA InitialInvariant == Init => RowsInvariant
<1> SUFFICES ASSUME Init PROVE RowsInvariant
  OBVIOUS
<1>1. TypeOK
  BY NoRowTyped, NoTxnTyped DEF Init, TypeOK
<1>2. \A n \in Numbers : row[n].status = "none" /\ row[n].key = None
  BY NoRowTyped DEF Init
<1>3. \A w \in Workers : txn[w].number = 0 /\ txn[w].fields = {}
  BY NoTxnTyped DEF Init
<1>4. OnlyLatestIsLive /\ RowsAreClean
  BY <1>2 DEF OnlyLatestIsLive, RowsAreClean
<1>5. UnusedIsBlank
  BY DEF Init, UnusedIsBlank, NoRow, Identity
<1>6. OneTransaction /\ CopiesAreFaithful
  BY <1>3 DEF OneTransaction, CopiesAreFaithful, CopyIsFaithful
<1>7. QED
  BY <1>1, <1>4, <1>5, <1>6 DEF RowsInvariant

LEMMA InvariantStep == RowsInvariant /\ [Next]_vars => RowsInvariant'
<1> SUFFICES ASSUME RowsInvariant, [Next]_vars PROVE RowsInvariant'
  OBVIOUS
<1>1. ASSUME NEW n \in Numbers, NEW key \in Keys \cup {None}, CreateAttempt(n, key)
      PROVE  RowsInvariant'
  BY <1>1, CreateStep
<1>2. ASSUME NEW w \in Workers, NEW n \in Numbers, LockAttempt(w, n)
      PROVE  RowsInvariant'
  BY <1>2, LockStep
<1>3. ASSUME NEW w \in Workers,
             NEW r \in AtOpening(References), NEW t \in AtOpening(Transactions),
             RejectOpening(w, r, t) \/ \E a \in Authorities : RegisterOpening(w, a, r, t)
      PROVE  RowsInvariant'
  <2>1. r \in References \cup {None} /\ t \in Transactions \cup {None}
    BY DEF AtOpening
  <2>2. QED
    BY <1>3, <2>1, RejectOpeningStep, RegisterOpeningStep
<1>4. ASSUME NEW w \in Workers, NEW r \in References, NEW t \in Transactions \cup {None},
             MarkSuccess(w, r, t)
      PROVE  RowsInvariant'
  BY <1>4, MarkSuccessStep
<1>5. ASSUME NEW w \in Workers, NEW s \in Retryable, NEW reason \in BOOLEAN,
             MarkTerminal(w, s, reason)
      PROVE  RowsInvariant'
  BY <1>5, MarkTerminalStep
<1>6. ASSUME NEW w \in Workers, SaveAttempt(w)
      PROVE  RowsInvariant'
  BY <1>6, SaveStep
<1>7. ASSUME NEW w \in Workers, SaveRefused(w) \/ RollBack(w)
      PROVE  RowsInvariant'
  BY <1>7, EndOfTransaction DEF SaveRefused, RollBack
<1>8. ASSUME NEW n \in Numbers, NEW s \in Terminal, CloseIfPending(n, s)
      PROVE  RowsInvariant'
  BY <1>8, CloseStep
<1>9. CASE UNCHANGED vars
  BY <1>9 DEF vars, RowsInvariant, TypeOK, UnusedIsBlank, OnlyLatestIsLive, RowsAreClean,
              OneTransaction, CopiesAreFaithful, CopyIsFaithful, Saved, Updated
<1>10. QED
  BY <1>1, <1>2, <1>3, <1>4, <1>5, <1>6, <1>7, <1>8, <1>9 DEF Next

\* What the rows and the copies of the workers promise together, at all times.
THEOREM InvariantHolds == Spec => []RowsInvariant
<1>1. QED
  BY InitialInvariant, InvariantStep, PTL DEF Spec

\* The types, for every number of attempts and workers.
THEOREM TypeCorrect == Spec => []TypeOK
<1>1. RowsInvariant => TypeOK
  BY DEF RowsInvariant
<1>2. QED
  BY <1>1, InvariantHolds, PTL

\* No attempt before the latest is running or successful: the customer is
\* never charged by two attempts of one payment.
THEOREM LatestIsLive == Spec => []OnlyLatestIsLive
<1>1. RowsInvariant => OnlyLatestIsLive
  BY DEF RowsInvariant
<1>2. QED
  BY <1>1, InvariantHolds, PTL

\* The conditional UPDATE and the partial saves leave rows that clean() takes.
THEOREM CleanRows == Spec => []RowsAreClean
<1>1. RowsInvariant => RowsAreClean
  BY DEF RowsInvariant
<1>2. QED
  BY <1>1, InvariantHolds, PTL

(***************************************************************************)
(* What a step may never do.                                               *)
(***************************************************************************)
\* Each step leaves the table alone, adds one row, or changes one.
LEMMA TableSteps ==
  ASSUME RowsInvariant, [Next]_vars
  PROVE  \/ row' = row
         \/ \E n \in Numbers, new \in Row : row[n].status = "none" /\ row' = [row EXCEPT ![n] = new]
         \/ \E n \in Numbers, new \in Row : RowChanges(n, new)
<1>1. ASSUME NEW n \in Numbers, NEW key \in Keys \cup {None}, CreateAttempt(n, key)
      PROVE  \E m \in Numbers, new \in Row : row[m].status = "none" /\ row' = [row EXCEPT ![m] = new]
  <2> DEFINE new == [NoRow EXCEPT !.status = "PENDING", !.key = key]
  <2>1. new \in Row
    BY PendingTyped
  <2>2. row' = [row EXCEPT ![n] = new]
    BY <1>1 DEF CreateAttempt
  <2>3. row[n].status = "none"
    <3>1. ~(n < n)
      BY MaxAttemptsAssumption DEF Numbers
    <3>2. QED
      BY <1>1, <3>1 DEF CreateAttempt, IsNextNumber
  <2> HIDE DEF new
  <2>4. QED
    BY <2>1, <2>2, <2>3
<1>2. ASSUME NEW w \in Workers, SaveAttempt(w)
      PROVE  \E n \in Numbers, new \in Row : RowChanges(n, new)
  BY <1>2, SaveChanges DEF RowChanges
<1>3. ASSUME NEW n \in Numbers, NEW s \in Terminal, CloseIfPending(n, s)
      PROVE  \E m \in Numbers, new \in Row : RowChanges(m, new)
  BY <1>3, CloseChanges DEF RowChanges
<1>4. ASSUME NEW w \in Workers,
             \/ \E n \in Numbers : LockAttempt(w, n)
             \/ \E r \in AtOpening(References), t \in AtOpening(Transactions) :
                   RejectOpening(w, r, t) \/ \E a \in Authorities : RegisterOpening(w, a, r, t)
             \/ \E r \in References, t \in Transactions \cup {None} : MarkSuccess(w, r, t)
             \/ \E s \in Retryable, reason \in BOOLEAN : MarkTerminal(w, s, reason)
             \/ SaveRefused(w) \/ RollBack(w)
      PROVE  row' = row
  BY <1>4 DEF LockAttempt, RegisterOpening, RejectOpening, MarkSuccess, MarkTerminal,
              Changed, SaveRefused, RollBack
<1>5. CASE UNCHANGED vars
  BY <1>5 DEF vars
<1>6. QED
  BY <1>1, <1>2, <1>3, <1>4, <1>5 DEF Next

\* "Gateway identity is immutable".
THEOREM IdentityHolds == Spec => IdentityIsImmutable
<1>1. ASSUME RowsInvariant, [Next]_vars
      PROVE  \A n \in Numbers : \A f \in {"authority", "reference", "transaction", "key"} :
                row[n][f] # None => row'[n][f] = row[n][f]
  <2> SUFFICES ASSUME NEW n \in Numbers,
                      NEW f \in {"authority", "reference", "transaction", "key"},
                      row[n][f] # None
               PROVE  row'[n][f] = row[n][f]
    OBVIOUS
  <2>1. ASSUME NEW m \in Numbers, NEW new \in Row, row[m].status = "none",
               row' = [row EXCEPT ![m] = new]
        PROVE  row'[n][f] = row[n][f]
    <3>1. \A g \in Identity \cup {"key"} : row[m][g] = None
      BY <1>1, <2>1 DEF RowsInvariant, UnusedIsBlank
    <3>2. row[m][f] = None
      BY <3>1 DEF Identity
    <3>3. n # m
      BY <3>2
    <3>4. QED
      BY <1>1, <2>1, <3>3 DEF RowsInvariant, TypeOK
  <2>2. ASSUME NEW m \in Numbers, NEW new \in Row, RowChanges(m, new)
        PROVE  row'[n][f] = row[n][f]
    BY <1>1, <2>2, RowChangeEffect DEF RowChanges, Identity
  <2>3. QED
    BY <1>1, <2>1, <2>2, TableSteps
<1>2. QED
  BY <1>1, InvariantHolds, PTL DEF Spec, IdentityIsImmutable

\* The transitions of the model agree with the policy that nobody asks.
THEOREM PolicyHolds == Spec => ChangesArePermitted
<1>1. ASSUME RowsInvariant, [Next]_vars
      PROVE  \A n \in Numbers : row[n].status # "none" /\ row'[n].status # row[n].status
                => PolicyPermits(row[n].status, row'[n].status)
  <2> SUFFICES ASSUME NEW n \in Numbers, row[n].status # "none",
                      row'[n].status # row[n].status
               PROVE  PolicyPermits(row[n].status, row'[n].status)
    OBVIOUS
  <2>1. PICK m \in Numbers, new \in Row : RowChanges(m, new)
    BY <1>1, TableSteps DEF RowsInvariant, TypeOK
  <2>2. n = m /\ Transitions(row[n].status, row'[n].status)
    BY <1>1, <2>1, RowChangeEffect DEF RowChanges
  <2>3. QED
    BY <2>2 DEF Transitions, Terminal, PolicyPermits, CanSucceed, CanFail, CanTimeout, CanCancel
<1>2. QED
  BY <1>1, InvariantHolds, PTL DEF Spec, ChangesArePermitted

\* Every change of a row respects what is stored there.
THEOREM ChangesKeepTheRecord == Spec => ChangesAreSound
  BY IdentityHolds, PolicyHolds, PTL DEF ChangesAreSound

(***************************************************************************)
(* Part 2: what gateways answer (GatewayCalls, the instance Calls).        *)
(* The inductive invariant.                                                *)
(***************************************************************************)
Decided == {"paid", "short", "declined", "settled"}
Initiating(w) == call[w].op = "initiate" /\ call[w].stage # "idle"
Verifying(w) == call[w].op = "verify" /\ call[w].stage # "idle"

\* A session is at the gateway of its payment; a payment has the authority of
\* its session; whoever decides at the gateway was sent there with it.
SessionIsOfPayment(a) ==
    /\ session[a].state # "none" =>
          session[a].at = payment[a].gateway /\ session[a].authority \in Issued
    /\ payment[a].authority # None =>
          session[a].state # "none" /\ payment[a].authority = session[a].authority
    /\ session[a].state \in Decided => payment[a].authority # None
    /\ payment[a].status = "none" =>
          payment[a].authority = None /\ session[a].state = "none"

\* What is persisted as the outcome of a payment is how its session ended.
OutcomeIsOfSession(a) ==
    /\ payment[a].status = "SUCCESS" =>
          /\ payment[a].authority # None
          /\ session[a].state = "settled" /\ payment[a].reference = a
    /\ payment[a].status = "FAILED" =>
          /\ session[a].refused # {} \/ session[a].garbled
          /\ "open" \in session[a].refused \/ session[a].garbled
                \/ session[a].state \in {"none", "declined"}

IssuedOnce ==
    \A a, b \in Attempts :
        /\ session[a].state # "none" /\ session[b].state # "none"
        /\ session[a].at = session[b].at /\ session[a].authority = session[b].authority
        => a = b

OneInitiation ==
    \A v, w \in Workers :
        Initiating(v) /\ Initiating(w) /\ call[v].attempt = call[w].attempt => v = w

\* A payment is opened once: until its opening is persisted, nobody verifies it.
InitiationIsSound(w) ==
    Initiating(w) =>
        LET a == call[w].attempt IN
        /\ a \in Attempts /\ call[w].stage \in {"gateway", "persist"}
        /\ payment[a].status = "PENDING" /\ payment[a].authority = None
        /\ call[w].stage = "gateway" => session[a].state = "none"
        /\ call[w].stage = "persist" /\ call[w].result.success =>
              session[a].state # "none" /\ call[w].result.authority = session[a].authority
        /\ call[w].stage = "persist" /\ ~call[w].result.success =>
              session[a].state = "none" /\ (session[a].refused # {} \/ session[a].garbled)

\* A result in flight is about the payment's own session.  A settlement is still
\* true of it, and so is a refusal, unless it came before the decision.
VerificationIsSound(w) ==
    Verifying(w) =>
        LET a == call[w].attempt IN
        /\ a \in Attempts
        /\ payment[a].authority # None
        /\ call[w].stage = "persist" /\ call[w].result.success =>
              /\ call[w].result.reference \in {a, None}
              /\ call[w].result.amount = "full" => session[a].state = "settled"
        /\ call[w].stage = "persist" /\ ~call[w].result.success =>
              \/ session[a].garbled \/ "open" \in session[a].refused
              \/ "declined" \in session[a].refused /\ session[a].state = "declined"

CallIsSound(w) ==
    /\ call[w].stage # "idle" => call[w].op \in {"initiate", "verify"}
    /\ InitiationIsSound(w)
    /\ VerificationIsSound(w)
    /\ call[w].outcome = "completed" =>
          call[w].attempt \in Attempts /\ payment[call[w].attempt].status = "SUCCESS"

CallsInvariant ==
    /\ Calls!TypeOK
    /\ \A a \in Attempts : SessionIsOfPayment(a) /\ OutcomeIsOfSession(a)
    /\ IssuedOnce
    /\ OneInitiation
    /\ \A w \in Workers : CallIsSound(w)

LEMMA CallsFacts ==
    /\ Registered \subseteq Gateways /\ ZarinPal \in Gateways /\ None \notin Issued
  BY ViewsAssumption DEF Calls!GatewaysAssumption

(***************************************************************************)
(* The three things that happen to a worker's request.                     *)
(***************************************************************************)
OthersWait(w) == \A v \in Workers \ {w} : call'[v] = call[v]

LEMMA NoResultTyped ==
    /\ Calls!NoResult \in Calls!Result /\ Calls!NoResult.success = FALSE
    /\ Calls!Idle \in Calls!Call /\ Calls!Idle.op = "none" /\ Calls!Idle.stage = "idle"
    /\ Calls!Idle.outcome = "none" /\ Calls!Idle.attempt = None
    /\ Calls!NoRow \in Calls!Row /\ Calls!NoRow.status = "none"
    /\ Calls!NoRow.authority = None /\ Calls!NoRow.reference = None
    /\ Calls!NoSession \in Calls!Session /\ Calls!NoSession.state = "none"
    /\ Calls!NoSession.authority = None
<1>1. Calls!NoResult \in Calls!Result /\ Calls!NoResult.success = FALSE
  BY DEF Calls!NoResult, Calls!Result
<1>2. QED
  BY <1>1 DEF Calls!Idle, Calls!Call, Calls!NoRow, Calls!Row, Calls!NoSession, Calls!Session

LEMMA CallReplaced ==
  ASSUME Calls!TypeOK, NEW w \in Workers, NEW new \in Calls!Call,
         call' = [call EXCEPT ![w] = new]
  PROVE  call' \in [Workers -> Calls!Call] /\ call'[w] = new /\ OthersWait(w)
  BY DEF Calls!TypeOK, OthersWait

LEMMA BeginEffect ==
  ASSUME Calls!TypeOK, NEW w \in Workers, NEW op \in {"initiate", "verify"},
         NEW stage \in {"resolved", "gateway"}, NEW a \in Attempts,
         NEW ref \in Attempts \cup {None}, Calls!Begin(w, op, stage, a, ref)
  PROVE  /\ call[w].stage = "idle"
         /\ call' \in [Workers -> Calls!Call] /\ OthersWait(w)
         /\ call'[w].op = op /\ call'[w].stage = stage /\ call'[w].attempt = a
         /\ call'[w].outcome = "none"
<1>1. PICK new \in Calls!Call :
         new = [Calls!Idle EXCEPT !.op = op, !.stage = stage, !.attempt = a, !.ref = ref]
  BY NoResultTyped DEF Calls!Call
<1>2. /\ new.op = op /\ new.stage = stage /\ new.attempt = a /\ new.outcome = "none"
  BY <1>1, NoResultTyped DEF Calls!Call
<1>3. call[w].stage = "idle" /\ call' = [call EXCEPT ![w] = new]
  BY <1>1 DEF Calls!Begin
<1>4. QED
  BY <1>2, <1>3, CallReplaced

LEMMA AnsweredEffect ==
  ASSUME Calls!TypeOK, NEW w \in Workers, NEW result \in Calls!Result,
         Calls!Answered(w, result)
  PROVE  /\ call' \in [Workers -> Calls!Call] /\ OthersWait(w)
         /\ call'[w].op = call[w].op /\ call'[w].stage = "persist"
         /\ call'[w].attempt = call[w].attempt /\ call'[w].result = result
         /\ call'[w].outcome = call[w].outcome
<1>1. call[w] \in Calls!Call
  BY DEF Calls!TypeOK
<1>2. PICK new \in Calls!Call : new = [call[w] EXCEPT !.stage = "persist", !.result = result]
  BY <1>1 DEF Calls!Call
<1>3. /\ new.op = call[w].op /\ new.stage = "persist" /\ new.attempt = call[w].attempt
      /\ new.result = result /\ new.outcome = call[w].outcome
  BY <1>1, <1>2 DEF Calls!Call
<1>4. call' = [call EXCEPT ![w] = new]
  BY <1>1, <1>2 DEF Calls!Answered, Calls!TypeOK
<1>5. QED
  BY <1>3, <1>4, CallReplaced

LEMMA FinishEffect ==
  ASSUME Calls!TypeOK, NEW w \in Workers,
         NEW outcome \in {"none", "completed", "rejected", "error"}, Calls!Finish(w, outcome)
  PROVE  /\ call' \in [Workers -> Calls!Call] /\ OthersWait(w)
         /\ call'[w].op = "none" /\ call'[w].stage = "idle"
         /\ call'[w].outcome = "completed" =>
               outcome = "completed" /\ call'[w].attempt = call[w].attempt
<1>1. call[w] \in Calls!Call
  BY DEF Calls!TypeOK
<1>2. CASE outcome = "completed"
  <2>1. PICK new \in Calls!Call :
           new = [Calls!Idle EXCEPT !.attempt = call[w].attempt, !.outcome = outcome]
    BY <1>1, <1>2, NoResultTyped DEF Calls!Call
  <2>2. new.op = "none" /\ new.stage = "idle" /\ new.attempt = call[w].attempt
    BY <2>1, NoResultTyped DEF Calls!Call
  <2>3. call' = [call EXCEPT ![w] = new]
    BY <1>2, <2>1 DEF Calls!Finish
  <2>4. QED
    BY <1>2, <2>2, <2>3, CallReplaced
<1>3. CASE outcome # "completed"
  <2>1. call' = [call EXCEPT ![w] = Calls!Idle]
    BY <1>3 DEF Calls!Finish
  <2>2. QED
    BY <2>1, NoResultTyped, CallReplaced
<1>4. QED
  BY <1>2, <1>3

(***************************************************************************)
(* What the requests of the others see of a step.                          *)
(***************************************************************************)
AttemptMoves(a) ==
    /\ payment[a].authority # None => payment'[a].authority = payment[a].authority
    /\ payment[a].status = "SUCCESS" => payment'[a].status = "SUCCESS"
    /\ session[a].refused \subseteq session'[a].refused
    /\ session[a].garbled => session'[a].garbled
    /\ session[a].state \in {"settled", "declined"} => session'[a].state = session[a].state

AttemptStays(a) ==
    /\ payment'[a].status = payment[a].status /\ payment'[a].authority = payment[a].authority
    /\ session'[a].state = session[a].state /\ session'[a].authority = session[a].authority

LEMMA BystanderKept ==
  ASSUME NEW w \in Workers, CallIsSound(w), call'[w] = call[w],
         \A a \in Attempts : AttemptMoves(a),
         Initiating(w) => AttemptStays(call[w].attempt)
  PROVE  CallIsSound(w)'
<1>1. InitiationIsSound(w)'
  <2> SUFFICES ASSUME Initiating(w)' PROVE InitiationIsSound(w)'
    BY DEF InitiationIsSound
  <2>1. Initiating(w)
    BY DEF Initiating
  <2>2. QED
    BY <2>1 DEF CallIsSound, InitiationIsSound, AttemptMoves, AttemptStays
<1>2. VerificationIsSound(w)'
  <2> SUFFICES ASSUME Verifying(w)' PROVE VerificationIsSound(w)'
    BY DEF VerificationIsSound
  <2>1. Verifying(w)
    BY DEF Verifying
  <2>2. QED
    BY <2>1 DEF CallIsSound, VerificationIsSound, AttemptMoves
<1>3. QED
  BY <1>1, <1>2 DEF CallIsSound, AttemptMoves

\* A step of one worker about one attempt.
LEMMA AttemptStep ==
  ASSUME CallsInvariant, NEW w \in Workers, NEW a \in Attempts,
         setting' = setting,
         call' \in [Workers -> Calls!Call], OthersWait(w),
         payment' \in [Attempts -> Calls!Row], session' \in [Attempts -> Calls!Session],
         \A b \in Attempts \ {a} : payment'[b] = payment[b] /\ session'[b] = session[b],
         AttemptMoves(a),
         \/ AttemptStays(a)
         \/ \A v \in Workers \ {w} : Initiating(v) => call[v].attempt # a,
         SessionIsOfPayment(a)', OutcomeIsOfSession(a)',
         session'[a].state # "none" =>
            \/ /\ session[a].state # "none"
               /\ session'[a].at = session[a].at /\ session'[a].authority = session[a].authority
            \/ \A b \in Attempts \ {a} : session[b].state # "none" =>
                  ~(session[b].at = session'[a].at /\ session[b].authority = session'[a].authority),
         Initiating(w)' =>
            \/ Initiating(w) /\ call'[w].attempt = call[w].attempt
            \/ \A v \in Workers \ {w} : Initiating(v) => call[v].attempt # call'[w].attempt,
         CallIsSound(w)'
  PROVE  CallsInvariant'
<1>1. Calls!TypeOK'
  BY DEF CallsInvariant, Calls!TypeOK
<1>2. \A b \in Attempts : AttemptMoves(b)
  BY DEF AttemptMoves
<1>3. \A b \in Attempts : SessionIsOfPayment(b)' /\ OutcomeIsOfSession(b)'
  BY DEF CallsInvariant, SessionIsOfPayment, OutcomeIsOfSession
<1>4. IssuedOnce'
  BY DEF CallsInvariant, IssuedOnce
<1>5. OneInitiation'
  BY DEF CallsInvariant, OneInitiation, Initiating, OthersWait
<1>6. ASSUME NEW v \in Workers \ {w} PROVE CallIsSound(v)'
  <2>1. CallIsSound(v) /\ call'[v] = call[v]
    BY DEF CallsInvariant, OthersWait
  <2>2. Initiating(v) => AttemptStays(call[v].attempt)
    <3>1. Initiating(v) => call[v].attempt \in Attempts
      BY <2>1 DEF CallIsSound, InitiationIsSound
    <3>2. QED
      BY <3>1 DEF AttemptStays
  <2>3. QED
    BY <1>2, <2>1, <2>2, BystanderKept
<1>7. QED
  BY <1>1, <1>3, <1>4, <1>5, <1>6 DEF CallsInvariant

\* A step that changes neither rows nor sessions.
LEMMA CallStep ==
  ASSUME CallsInvariant, NEW w \in Workers, NEW a \in Attempts,
         UNCHANGED <<setting, payment, session>>,
         call' \in [Workers -> Calls!Call], OthersWait(w),
         Initiating(w)' => Initiating(w) /\ call'[w].attempt = call[w].attempt,
         CallIsSound(w)'
  PROVE  CallsInvariant'
<1>1. /\ payment' \in [Attempts -> Calls!Row] /\ session' \in [Attempts -> Calls!Session]
      /\ AttemptMoves(a) /\ AttemptStays(a)
  BY DEF CallsInvariant, Calls!TypeOK, AttemptMoves, AttemptStays
<1>2. SessionIsOfPayment(a)' /\ OutcomeIsOfSession(a)'
  BY DEF CallsInvariant, SessionIsOfPayment, OutcomeIsOfSession
<1>3. QED
  BY <1>1, <1>2, AttemptStep

\* A request in progress is about a payment.
LEMMA BusyFacts ==
  ASSUME CallsInvariant, NEW w \in Workers, call[w].stage # "idle"
  PROVE  /\ call[w] \in Calls!Call /\ call[w].attempt \in Attempts
         /\ Initiating(w) \/ Verifying(w)
         /\ call[w].op = "initiate" => Initiating(w)
         /\ call[w].op = "verify" => Verifying(w)
         /\ InitiationIsSound(w) /\ VerificationIsSound(w)
         /\ call[w].outcome = "completed" => payment[call[w].attempt].status = "SUCCESS"
<1>1. CallIsSound(w) /\ call[w] \in Calls!Call
  BY DEF CallsInvariant, Calls!TypeOK
<1>2. QED
  BY <1>1 DEF CallIsSound, InitiationIsSound, VerificationIsSound, Initiating, Verifying

\* Ended or dropped.
LEMMA IdleIsSound ==
  ASSUME NEW w \in Workers, call'[w].stage = "idle", call'[w].outcome # "completed"
  PROVE  CallIsSound(w)' /\ ~Initiating(w)'
  BY DEF CallIsSound, InitiationIsSound, VerificationIsSound, Initiating, Verifying

LEMMA EndStep ==
  ASSUME CallsInvariant, NEW w \in Workers,
         Calls!Unsupported(w) \/ Calls!Lost(w) \/ Calls!WorkerDies(w)
  PROVE  CallsInvariant'
<1>1. /\ call[w].stage # "idle" /\ UNCHANGED <<setting, payment, session>>
      /\ Calls!Finish(w, "error") \/ call' = [call EXCEPT ![w] = Calls!Idle]
  BY DEF Calls!Unsupported, Calls!Lost, Calls!WorkerDies
<1>2. /\ call' \in [Workers -> Calls!Call] /\ OthersWait(w)
      /\ call'[w].stage = "idle" /\ call'[w].outcome # "completed"
  BY <1>1, FinishEffect, CallReplaced, NoResultTyped DEF CallsInvariant
<1>3. call[w].attempt \in Attempts
  BY <1>1, BusyFacts
<1>4. QED
  BY <1>1, <1>2, <1>3, IdleIsSound, CallStep

LEMMA StateSet ==
  ASSUME Calls!TypeOK, NEW a \in Attempts,
         NEW state \in {"none", "open", "paid", "short", "declined", "settled"},
         session' = [session EXCEPT ![a].state = state]
  PROVE  /\ session' \in [Attempts -> Calls!Session]
         /\ \A b \in Attempts \ {a} : session'[b] = session[b]
         /\ session'[a].state = state
         /\ session'[a].at = session[a].at /\ session'[a].authority = session[a].authority
         /\ session'[a].refused = session[a].refused
         /\ session'[a].garbled = session[a].garbled
<1>1. session[a] \in Calls!Session
  BY DEF Calls!TypeOK
<1>2. PICK new \in Calls!Session : new = [session[a] EXCEPT !.state = state]
  BY <1>1 DEF Calls!Session
<1>3. /\ new.state = state /\ new.at = session[a].at /\ new.authority = session[a].authority
      /\ new.refused = session[a].refused /\ new.garbled = session[a].garbled
  BY <1>1, <1>2 DEF Calls!Session
<1>4. session' = [session EXCEPT ![a] = new]
  BY <1>2
<1>5. QED
  BY <1>3, <1>4 DEF Calls!TypeOK

LEMMA RowReplaced ==
  ASSUME Calls!TypeOK, NEW a \in Attempts, NEW new \in Calls!Row, Calls!SaveRow(a, new)
  PROVE  /\ payment' \in [Attempts -> Calls!Row] /\ payment'[a] = new
         /\ \A b \in Attempts \ {a} : payment'[b] = payment[b]
  BY DEF Calls!TypeOK, Calls!SaveRow

\* Nobody can pay, decline or pay another amount before the authority is stored,
\* so that no opening is in flight, and whoever has decided does not again.
LEMMA CustomerStep ==
  ASSUME CallsInvariant, NEW a \in Attempts, NEW decision \in {"paid", "short", "declined"},
         Calls!CustomerDecides(a, decision)
  PROVE  CallsInvariant'
<1>1. /\ session[a].state = "open" /\ payment[a].authority # None
      /\ session' = [session EXCEPT ![a].state = decision]
      /\ UNCHANGED <<setting, payment, call>>
  BY DEF Calls!CustomerDecides
<1>2. /\ session' \in [Attempts -> Calls!Session]
      /\ \A b \in Attempts \ {a} : session'[b] = session[b]
      /\ session'[a].state = decision
      /\ session'[a].at = session[a].at /\ session'[a].authority = session[a].authority
      /\ session'[a].refused = session[a].refused /\ session'[a].garbled = session[a].garbled
  BY <1>1, StateSet DEF CallsInvariant
<1>3. Calls!TypeOK'
  BY <1>1, <1>2 DEF CallsInvariant, Calls!TypeOK
<1>4. \A b \in Attempts : AttemptMoves(b)
  BY <1>1, <1>2 DEF AttemptMoves, Decided
<1>5. SessionIsOfPayment(a)' /\ OutcomeIsOfSession(a)'
  BY <1>1, <1>2 DEF CallsInvariant, SessionIsOfPayment, OutcomeIsOfSession, Decided
<1>6. \A b \in Attempts : SessionIsOfPayment(b)' /\ OutcomeIsOfSession(b)'
  BY <1>1, <1>2, <1>5 DEF CallsInvariant, SessionIsOfPayment, OutcomeIsOfSession
<1>7. IssuedOnce' /\ OneInitiation'
  BY <1>1, <1>2 DEF CallsInvariant, IssuedOnce, OneInitiation, Initiating
<1>8. ASSUME NEW w \in Workers PROVE CallIsSound(w)'
  <2>1. CallIsSound(w)
    BY DEF CallsInvariant
  <2>2. Initiating(w) => AttemptStays(call[w].attempt)
    BY <1>1, <1>2, <2>1 DEF CallIsSound, InitiationIsSound, AttemptStays
  <2>3. QED
    BY <1>1, <1>4, <2>1, <2>2, BystanderKept
<1>9. QED
  BY <1>3, <1>6, <1>7, <1>8 DEF CallsInvariant

LEMMA StartStep ==
  ASSUME CallsInvariant, NEW w \in Workers, NEW a \in Attempts, Calls!StartPayment(w, a)
  PROVE  CallsInvariant'
<1>1. /\ payment[a].status = "none" /\ UNCHANGED <<setting, session>>
      /\ Calls!Begin(w, "initiate", "gateway", a, None)
      /\ setting \in Gateways
  BY DEF Calls!StartPayment, CallsInvariant, Calls!TypeOK
<1>2. PICK new \in Calls!Row :
         new = [Calls!NoRow EXCEPT !.status = "PENDING", !.gateway = setting]
  BY <1>1, NoResultTyped DEF Calls!Row
<1>3. new.status = "PENDING" /\ new.authority = None /\ new.reference = None
  BY <1>2, NoResultTyped DEF Calls!Row
<1>4. /\ payment' \in [Attempts -> Calls!Row] /\ payment'[a] = new
      /\ \A b \in Attempts \ {a} : payment'[b] = payment[b]
  BY <1>2, RowReplaced DEF Calls!StartPayment, CallsInvariant
<1>5. /\ call[w].stage = "idle"
      /\ call' \in [Workers -> Calls!Call] /\ OthersWait(w)
      /\ call'[w].op = "initiate" /\ call'[w].stage = "gateway" /\ call'[w].attempt = a
      /\ call'[w].outcome = "none"
  BY <1>1, BeginEffect DEF CallsInvariant
<1>6. payment[a].authority = None /\ session[a].state = "none"
  BY <1>1 DEF CallsInvariant, SessionIsOfPayment
<1>7. AttemptMoves(a) /\ SessionIsOfPayment(a)' /\ OutcomeIsOfSession(a)'
  BY <1>1, <1>3, <1>4, <1>6 DEF AttemptMoves, SessionIsOfPayment, OutcomeIsOfSession, Decided
<1>8. \A v \in Workers \ {w} : Initiating(v) => call[v].attempt # a
  BY <1>1 DEF CallsInvariant, CallIsSound, InitiationIsSound
<1>9. CallIsSound(w)'
  BY <1>1, <1>3, <1>4, <1>5, <1>6
     DEF CallIsSound, InitiationIsSound, VerificationIsSound, Initiating, Verifying
<1>10. session' \in [Attempts -> Calls!Session]
  BY <1>1 DEF CallsInvariant, Calls!TypeOK
<1>11. session'[a].state = "none" /\ \A b \in Attempts \ {a} : session'[b] = session[b]
  BY <1>1, <1>6
<1>12. QED
  BY <1>1, <1>4, <1>5, <1>7, <1>8, <1>9, <1>10, <1>11, AttemptStep

\* The gateway issues an authority that it has not issued, to the one attempt
\* whose opening is in flight; its answer may be lost.
LEMMA OpenStep ==
  ASSUME CallsInvariant, NEW w \in Workers, NEW authority \in Issued,
         Calls!SessionOpened(w, authority)
  PROVE  CallsInvariant'
<1>a. PICK a \in Attempts : a = call[w].attempt
  BY BusyFacts DEF Calls!SessionOpened, Calls!Asks, Calls!Serves
<1>g. PICK g : g = payment[a].gateway
  OBVIOUS
<1>1. /\ call[w].op = "initiate" /\ call[w].stage = "gateway"
      /\ g \in Registered
      /\ UNCHANGED <<setting, payment>>
      /\ Calls!Opened(a, g, authority)
      /\ \/ Calls!Answered(w, [Calls!NoResult EXCEPT !.success = TRUE, !.authority = authority])
         \/ Calls!Finish(w, "error")
  BY <1>a, <1>g DEF Calls!SessionOpened, Calls!Asks, Calls!Serves, Calls!AskedGateway
<1>2. /\ Initiating(w) /\ call[w] \in Calls!Call
      /\ payment[a].status = "PENDING" /\ payment[a].authority = None
      /\ session[a].state = "none" /\ call[w].outcome # "completed"
  BY <1>1, <1>a, BusyFacts DEF InitiationIsSound
<1>3. /\ Calls!Found(g, authority) = {}
      /\ session' = [session EXCEPT ![a].at = g, ![a].authority = authority,
                                    ![a].state = "open"]
  BY <1>1 DEF Calls!Opened
<1>4. session[a] \in Calls!Session /\ g \in Gateways
  BY <1>1, <1>g, CallsFacts DEF CallsInvariant, Calls!TypeOK
<1>5. PICK new \in Calls!Session :
         new = [session[a] EXCEPT !.at = g, !.authority = authority, !.state = "open"]
  BY <1>4 DEF Calls!Session
<1>6. /\ new.at = g /\ new.authority = authority /\ new.state = "open"
      /\ new.refused = session[a].refused /\ new.garbled = session[a].garbled
  BY <1>4, <1>5 DEF Calls!Session
<1>7. /\ session' \in [Attempts -> Calls!Session] /\ session'[a] = new
      /\ \A b \in Attempts \ {a} : session'[b] = session[b]
  BY <1>2, <1>3, <1>5 DEF CallsInvariant, Calls!TypeOK
<1>8. AttemptMoves(a)
  BY <1>1, <1>2, <1>6, <1>7 DEF AttemptMoves, Decided
<1>9. SessionIsOfPayment(a)' /\ OutcomeIsOfSession(a)'
  BY <1>1, <1>2, <1>6, <1>7, <1>g DEF SessionIsOfPayment, OutcomeIsOfSession, Decided
<1>10. \A b \in Attempts \ {a} : session[b].state # "none" =>
          ~(session[b].at = session'[a].at /\ session[b].authority = session'[a].authority)
  BY <1>3, <1>6, <1>7 DEF Calls!Found
<1>11. \A v \in Workers \ {w} : Initiating(v) => call[v].attempt # a
  BY <1>2, <1>a DEF CallsInvariant, OneInitiation
<1>12. CASE Calls!Finish(w, "error")
  <2>1. /\ call' \in [Workers -> Calls!Call] /\ OthersWait(w)
        /\ call'[w].stage = "idle" /\ call'[w].outcome # "completed"
    BY <1>12, FinishEffect DEF CallsInvariant
  <2>2. CallIsSound(w)' /\ ~Initiating(w)'
    BY <2>1, IdleIsSound
  <2>3. QED
    BY <1>1, <1>2, <1>7, <1>8, <1>9, <1>10, <1>11, <1>a, <2>1, <2>2, AttemptStep
       DEF CallsInvariant, Calls!TypeOK
<1>13. CASE Calls!Answered(w, [Calls!NoResult EXCEPT !.success = TRUE, !.authority = authority])
  <2>1. PICK result \in Calls!Result :
           result = [Calls!NoResult EXCEPT !.success = TRUE, !.authority = authority]
    BY NoResultTyped DEF Calls!Result
  <2>2. result.success = TRUE /\ result.authority = authority
    BY <2>1, NoResultTyped DEF Calls!Result
  <2>3. /\ call' \in [Workers -> Calls!Call] /\ OthersWait(w)
        /\ call'[w].op = call[w].op /\ call'[w].stage = "persist"
        /\ call'[w].attempt = call[w].attempt /\ call'[w].result = result
        /\ call'[w].outcome = call[w].outcome
    BY <1>13, <2>1, AnsweredEffect DEF CallsInvariant
  <2>4. CallIsSound(w)'
    BY <1>1, <1>2, <1>6, <1>7, <1>a, <2>2, <2>3
       DEF CallIsSound, InitiationIsSound, VerificationIsSound, Initiating, Verifying
  <2>5. QED
    BY <1>1, <1>2, <1>7, <1>8, <1>9, <1>10, <1>11, <1>a, <2>3, <2>4, AttemptStep
       DEF CallsInvariant, Calls!TypeOK
<1>14. QED
  BY <1>1, <1>12, <1>13

\* Denials by the gateway and bodies that nobody can read leave a mark.
Refuses(a) == session' = [session EXCEPT ![a] = Calls!Refused(@)]
Garbles(a) == session' = [session EXCEPT ![a].garbled = TRUE]

LEMMA MarkEffect ==
  ASSUME Calls!TypeOK, NEW a \in Attempts,
         \/ Garbles(a)
         \/ Refuses(a) /\ session[a].state \in {"none", "open", "declined"}
  PROVE  /\ session' \in [Attempts -> Calls!Session]
         /\ \A b \in Attempts \ {a} : session'[b] = session[b]
         /\ session'[a].state = session[a].state
         /\ session'[a].at = session[a].at /\ session'[a].authority = session[a].authority
         /\ session[a].refused \subseteq session'[a].refused
         /\ session[a].garbled => session'[a].garbled
         /\ session'[a].garbled \/ session[a].state \in session'[a].refused
<1>1. session[a] \in Calls!Session
  BY DEF Calls!TypeOK
<1>2. CASE Refuses(a) /\ session[a].state \in {"none", "open", "declined"}
  <2>1. PICK new : new = Calls!Refused(session[a])
    OBVIOUS
  <2>2. new \in Calls!Session
    BY <1>1, <1>2, <2>1 DEF Calls!Refused, Calls!Session
  <2>3. /\ new.state = session[a].state /\ new.at = session[a].at
        /\ new.authority = session[a].authority /\ new.garbled = session[a].garbled
        /\ new.refused = session[a].refused \cup {session[a].state}
    BY <1>1, <2>1 DEF Calls!Refused, Calls!Session
  <2>4. session' = [session EXCEPT ![a] = new]
    BY <1>2, <2>1 DEF Refuses
  <2>5. session' \in [Attempts -> Calls!Session] /\ session'[a] = new
        /\ \A b \in Attempts \ {a} : session'[b] = session[b]
    BY <2>2, <2>4 DEF Calls!TypeOK
  <2>6. QED
    BY <2>3, <2>5
<1>3. CASE Garbles(a)
  <2>1. PICK new \in Calls!Session : new = [session[a] EXCEPT !.garbled = TRUE]
    BY <1>1 DEF Calls!Session
  <2>2. /\ new.state = session[a].state /\ new.at = session[a].at
        /\ new.authority = session[a].authority
        /\ new.garbled = TRUE /\ new.refused = session[a].refused
    BY <1>1, <2>1 DEF Calls!Session
  <2>3. session' \in [Attempts -> Calls!Session] /\ session'[a] = new
        /\ \A b \in Attempts \ {a} : session'[b] = session[b]
    BY <1>3, <2>1 DEF Calls!TypeOK, Garbles
  <2>4. QED
    BY <2>2, <2>3
<1>4. QED
  BY <1>2, <1>3

\* A step that marks a session and answers without success.
LEMMA NoSuccessStep ==
  ASSUME CallsInvariant, NEW w \in Workers, call[w].stage = "gateway",
         NEW a \in Attempts, a = call[w].attempt,
         UNCHANGED <<setting, payment>>, Calls!Answered(w, Calls!NoResult),
         \/ Garbles(a)
         \/ /\ Refuses(a)
            /\ \/ call[w].op = "initiate"
               \/ call[w].op = "verify" /\ session[a].state \in {"open", "declined"}
  PROVE  CallsInvariant'
<1>0. /\ call[w].op = "initiate" =>
            /\ payment[a].status = "PENDING" /\ payment[a].authority = None
            /\ session[a].state = "none"
      /\ call[w].op = "verify" => payment[a].authority # None
      /\ call[w].op \in {"initiate", "verify"}
      /\ call[w].outcome = "completed" => payment[a].status = "SUCCESS"
  BY BusyFacts DEF InitiationIsSound, VerificationIsSound, Initiating, Verifying
<1>1. /\ session' \in [Attempts -> Calls!Session]
      /\ \A b \in Attempts \ {a} : session'[b] = session[b]
      /\ session'[a].state = session[a].state
      /\ session'[a].at = session[a].at /\ session'[a].authority = session[a].authority
      /\ session[a].refused \subseteq session'[a].refused
      /\ session[a].garbled => session'[a].garbled
      /\ session'[a].garbled \/ session[a].state \in session'[a].refused
  <2>1. Garbles(a) \/ (Refuses(a) /\ session[a].state \in {"none", "open", "declined"})
    BY <1>0
  <2>2. Calls!TypeOK
    BY DEF CallsInvariant
  <2>3. QED
    BY <2>1, <2>2, MarkEffect
<1>2. call[w].op = "verify" =>
         \/ session'[a].garbled
         \/ session[a].state \in {"open", "declined"} \cap session'[a].refused
  <2>1. CASE Garbles(a)
    BY <2>1 DEF CallsInvariant, Calls!TypeOK, Calls!Session, Garbles
  <2>2. CASE ~Garbles(a)
    BY <1>0, <1>1, <2>2
  <2>3. QED
    BY <2>1, <2>2
<1>3. /\ call' \in [Workers -> Calls!Call] /\ OthersWait(w)
      /\ call'[w].op = call[w].op /\ call'[w].stage = "persist"
      /\ call'[w].attempt = a /\ call'[w].result = Calls!NoResult
      /\ call'[w].outcome = call[w].outcome
  BY AnsweredEffect, NoResultTyped DEF CallsInvariant
<1>4. AttemptMoves(a) /\ AttemptStays(a)
  BY <1>1 DEF AttemptMoves, AttemptStays, Decided
<1>5. SessionIsOfPayment(a)' /\ OutcomeIsOfSession(a)'
  <2>1. SessionIsOfPayment(a) /\ OutcomeIsOfSession(a) /\ payment' = payment
    BY DEF CallsInvariant
  <2>2. SessionIsOfPayment(a)'
    BY <1>1, <2>1 DEF SessionIsOfPayment
  <2>3. OutcomeIsOfSession(a)'
    BY <1>1, <2>1 DEF OutcomeIsOfSession
  <2>4. QED
    BY <2>2, <2>3
<1>6. Initiating(w)' => Initiating(w)
  BY <1>3 DEF Initiating
<1>7. CallIsSound(w)'
  <2>1. call'[w].result.success = FALSE
    BY <1>3, NoResultTyped
  <2>2. InitiationIsSound(w)'
    BY <1>0, <1>1, <1>3, <2>1 DEF InitiationIsSound, Initiating
  <2>3. VerificationIsSound(w)'
    BY <1>0, <1>1, <1>2, <1>3, <2>1 DEF VerificationIsSound, Verifying
  <2>4. QED
    BY <1>0, <1>3, <2>2, <2>3 DEF CallIsSound
<1>8. payment' \in [Attempts -> Calls!Row]
  BY DEF CallsInvariant, Calls!TypeOK
<1>9. QED
  BY <1>1, <1>3, <1>4, <1>5, <1>6, <1>7, <1>8, AttemptStep

LEMMA RefusedStep ==
  ASSUME CallsInvariant, NEW w \in Workers, Calls!SessionRefused(w) \/ Calls!UnreadableBody(w)
  PROVE  CallsInvariant'
<1>1. PICK a \in Attempts : a = call[w].attempt /\ call[w].stage = "gateway"
  BY BusyFacts DEF Calls!SessionRefused, Calls!Asks, Calls!Serves, Calls!UnreadableBody
<1>2. CASE Calls!SessionRefused(w)
  <2>1. /\ UNCHANGED <<setting, payment>> /\ Calls!Answered(w, Calls!NoResult)
        /\ Refuses(a) /\ call[w].op = "initiate"
    BY <1>1, <1>2 DEF Calls!SessionRefused, Calls!Asks, Calls!Serves, Refuses
  <2>2. QED
    BY <1>1, <2>1, NoSuccessStep
<1>3. CASE Calls!UnreadableBody(w)
  <2>1. /\ UNCHANGED <<setting, payment>> /\ Calls!Answered(w, Calls!NoResult)
        /\ Garbles(a)
    BY <1>1, <1>3 DEF Calls!UnreadableBody, Garbles
  <2>2. QED
    BY <1>1, <2>1, NoSuccessStep
<1>4. QED
  BY <1>2, <1>3

\* The payment of a request that verifies has one session, at its own gateway.
LEMMA FoundIsOwn ==
  ASSUME CallsInvariant, NEW a \in Attempts, payment[a].authority # None
  PROVE  Calls!Found(payment[a].gateway, payment[a].authority) = {a}
<1>1. /\ session[a].state # "none" /\ session[a].authority = payment[a].authority
      /\ session[a].at = payment[a].gateway
  BY DEF CallsInvariant, SessionIsOfPayment
<1>2. \A b \in Attempts : session[b].state # "none" /\ session[b].at = session[a].at
                             /\ session[b].authority = session[a].authority => b = a
  BY <1>1 DEF CallsInvariant, IssuedOnce
<1>3. QED
  BY <1>1, <1>2 DEF Calls!Found

LEMMA DeniedStep ==
  ASSUME CallsInvariant, NEW w \in Workers, Calls!PaymentDenied(w)
  PROVE  CallsInvariant'
<1>1. PICK a \in Attempts : /\ a = call[w].attempt /\ call[w].stage = "gateway"
                            /\ call[w].op = "verify" /\ payment[a].authority # None
  BY BusyFacts DEF Calls!PaymentDenied, Calls!Asks, Calls!Serves, VerificationIsSound
<1>2. Calls!Found(Calls!AskedGateway(a), payment[a].authority) = {a}
  BY <1>1, FoundIsOwn DEF Calls!AskedGateway
<1>3. session[a].state \in {"open", "declined"}
  BY <1>1, <1>2 DEF Calls!PaymentDenied
<1>4. session' = [b \in Attempts |-> IF b \in {a} THEN Calls!Refused(session[b]) ELSE session[b]]
  BY <1>1, <1>2 DEF Calls!PaymentDenied
<1>5. Refuses(a)
  BY <1>4 DEF CallsInvariant, Calls!TypeOK, Refuses
<1>6. UNCHANGED <<setting, payment>> /\ Calls!Answered(w, Calls!NoResult)
  BY DEF Calls!PaymentDenied
<1>7. QED
  BY <1>1, <1>3, <1>5, <1>6, NoSuccessStep

LEMMA PersistInitiationStep ==
  ASSUME CallsInvariant, NEW w \in Workers, Calls!PersistInitiation(w)
  PROVE  CallsInvariant'
<1>1. PICK a \in Attempts : /\ a = call[w].attempt /\ call[w].stage = "persist"
                            /\ call[w].op = "initiate" /\ payment[a].status = "PENDING"
                            /\ UNCHANGED <<setting, session>>
  BY BusyFacts DEF Calls!PersistInitiation, Calls!Serves
<1>2. /\ Initiating(w) /\ payment[a] \in Calls!Row /\ call[w] \in Calls!Call
      /\ payment[a].authority = None
      /\ call[w].result \in Calls!Result
      /\ call[w].result.success =>
            session[a].state # "none" /\ call[w].result.authority = session[a].authority
      /\ ~call[w].result.success =>
            session[a].state = "none" /\ (session[a].refused # {} \/ session[a].garbled)
  BY <1>1, BusyFacts DEF InitiationIsSound, CallsInvariant, Calls!TypeOK, Calls!Call
<1>3. SessionIsOfPayment(a) /\ session[a].state \notin Decided
  BY <1>2 DEF CallsInvariant, SessionIsOfPayment
<1>4. PICK new \in Calls!Row, outcome \in {"none", "rejected"} :
         /\ Calls!SaveRow(a, new) /\ Calls!Finish(w, outcome)
         /\ new.gateway = payment[a].gateway /\ new.status \in {"PENDING", "FAILED"}
         /\ new.status = "PENDING" =>
               session[a].state # "none" /\ new.authority = session[a].authority
         /\ new.status = "FAILED" =>
               /\ new.authority = None
               /\ session[a].state = "none" /\ (session[a].refused # {} \/ session[a].garbled)
  <2>1. CASE call[w].result.success
    <3>1. PICK new \in Calls!Row : new = [payment[a] EXCEPT !.authority = call[w].result.authority]
      BY <1>2 DEF Calls!Row, Calls!Result
    <3>2. /\ new.gateway = payment[a].gateway /\ new.status = "PENDING"
          /\ new.authority = session[a].authority
      BY <1>1, <1>2, <2>1, <3>1 DEF Calls!Row
    <3>3. Calls!SaveRow(a, new) /\ Calls!Finish(w, "none")
      BY <1>1, <2>1, <3>1 DEF Calls!PersistInitiation
    <3>4. QED
      BY <1>2, <2>1, <3>2, <3>3
  <2>2. CASE ~call[w].result.success
    <3>1. PICK new \in Calls!Row : new = [payment[a] EXCEPT !.status = "FAILED"]
      BY <1>2 DEF Calls!Row
    <3>2. /\ new.gateway = payment[a].gateway /\ new.status = "FAILED"
          /\ new.authority = None
      BY <1>2, <3>1 DEF Calls!Row
    <3>3. Calls!SaveRow(a, new) /\ Calls!Finish(w, "rejected")
      BY <1>1, <2>2, <3>1 DEF Calls!PersistInitiation
    <3>4. QED
      BY <1>2, <2>2, <3>2, <3>3
  <2>3. QED
    BY <2>1, <2>2
<1>5. /\ payment' \in [Attempts -> Calls!Row] /\ payment'[a] = new
      /\ \A b \in Attempts \ {a} : payment'[b] = payment[b]
  BY <1>4, RowReplaced DEF CallsInvariant
<1>6. /\ call' \in [Workers -> Calls!Call] /\ OthersWait(w)
      /\ call'[w].stage = "idle" /\ call'[w].outcome # "completed"
  BY <1>4, FinishEffect DEF CallsInvariant
<1>7. CallIsSound(w)' /\ ~Initiating(w)'
  BY <1>6, IdleIsSound
<1>8. AttemptMoves(a)
  BY <1>1, <1>2 DEF AttemptMoves, Decided
<1>9. SessionIsOfPayment(a)' /\ OutcomeIsOfSession(a)'
  BY <1>1, <1>3, <1>4, <1>5 DEF SessionIsOfPayment, OutcomeIsOfSession, Decided
<1>10. \A v \in Workers \ {w} : Initiating(v) => call[v].attempt # a
  BY <1>1, <1>2 DEF CallsInvariant, OneInitiation
<1>11. session' \in [Attempts -> Calls!Session]
  BY <1>1 DEF CallsInvariant, Calls!TypeOK
<1>12. QED
  BY <1>1, <1>5, <1>6, <1>7, <1>8, <1>9, <1>10, <1>11, AttemptStep

\* A callback is about a payment that has an authority: nobody is opening it.
LEMMA CallbackStep ==
  ASSUME CallsInvariant, NEW w \in Workers, NEW a \in Attempts,
         NEW ref \in Attempts \cup {None}, Calls!CallbackArrives(w, a, ref)
  PROVE  CallsInvariant'
<1>1. /\ payment[a].authority # None
      /\ Calls!Begin(w, "verify", "resolved", a, ref)
      /\ UNCHANGED <<setting, payment, session>>
  BY DEF Calls!CallbackArrives
<1>2. /\ call' \in [Workers -> Calls!Call] /\ OthersWait(w)
      /\ call'[w].op = "verify" /\ call'[w].stage = "resolved" /\ call'[w].attempt = a
      /\ call'[w].outcome = "none"
  BY <1>1, BeginEffect DEF CallsInvariant
<1>3. CallIsSound(w)' /\ ~Initiating(w)'
  BY <1>1, <1>2 DEF CallIsSound, InitiationIsSound, VerificationIsSound, Initiating, Verifying
<1>4. QED
  BY <1>1, <1>2, <1>3, CallStep

LEMMA StageSet ==
  ASSUME Calls!TypeOK, NEW w \in Workers, call' = [call EXCEPT ![w].stage = "gateway"]
  PROVE  /\ call' \in [Workers -> Calls!Call] /\ OthersWait(w)
         /\ call'[w].op = call[w].op /\ call'[w].stage = "gateway"
         /\ call'[w].attempt = call[w].attempt /\ call'[w].outcome = call[w].outcome
<1>1. call[w] \in Calls!Call
  BY DEF Calls!TypeOK
<1>2. PICK new \in Calls!Call : new = [call[w] EXCEPT !.stage = "gateway"]
  BY <1>1 DEF Calls!Call
<1>3. /\ new.op = call[w].op /\ new.stage = "gateway" /\ new.attempt = call[w].attempt
      /\ new.outcome = call[w].outcome
  BY <1>1, <1>2 DEF Calls!Call
<1>4. call' = [call EXCEPT ![w] = new]
  BY <1>2
<1>5. QED
  BY <1>3, <1>4, CallReplaced

\* Whoever ends with "completed" has found the payment successful.
LEMMA FinishedIsSound ==
  ASSUME CallsInvariant, NEW w \in Workers, call[w].stage # "idle",
         NEW outcome \in {"none", "completed", "rejected", "error"}, Calls!Finish(w, outcome),
         \A a \in Attempts : a = call[w].attempt =>
            (outcome = "completed" => payment'[a].status = "SUCCESS")
  PROVE  /\ CallIsSound(w)' /\ ~Initiating(w)'
         /\ call' \in [Workers -> Calls!Call] /\ OthersWait(w)
<1>1. /\ call' \in [Workers -> Calls!Call] /\ OthersWait(w)
      /\ call'[w].stage = "idle"
      /\ call'[w].outcome = "completed" =>
            outcome = "completed" /\ call'[w].attempt = call[w].attempt
  BY FinishEffect DEF CallsInvariant
<1>2. call[w].attempt \in Attempts
  BY BusyFacts
<1>3. QED
  BY <1>1, <1>2 DEF CallIsSound, InitiationIsSound, VerificationIsSound, Initiating, Verifying

LEMMA BeginVerificationStep ==
  ASSUME CallsInvariant, NEW w \in Workers, Calls!BeginVerification(w)
  PROVE  CallsInvariant'
<1>1. PICK a \in Attempts : /\ a = call[w].attempt /\ call[w].stage = "resolved"
                            /\ call[w].op = "verify"
                            /\ UNCHANGED <<setting, payment, session>>
  BY BusyFacts DEF Calls!BeginVerification, Calls!Serves
<1>2. CASE call' = [call EXCEPT ![w].stage = "gateway"]
  <2>1. /\ call' \in [Workers -> Calls!Call] /\ OthersWait(w)
        /\ call'[w].op = "verify" /\ call'[w].stage = "gateway"
        /\ call'[w].attempt = a /\ call'[w].outcome = call[w].outcome
    BY <1>1, <1>2, StageSet DEF CallsInvariant
  <2>2. CallIsSound(w)' /\ ~Initiating(w)'
    BY <1>1, <2>1, BusyFacts
       DEF CallIsSound, InitiationIsSound, VerificationIsSound, Initiating, Verifying
  <2>3. QED
    BY <1>1, <2>1, <2>2, CallStep
<1>3. ASSUME NEW outcome \in {"completed", "error"}, Calls!Finish(w, outcome),
             outcome = "completed" => payment[a].status = "SUCCESS"
      PROVE  CallsInvariant'
  <2>1. /\ CallIsSound(w)' /\ ~Initiating(w)'
        /\ call' \in [Workers -> Calls!Call] /\ OthersWait(w)
    BY <1>1, <1>3, FinishedIsSound
  <2>2. QED
    BY <1>1, <2>1, CallStep
<1>4. QED
  BY <1>1, <1>2, <1>3 DEF Calls!BeginVerification

LEMMA SuccessAnswered ==
  ASSUME CallsInvariant, NEW w \in Workers, call[w].stage # "idle",
         NEW a \in Attempts, a = call[w].attempt, payment' = payment,
         call'[w].op = "verify", call'[w].stage = "persist", call'[w].attempt = a,
         call'[w].outcome = call[w].outcome,
         payment[a].authority # None,
         call'[w].result.success, call'[w].result.reference \in {a, None},
         call'[w].result.amount = "full" => session'[a].state = "settled"
  PROVE  CallIsSound(w)' /\ ~Initiating(w)'
<1>1. call[w].outcome = "completed" => payment[a].status = "SUCCESS"
  BY BusyFacts
<1>2. ~Initiating(w)' /\ InitiationIsSound(w)'
  BY DEF InitiationIsSound, Initiating
<1>3. VerificationIsSound(w)'
  BY DEF VerificationIsSound, Verifying
<1>4. QED
  BY <1>1, <1>2, <1>3 DEF CallIsSound

LEMMA SettledStep ==
  ASSUME CallsInvariant, NEW w \in Workers, NEW b \in Attempts, Calls!PaymentSettled(w, b)
  PROVE  CallsInvariant'
<1>1. PICK a \in Attempts : /\ a = call[w].attempt /\ call[w].stage = "gateway"
                            /\ call[w].op = "verify"
                            /\ payment[a].authority # None
                            /\ UNCHANGED <<setting, payment>>
  BY BusyFacts DEF Calls!PaymentSettled, Calls!Asks, Calls!Serves, VerificationIsSound
<1>2. Calls!Found(Calls!AskedGateway(a), payment[a].authority) = {a}
  BY <1>1, FoundIsOwn DEF Calls!AskedGateway
<1>3. /\ b = a /\ session[a].state \in {"paid", "settled"}
      /\ session' = [session EXCEPT ![a].state = "settled"]
  BY <1>1, <1>2 DEF Calls!PaymentSettled
<1>4. /\ session' \in [Attempts -> Calls!Session]
      /\ \A c \in Attempts \ {a} : session'[c] = session[c]
      /\ session'[a].state = "settled"
      /\ session'[a].at = session[a].at /\ session'[a].authority = session[a].authority
      /\ session'[a].refused = session[a].refused /\ session'[a].garbled = session[a].garbled
  BY <1>3, StateSet DEF CallsInvariant
<1>5. AttemptMoves(a) /\ payment' \in [Attempts -> Calls!Row]
  BY <1>1, <1>3, <1>4 DEF AttemptMoves, Decided, CallsInvariant, Calls!TypeOK
<1>6. SessionIsOfPayment(a)' /\ OutcomeIsOfSession(a)'
  BY <1>1, <1>3, <1>4 DEF CallsInvariant, SessionIsOfPayment, OutcomeIsOfSession, Decided
<1>7. \A v \in Workers \ {w} : Initiating(v) => call[v].attempt # a
  BY <1>1 DEF CallsInvariant, CallIsSound, InitiationIsSound
<1>8. CASE Calls!Finish(w, "error")
  <2>1. /\ CallIsSound(w)' /\ ~Initiating(w)'
        /\ call' \in [Workers -> Calls!Call] /\ OthersWait(w)
    BY <1>1, <1>8, FinishedIsSound
  <2>2. QED
    BY <1>1, <1>3, <1>4, <1>5, <1>6, <1>7, <2>1, AttemptStep
<1>9. ASSUME NEW reference \in {a, None},
             Calls!Answered(w, [Calls!NoResult EXCEPT !.success = TRUE, !.reference = reference])
      PROVE  CallsInvariant'
  <2>1. PICK result \in Calls!Result :
           result = [Calls!NoResult EXCEPT !.success = TRUE, !.reference = reference]
    BY NoResultTyped DEF Calls!Result
  <2>2. result.success = TRUE /\ result.reference = reference
    BY <2>1, NoResultTyped DEF Calls!Result
  <2>3. /\ call' \in [Workers -> Calls!Call] /\ OthersWait(w)
        /\ call'[w].op = "verify" /\ call'[w].stage = "persist"
        /\ call'[w].attempt = a /\ call'[w].result = result
        /\ call'[w].outcome = call[w].outcome
    BY <1>1, <1>9, <2>1, AnsweredEffect DEF CallsInvariant
  <2>4. CallIsSound(w)' /\ ~Initiating(w)'
    BY <1>1, <1>4, <2>2, <2>3, SuccessAnswered DEF Decided
  <2>5. QED
    BY <1>1, <1>3, <1>4, <1>5, <1>6, <1>7, <2>3, <2>4, AttemptStep
<1>10. QED
  BY <1>3, <1>8, <1>9 DEF Calls!PaymentSettled

LEMMA ShortStep ==
  ASSUME CallsInvariant, NEW w \in Workers, NEW b \in Attempts,
         Calls!ShortPaymentReported(w, b)
  PROVE  CallsInvariant'
<1>1. PICK a \in Attempts : /\ a = call[w].attempt /\ call[w].stage = "gateway"
                            /\ call[w].op = "verify"
                            /\ payment[a].authority # None
                            /\ UNCHANGED <<setting, payment, session>>
  BY BusyFacts DEF Calls!ShortPaymentReported, Calls!Asks, Calls!Serves, VerificationIsSound
<1>2. Calls!Found(Calls!AskedGateway(a), payment[a].authority) = {a}
  BY <1>1, FoundIsOwn DEF Calls!AskedGateway
<1>3. b = a
  BY <1>1, <1>2 DEF Calls!ShortPaymentReported
<1>4. PICK result \in Calls!Result :
         result = [Calls!NoResult EXCEPT !.success = TRUE, !.amount = "short", !.reference = b]
  BY NoResultTyped DEF Calls!Result
<1>5. result.success = TRUE /\ result.amount = "short" /\ result.reference = a
  BY <1>3, <1>4, NoResultTyped DEF Calls!Result
<1>6. Calls!Answered(w, result)
  BY <1>4 DEF Calls!ShortPaymentReported
<1>7. /\ call' \in [Workers -> Calls!Call] /\ OthersWait(w)
      /\ call'[w].op = "verify" /\ call'[w].stage = "persist"
      /\ call'[w].attempt = a /\ call'[w].result = result
      /\ call'[w].outcome = call[w].outcome
  BY <1>1, <1>6, AnsweredEffect DEF CallsInvariant
<1>8. CallIsSound(w)' /\ ~Initiating(w)'
  BY <1>1, <1>5, <1>7, SuccessAnswered
<1>9. QED
  BY <1>1, <1>7, <1>8, CallStep

\* A success is persisted with the reference of the payment's own session, which
\* has settled the full amount; a failure, after a denial or an unreadable body.
LEMMA PersistVerificationStep ==
  ASSUME CallsInvariant, NEW w \in Workers, Calls!PersistVerification(w)
  PROVE  CallsInvariant'
<1>1. PICK a \in Attempts : /\ a = call[w].attempt /\ call[w].stage = "persist"
                            /\ call[w].op = "verify" /\ payment[a].status = "PENDING"
                            /\ UNCHANGED <<setting, session>>
  BY BusyFacts DEF Calls!PersistVerification, Calls!Serves
<1>2. /\ payment[a].authority # None
      /\ call[w].result.success =>
            /\ call[w].result.reference \in {a, None}
            /\ call[w].result.amount = "full" => session[a].state = "settled"
      /\ ~call[w].result.success =>
            \/ session[a].garbled \/ "open" \in session[a].refused
            \/ "declined" \in session[a].refused /\ session[a].state = "declined"
      /\ payment[a] \in Calls!Row
  BY <1>1, BusyFacts DEF VerificationIsSound, CallsInvariant, Calls!TypeOK
<1>3. SessionIsOfPayment(a)
  BY DEF CallsInvariant
<1>4. \A v \in Workers \ {w} : Initiating(v) => call[v].attempt # a
  BY <1>2 DEF CallsInvariant, CallIsSound, InitiationIsSound
<1>5. ASSUME NEW new \in Calls!Row, NEW outcome \in {"completed", "rejected"},
             Calls!SaveRow(a, new), Calls!Finish(w, outcome),
             new.gateway = payment[a].gateway, new.authority = payment[a].authority,
             outcome = "completed" => new.status = "SUCCESS",
             new.status \in {"SUCCESS", "FAILED"},
             new.status = "SUCCESS" => session[a].state = "settled" /\ new.reference = a,
             new.status = "FAILED" =>
                \/ session[a].garbled \/ "open" \in session[a].refused
                \/ "declined" \in session[a].refused /\ session[a].state = "declined"
      PROVE  CallsInvariant'
  <2>1. /\ payment' \in [Attempts -> Calls!Row] /\ payment'[a] = new
        /\ \A b \in Attempts \ {a} : payment'[b] = payment[b]
    BY <1>5, RowReplaced DEF CallsInvariant
  <2>2. /\ CallIsSound(w)' /\ ~Initiating(w)'
        /\ call' \in [Workers -> Calls!Call] /\ OthersWait(w)
    BY <1>1, <1>5, <2>1, FinishedIsSound
  <2>3. AttemptMoves(a) /\ session' \in [Attempts -> Calls!Session]
    BY <1>1, <1>5, <2>1 DEF AttemptMoves, CallsInvariant, Calls!TypeOK
  <2>4. SessionIsOfPayment(a)' /\ OutcomeIsOfSession(a)'
    BY <1>1, <1>2, <1>3, <1>5, <2>1 DEF SessionIsOfPayment, OutcomeIsOfSession
  <2>5. QED
    BY <1>1, <1>4, <2>1, <2>2, <2>3, <2>4, AttemptStep
<1>6. CASE call[w].result.success /\ Calls!Evidence(call[w].result, call[w].ref)
  <2>1. call[w].result.reference = a /\ session[a].state = "settled"
    BY <1>2, <1>6 DEF Calls!Evidence, Calls!InFull
  <2>2. PICK new \in Calls!Row :
           new = [payment[a] EXCEPT !.status = "SUCCESS", !.reference = a]
    BY <1>2 DEF Calls!Row
  <2>3. /\ new.gateway = payment[a].gateway /\ new.authority = payment[a].authority
        /\ new.status = "SUCCESS" /\ new.reference = a
    BY <1>2, <2>2 DEF Calls!Row
  <2>4. Calls!SaveRow(a, new) /\ Calls!Finish(w, "completed")
    BY <1>1, <1>6, <2>1, <2>2 DEF Calls!PersistVerification
  <2>5. QED
    BY <1>5, <2>1, <2>3, <2>4
<1>7. CASE call[w].result.success /\ ~Calls!Evidence(call[w].result, call[w].ref)
  <2>1. UNCHANGED <<setting, payment, session>> /\ Calls!Finish(w, "error")
    BY <1>1, <1>7 DEF Calls!PersistVerification
  <2>2. /\ CallIsSound(w)' /\ ~Initiating(w)'
        /\ call' \in [Workers -> Calls!Call] /\ OthersWait(w)
    BY <1>1, <2>1, FinishedIsSound
  <2>3. QED
    BY <2>1, <2>2, CallStep
<1>8. CASE ~call[w].result.success
  <2>1. PICK new \in Calls!Row : new = [payment[a] EXCEPT !.status = "FAILED"]
    BY <1>2 DEF Calls!Row
  <2>2. /\ new.gateway = payment[a].gateway /\ new.authority = payment[a].authority
        /\ new.status = "FAILED"
    BY <1>2, <2>1 DEF Calls!Row
  <2>3. Calls!SaveRow(a, new) /\ Calls!Finish(w, "rejected")
    BY <1>1, <1>8, <2>1 DEF Calls!PersistVerification
  <2>4. QED
    BY <1>2, <1>5, <1>8, <2>2, <2>3
<1>9. QED
  BY <1>6, <1>7, <1>8

LEMMA PersistDuplicateStep ==
  ASSUME CallsInvariant, NEW w \in Workers, Calls!PersistDuplicate(w)
  PROVE  CallsInvariant'
<1>1. PICK a \in Attempts : /\ a = call[w].attempt /\ call[w].stage = "persist"
                            /\ UNCHANGED <<setting, payment, session>>
  BY BusyFacts DEF Calls!PersistDuplicate, Calls!Serves
<1>2. PICK outcome \in {"completed", "error"} :
         /\ Calls!Finish(w, outcome)
         /\ outcome = "completed" => payment[a].status = "SUCCESS"
  BY <1>1 DEF Calls!PersistDuplicate, Calls!Agrees
<1>3. /\ CallIsSound(w)' /\ ~Initiating(w)'
      /\ call' \in [Workers -> Calls!Call] /\ OthersWait(w)
  BY <1>1, <1>2, FinishedIsSound
<1>4. QED
  BY <1>1, <1>3, CallStep

\* A change of the default gateway concerns payments that are not there yet.
LEMMA SettingStep ==
  ASSUME CallsInvariant, UNCHANGED <<payment, session, call>>, setting' \in Gateways
  PROVE  CallsInvariant'
<1>1. Calls!TypeOK' /\ IssuedOnce' /\ OneInitiation'
  BY DEF CallsInvariant, Calls!TypeOK, IssuedOnce, OneInitiation, Initiating
<1>2. \A a \in Attempts : SessionIsOfPayment(a)' /\ OutcomeIsOfSession(a)'
  BY DEF CallsInvariant, SessionIsOfPayment, OutcomeIsOfSession
<1>3. \A w \in Workers : CallIsSound(w)'
  BY DEF CallsInvariant, CallIsSound, InitiationIsSound, VerificationIsSound, Initiating, Verifying
<1>4. QED
  BY <1>1, <1>2, <1>3 DEF CallsInvariant

LEMMA CallsInit == Calls!Init => CallsInvariant
<1> SUFFICES ASSUME Calls!Init PROVE CallsInvariant
  OBVIOUS
<1>1. Calls!TypeOK
  BY NoResultTyped DEF Calls!Init, Calls!TypeOK
<1>2. \A a \in Attempts : payment[a] = Calls!NoRow /\ session[a] = Calls!NoSession
  BY DEF Calls!Init
<1>3. \A w \in Workers : call[w] = Calls!Idle
  BY DEF Calls!Init
<1>4. \A a \in Attempts : SessionIsOfPayment(a) /\ OutcomeIsOfSession(a)
  BY <1>2, NoResultTyped DEF SessionIsOfPayment, OutcomeIsOfSession, Decided
<1>5. IssuedOnce /\ OneInitiation
  BY <1>2, <1>3, NoResultTyped DEF IssuedOnce, OneInitiation, Initiating
<1>6. \A w \in Workers : CallIsSound(w)
  BY <1>3, NoResultTyped
     DEF CallIsSound, InitiationIsSound, VerificationIsSound, Initiating, Verifying
<1>7. QED
  BY <1>1, <1>4, <1>5, <1>6 DEF CallsInvariant

LEMMA CallsStep == CallsInvariant /\ [Calls!Next]_callVars => CallsInvariant'
<1> SUFFICES ASSUME CallsInvariant, [Calls!Next]_callVars PROVE CallsInvariant'
  OBVIOUS
<1>1. CASE (\E g \in Gateways : Calls!SettingChanges(g)) \/ UNCHANGED callVars
  <2>1. UNCHANGED <<payment, session, call>> /\ setting' \in Gateways
    BY <1>1 DEF Calls!SettingChanges, callVars, CallsInvariant, Calls!TypeOK
  <2>2. QED
    BY <2>1, SettingStep
<1>2. ASSUME NEW a \in Attempts,
             Calls!CustomerPays(a) \/ Calls!CustomerPaysShort(a) \/ Calls!CustomerDeclines(a)
      PROVE  CallsInvariant'
  BY <1>2, CustomerStep
     DEF Calls!CustomerPays, Calls!CustomerPaysShort, Calls!CustomerDeclines
<1>3. ASSUME NEW w \in Workers, NEW a \in Attempts, Calls!StartPayment(w, a)
      PROVE  CallsInvariant'
  BY <1>3, StartStep
<1>4. ASSUME NEW w \in Workers, NEW authority \in Issued, Calls!SessionOpened(w, authority)
      PROVE  CallsInvariant'
  BY <1>4, OpenStep
<1>5. ASSUME NEW w \in Workers, NEW a \in Attempts,
             NEW ref \in Attempts \cup {None}, Calls!CallbackArrives(w, a, ref)
      PROVE  CallsInvariant'
  BY <1>5, CallbackStep
<1>6. ASSUME NEW w \in Workers, NEW b \in Attempts,
             Calls!PaymentSettled(w, b) \/ Calls!ShortPaymentReported(w, b)
      PROVE  CallsInvariant'
  BY <1>6, SettledStep, ShortStep
<1>7. ASSUME NEW w \in Workers,
             \/ Calls!Unsupported(w) \/ Calls!Lost(w) \/ Calls!WorkerDies(w)
             \/ Calls!SessionRefused(w) \/ Calls!PersistInitiation(w)
             \/ Calls!BeginVerification(w) \/ Calls!PaymentDenied(w) \/ Calls!UnreadableBody(w)
             \/ Calls!PersistVerification(w) \/ Calls!PersistDuplicate(w)
      PROVE  CallsInvariant'
  BY <1>7, EndStep, RefusedStep, PersistInitiationStep, BeginVerificationStep, DeniedStep,
     PersistVerificationStep, PersistDuplicateStep
<1>8. QED
  BY <1>1, <1>2, <1>3, <1>4, <1>5, <1>6, <1>7 DEF Calls!Next

\* Every result in flight is about the payment's own session.  A settlement stays
\* true until it is saved, and so does a refusal of a customer who has decided.
THEOREM CallsInvariantHolds == Calls!Spec => []CallsInvariant
  BY CallsInit, CallsStep, PTL DEF Calls!Spec, Calls!vars, callVars

\* A payment succeeds by a settlement of its own in full, and a customer is told
\* of a success only of such a payment: for any gateways that issue what they
\* like, callbacks that claim what they like, and workers that die.
THEOREM SuccessStaysSettled ==
    Calls!Spec => [](Calls!SuccessIsSettled /\ Calls!CompletedIsSuccessful)
<1>1. CallsInvariant => Calls!SuccessIsSettled
  BY DEF CallsInvariant, SessionIsOfPayment, OutcomeIsOfSession, Calls!SuccessIsSettled
<1>2. CallsInvariant => Calls!CompletedIsSuccessful
  BY DEF CallsInvariant, CallIsSound, Calls!CompletedIsSuccessful
<1>3. QED
  BY <1>1, <1>2, CallsInvariantHolds, PTL

\* A failed payment was refused by its own gateway, or its answer was unreadable;
\* there is money under it only after an unreadable answer or an early refusal.
THEOREM FailureStaysRefusal ==
    Calls!Spec => [](Calls!FailureIsRefusal /\ Calls!FailedIsUnpaid)
<1>1. CallsInvariant => Calls!FailureIsRefusal /\ Calls!FailedIsUnpaid
  BY DEF CallsInvariant, OutcomeIsOfSession, Calls!FailureIsRefusal, Calls!FailedIsUnpaid
<1>2. QED
  BY <1>1, CallsInvariantHolds, PTL

(***************************************************************************)
(* The two views together.                                                 *)
(***************************************************************************)
\* What happens in one view, the other does not see.
THEOREM ViewsAreApart == ViewsSpec => Spec /\ Calls!Spec
<1>1. ViewsInit => Init /\ Calls!Init
  BY DEF ViewsInit
<1>2. [ViewsNext]_<<view, vars, callVars>> => [Next]_vars /\ [Calls!Next]_callVars
  BY DEF ViewsNext
<1>3. QED
  BY <1>1, <1>2, PTL DEF ViewsSpec, Spec, Calls!Spec, Calls!vars, callVars

\* Every attempt, payment, session and request keeps its type.
THEOREM ViewsKeepTypes == ViewsSpec => []ViewsTyped
<1>1. CallsInvariant => Calls!TypeOK
  BY DEF CallsInvariant
<1>2. QED
  BY <1>1, ViewsAreApart, TypeCorrect, CallsInvariantHolds, PTL DEF ViewsTyped

\* Behind every successful payment there is a settlement of its own, and nobody
\* is told of a success without one.
THEOREM ViewsSettleSuccess == ViewsSpec => []SuccessIsSettled
  BY ViewsAreApart, SuccessStaysSettled, PTL DEF SuccessIsSettled

\* A payment fails by a refusal of its own gateway or an unreadable body, and has
\* money under it only if the refusal came before the customer's decision.
THEOREM ViewsRefuseFailure == ViewsSpec => []FailureIsRefusal
  BY ViewsAreApart, FailureStaysRefusal, PTL DEF FailureIsRefusal
=============================================================================
