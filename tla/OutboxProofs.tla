---------------------------- MODULE OutboxProofs ----------------------------
(***************************************************************************)
(* Proofs about Outbox, for any number of events, processors and crashes,  *)
(* any batch size, any limit of retries and any handlers.                  *)
(***************************************************************************)
EXTENDS Outbox, TLAPS

(***************************************************************************)
(* The inductive invariant.                                                *)
(***************************************************************************)
\* SKIP LOCKED: no event is in two batches, and what is locked stays pending.
BatchesDisjoint ==
    \A p, q \in Processors : p # q => processor[p].batch \cap processor[q].batch = {}
BatchesPending ==
    \A p \in Processors :
        /\ processor[p].todo \subseteq processor[p].batch
        /\ \A e \in processor[p].batch : Pending(e)

\* What a row that is about to be written may claim.
Justified(e, row) ==
    /\ row.status # "none"
    /\ row.status = "processed" => \A i \in 1 .. Handlers[e] : sent[e][i] > 0
    /\ row.retry_count <= raised[e]
    /\ row.status = "failed" => raised[e] >= MaxRetry
    /\ row.status = "pending" => row.retry_count < MaxRetry

RowsJustified ==
    \A p \in Processors :
        /\ \A e \in processor[p].todo : processor[p].saved[e] = event[e]
        /\ \A e \in processor[p].batch \ processor[p].todo : Justified(e, processor[p].saved[e])

HandlersInOrder ==
    \A p \in Processors, e \in Events : AtHand(p, e) =>
        /\ processor[p].done <= Handlers[e]
        /\ \A i \in 1 .. processor[p].done : sent[e][i] > 0

\* The one message to handler i that needs no excuse: its event is processed, or
\* is on its way to be.
OnItsWay(e, i) ==
    \/ event[e].status = "processed"
    \/ \E p \in Processors :
          \/ AtHand(p, e) /\ i <= processor[p].done
          \/ e \in processor[p].batch \ processor[p].todo /\ processor[p].saved[e].status = "processed"
Excused(e, i) ==
    \/ sent[e][i] <= raised[e] + crashes
    \/ OnItsWay(e, i) /\ sent[e][i] <= 1 + raised[e] + crashes
RepeatsExcused == \A e \in Events, i \in 1 .. MaxHandlers : Excused(e, i)

OutboxInvariant ==
    /\ TypeOK /\ BatchesDisjoint /\ BatchesPending /\ RowsJustified /\ HandlersInOrder
    /\ RepeatsExcused /\ ProcessedWasSent /\ FailedWasRetried

SettledStep == \A e \in Events : Settled(e) => event'[e] = event[e]

(***************************************************************************)
(* Types.                                                                  *)
(***************************************************************************)
LEMMA RowsTyped ==
  /\ \A s \in OutboxStatus, n \in Nat : Row(s, n) \in EventRow
  /\ \A s, n : Row(s, n).status = s /\ Row(s, n).retry_count = n
  /\ \A row \in EventRow : row.status \in OutboxStatus /\ row.retry_count \in Nat
  BY DEF Row, EventRow

LEMMA BatchesTyped ==
  /\ \A b, t \in SUBSET Events, n \in Nat, s \in [Events -> EventRow] : NewBatch(b, t, n, s) \in Batch
  /\ \A b, t, n, s : /\ NewBatch(b, t, n, s).batch = b /\ NewBatch(b, t, n, s).todo = t
                     /\ NewBatch(b, t, n, s).done = n /\ NewBatch(b, t, n, s).saved = s
  /\ \A r \in Batch : /\ r.batch \subseteq Events /\ r.todo \subseteq Events
                      /\ r.done \in Nat /\ r.saved \in [Events -> EventRow]
  BY DEF NewBatch, Batch

LEMMA IdleTyped == Idle \in Batch /\ Idle.batch = {} /\ Idle.todo = {} /\ Idle.done = 0
<1>1. [e \in Events |-> Row("none", 0)] \in [Events -> EventRow]
  BY RowsTyped DEF OutboxStatus
<1>2. QED
  BY <1>1, BatchesTyped DEF Idle

LEMMA FailureTyped ==
  ASSUME NEW row \in EventRow, row.status # "none"
  PROVE  /\ AfterFailure(row) \in EventRow
         /\ AfterFailure(row).retry_count = row.retry_count + 1
         /\ AfterFailure(row).status # "none"
         /\ row.status # "processed" => AfterFailure(row).status # "processed"
         /\ row.status = "pending" /\ AfterFailure(row).status = "failed" => row.retry_count + 1 >= MaxRetry
         /\ AfterFailure(row).status = "pending" => row.retry_count + 1 < MaxRetry
<1>1. row.status \in OutboxStatus /\ row.retry_count \in Nat /\ MaxRetry \in Nat
  BY RowsTyped, OutboxAssumption
<1>2. row.retry_count + 1 \in Nat
  BY <1>1
<1>3. CASE row.retry_count + 1 >= MaxRetry
  <2>1. AfterFailure(row) = Row("failed", row.retry_count + 1)
    BY <1>3 DEF AfterFailure
  <2>2. QED
    BY <1>2, <1>3, <2>1, RowsTyped DEF OutboxStatus
<1>4. CASE ~(row.retry_count + 1 >= MaxRetry)
  <2>1. AfterFailure(row) = Row(row.status, row.retry_count + 1)
    BY <1>4 DEF AfterFailure
  <2>2. AfterFailure(row).retry_count = row.retry_count + 1 /\ AfterFailure(row).status = row.status
    BY <2>1, RowsTyped
  <2>3. AfterFailure(row) \in EventRow
    BY <1>1, <1>2, <2>1, RowsTyped
  <2>4. row.retry_count + 1 < MaxRetry
    BY <1>1, <1>4
  <2>5. row.status = "pending" => AfterFailure(row).status # "failed"
    BY <2>2
  <2>6. QED
    BY <2>2, <2>3, <2>4, <2>5
<1>5. QED
  BY <1>3, <1>4

\* What every lemma about a step needs of the types.
LEMMA StateTyped ==
  ASSUME TypeOK
  PROVE  /\ \A e \in Events : event[e] \in EventRow /\ raised[e] \in Nat
         /\ \A e \in Events, i \in 1 .. MaxHandlers : sent[e][i] \in Nat
         /\ \A p \in Processors : processor[p] \in Batch
         /\ crashes \in Nat /\ MaxRetry \in Nat
         /\ \A e \in Events : e \in Nat
         /\ MaxHandlers \in Nat
         /\ \A e \in Events : Handlers[e] \in Nat /\ Handlers[e] <= MaxHandlers
         /\ \A e \in Events : \A i \in 1 .. Handlers[e] : i \in 1 .. MaxHandlers
<1>1. MaxHandlers \in Nat /\ \A e \in Events : Handlers[e] \in 0 .. MaxHandlers
  BY OutboxAssumption
<1>2. \A e \in Events : Handlers[e] \in Nat /\ Handlers[e] <= MaxHandlers
  BY <1>1
<1>3. \A e \in Events : \A i \in 1 .. Handlers[e] : i \in 1 .. MaxHandlers
  BY <1>1, <1>2
<1>4. \A e \in Events, i \in 1 .. MaxHandlers : sent[e][i] \in Nat
  BY DEF TypeOK
<1>5. QED
  BY <1>1, <1>2, <1>3, <1>4, OutboxAssumption DEF TypeOK

\* One message more is counted.
LEMMA SendsTyped ==
  ASSUME TypeOK, NEW x \in Events, NEW i \in 1 .. MaxHandlers, NEW n \in {0, 1}, Sends(x, i, n)
  PROVE  /\ sent' \in [Events -> [1 .. MaxHandlers -> Nat]]
         /\ sent'[x][i] = sent[x][i] + n
         /\ \A e \in Events, j \in 1 .. MaxHandlers : e # x \/ j # i => sent'[e][j] = sent[e][j]
         /\ \A e \in Events, j \in 1 .. MaxHandlers : sent[e][j] > 0 => sent'[e][j] > 0
<1> DEFINE H == 1 .. MaxHandlers
<1>1. sent \in [Events -> [H -> Nat]] /\ i \in H
  BY DEF TypeOK
<1>2. sent' = [sent EXCEPT ![x] = [sent[x] EXCEPT ![i] = sent[x][i] + n]]
  BY <1>1 DEF Sends
<1>3. sent[x][i] \in Nat /\ sent[x][i] + n \in Nat
  <2>1. sent[x][i] \in Nat
    BY StateTyped DEF H
  <2>2. n \in Nat
    OBVIOUS
  <2>3. QED
    BY <2>1, <2>2
<1> HIDE DEF H
<1>4. [sent[x] EXCEPT ![i] = sent[x][i] + n] \in [H -> Nat]
  BY <1>1, <1>3
<1>5. sent' \in [Events -> [H -> Nat]]
  BY <1>1, <1>2, <1>4
<1>6. /\ sent'[x][i] = sent[x][i] + n
      /\ \A e \in Events, j \in H : e # x \/ j # i => sent'[e][j] = sent[e][j]
  BY <1>1, <1>2
<1>7. sent[x][i] > 0 => sent'[x][i] > 0
  BY <1>3, <1>6
<1>8. \A e \in Events, j \in H : sent[e][j] > 0 => sent'[e][j] > 0
  BY <1>6, <1>7
<1>9. QED
  BY <1>5, <1>6, <1>8 DEF H

LEMMA BatchChanges ==
  ASSUME TypeOK, NEW p \in Processors, NEW b \in Batch, SetBatch(p, b)
  PROVE  /\ processor' \in [Processors -> Batch] /\ processor'[p] = b
         /\ \A q \in Processors : q # p => processor'[q] = processor[q]
         /\ \A q \in Processors, e \in Events : q # p => (AtHand(q, e)' <=> AtHand(q, e))
<1>1. /\ processor' \in [Processors -> Batch] /\ processor'[p] = b
      /\ \A q \in Processors : q # p => processor'[q] = processor[q]
  BY DEF SetBatch, TypeOK
<1>2. QED
  BY <1>1 DEF AtHand

\* A loop has one event at hand.
LEMMA OneAtHand ==
  ASSUME TypeOK, NEW p \in Processors, NEW e \in Events, NEW f \in Events, AtHand(p, e), AtHand(p, f)
  PROVE  e = f
  BY OutboxAssumption, StateTyped DEF AtHand

(***************************************************************************)
(* A transaction publishes an event.                                       *)
(***************************************************************************)
LEMMA PublishKeeps ==
  ASSUME OutboxInvariant, NEW x \in Events, publish_event(x)
  PROVE  OutboxInvariant' /\ SettledStep
<1> DEFINE row == Row("pending", 0)
<1>1. /\ event[x].status = "none" /\ event' = [event EXCEPT ![x] = row]
      /\ UNCHANGED <<processor, sent, raised, passed, crashes>>
  BY DEF publish_event
<1>2. row \in EventRow /\ row.status = "pending" /\ row.retry_count = 0
  BY RowsTyped DEF OutboxStatus
<1> HIDE DEF row
<1>3. TypeOK'
  BY <1>1, <1>2 DEF OutboxInvariant, TypeOK
<1>4. event'[x] = row /\ \A e \in Events : e # x => event'[e] = event[e]
  BY <1>1 DEF OutboxInvariant, TypeOK
<1>5. \A p \in Processors : x \notin processor[p].batch
  BY <1>1 DEF OutboxInvariant, BatchesPending, Pending
<1>6. BatchesDisjoint'
  BY <1>1 DEF OutboxInvariant, BatchesDisjoint
<1>7. BatchesPending'
  <2>1. SUFFICES ASSUME NEW p \in Processors
                 PROVE  /\ processor[p].todo \subseteq processor[p].batch
                        /\ \A e \in processor[p].batch : Pending(e)'
    BY <1>1 DEF BatchesPending
  <2>2. processor[p].batch \subseteq Events
    BY StateTyped, BatchesTyped DEF OutboxInvariant
  <2>3. QED
    BY <1>4, <1>5, <2>2 DEF OutboxInvariant, BatchesPending, Pending
<1>8. RowsJustified'
  <2>1. SUFFICES ASSUME NEW p \in Processors
                 PROVE  /\ \A e \in processor[p].todo : processor[p].saved[e] = event'[e]
                        /\ \A e \in processor[p].batch \ processor[p].todo :
                              Justified(e, processor[p].saved[e])'
    BY <1>1 DEF RowsJustified
  <2>2. processor[p].batch \subseteq Events /\ processor[p].todo \subseteq processor[p].batch
    BY StateTyped, BatchesTyped DEF OutboxInvariant, BatchesPending
  <2>3. \A e \in processor[p].batch \ processor[p].todo : Justified(e, processor[p].saved[e])'
    BY <1>1 DEF OutboxInvariant, RowsJustified, Justified
  <2>4. QED
    BY <1>4, <1>5, <2>2, <2>3 DEF OutboxInvariant, RowsJustified
<1>9. HandlersInOrder'
  BY <1>1 DEF OutboxInvariant, HandlersInOrder, AtHand
<1>10. RepeatsExcused'
  <2>1. SUFFICES ASSUME NEW e \in Events, NEW i \in 1 .. MaxHandlers
                 PROVE  Excused(e, i)'
    BY DEF RepeatsExcused
  <2>2. OnItsWay(e, i) => OnItsWay(e, i)'
    BY <1>1, <1>4 DEF OnItsWay, AtHand
  <2>3. QED
    BY <1>1, <2>2 DEF OutboxInvariant, RepeatsExcused, Excused
<1>11. ProcessedWasSent'
  BY <1>1, <1>2, <1>4 DEF OutboxInvariant, ProcessedWasSent
<1>12. FailedWasRetried'
  <2>1. 0 <= raised[x] /\ 0 < MaxRetry
    BY OutboxAssumption, StateTyped DEF OutboxInvariant
  <2>2. QED
    BY <1>1, <1>2, <1>4, <2>1 DEF OutboxInvariant, FailedWasRetried
<1>13. SettledStep
  BY <1>1, <1>4 DEF SettledStep, Settled
<1>14. QED
  BY <1>3, <1>6, <1>7, <1>8, <1>9, <1>10, <1>11, <1>12, <1>13 DEF OutboxInvariant

(***************************************************************************)
(* A batch begins.                                                         *)
(***************************************************************************)
LEMMA BeginBatchKeeps ==
  ASSUME OutboxInvariant, NEW p \in Processors, BeginBatch(p)
  PROVE  OutboxInvariant' /\ SettledStep
<1>1. PICK batch \in SUBSET {e \in Events : Pending(e) /\ ~Locked(e)} :
         SetBatch(p, NewBatch(batch, batch, 0, event))
  BY DEF BeginBatch
<1>2. processor[p].batch = {} /\ UNCHANGED <<event, sent, raised, crashes>>
  BY DEF BeginBatch
<1> DEFINE b == NewBatch(batch, batch, 0, event)
<1>3. b \in Batch /\ b.batch = batch /\ b.todo = batch /\ b.done = 0 /\ b.saved = event
  <2>1. batch \in SUBSET Events /\ event \in [Events -> EventRow] /\ 0 \in Nat
    BY <1>1 DEF OutboxInvariant, TypeOK
  <2>2. QED
    BY <2>1, BatchesTyped
<1>4. SetBatch(p, b)
  BY <1>1
<1> HIDE DEF b
<1>5. /\ processor' \in [Processors -> Batch] /\ processor'[p] = b
      /\ \A q \in Processors : q # p => processor'[q] = processor[q]
      /\ \A q \in Processors, e \in Events : q # p => (AtHand(q, e)' <=> AtHand(q, e))
  BY <1>3, <1>4, BatchChanges DEF OutboxInvariant
<1>6. TypeOK'
  <2>1. PICK events : PassesOver(events)
    BY DEF BeginBatch
  <2>2. passed' \in [Events -> Nat]
    BY <2>1 DEF PassesOver, OutboxInvariant, TypeOK
  <2>3. QED
    BY <1>2, <1>5, <2>2 DEF OutboxInvariant, TypeOK
<1>7. BatchesDisjoint'
  <2>1. \A q \in Processors : q # p => processor[q].batch \cap batch = {}
    BY <1>1 DEF Locked
  <2>2. QED
    BY <1>3, <1>5, <2>1 DEF OutboxInvariant, BatchesDisjoint
<1>8. BatchesPending'
  BY <1>1, <1>2, <1>3, <1>5 DEF OutboxInvariant, BatchesPending, Pending
<1>9. RowsJustified'
  BY <1>2, <1>3, <1>5 DEF OutboxInvariant, RowsJustified, Justified
<1>10. HandlersInOrder'
  <2>1. SUFFICES ASSUME NEW q \in Processors, NEW e \in Events, AtHand(q, e)'
                 PROVE  /\ processor'[q].done <= Handlers[e]
                        /\ \A i \in 1 .. processor'[q].done : sent[e][i] > 0
    BY <1>2 DEF HandlersInOrder
  <2>2. CASE q = p
    BY <1>3, <1>5, <2>2, StateTyped DEF OutboxInvariant
  <2>3. CASE q # p
    BY <1>5, <2>1, <2>3 DEF OutboxInvariant, HandlersInOrder
  <2>4. QED
    BY <2>2, <2>3
<1>11. RepeatsExcused'
  <2>1. SUFFICES ASSUME NEW e \in Events, NEW i \in 1 .. MaxHandlers
                 PROVE  Excused(e, i)'
    BY DEF RepeatsExcused
  <2>2. ~AtHand(p, e)
    BY <1>2 DEF OutboxInvariant, BatchesPending, AtHand
  <2>3. OnItsWay(e, i) => OnItsWay(e, i)'
    BY <1>2, <1>5, <2>2 DEF OnItsWay
  <2>4. QED
    BY <1>2, <2>3 DEF OutboxInvariant, RepeatsExcused, Excused
<1>12. ProcessedWasSent' /\ FailedWasRetried' /\ SettledStep
  BY <1>2 DEF OutboxInvariant, ProcessedWasSent, FailedWasRetried, SettledStep
<1>13. QED
  BY <1>6, <1>7, <1>8, <1>9, <1>10, <1>11, <1>12 DEF OutboxInvariant

(***************************************************************************)
(* A batch is rolled back.                                                 *)
(***************************************************************************)
LEMMA CrashKeeps ==
  ASSUME OutboxInvariant, NEW p \in Processors, Crash(p)
  PROVE  OutboxInvariant' /\ SettledStep
<1>1. SetBatch(p, Idle) /\ crashes' = crashes + 1 /\ UNCHANGED <<event, sent, raised, passed>>
  BY DEF Crash
<1>2. /\ processor' \in [Processors -> Batch] /\ processor'[p] = Idle
      /\ \A q \in Processors : q # p => processor'[q] = processor[q]
      /\ \A q \in Processors, e \in Events : q # p => (AtHand(q, e)' <=> AtHand(q, e))
  BY <1>1, IdleTyped, BatchChanges DEF OutboxInvariant
<1>3. TypeOK'
  BY <1>1, <1>2 DEF OutboxInvariant, TypeOK
<1>4. BatchesDisjoint'
  BY <1>2, IdleTyped DEF OutboxInvariant, BatchesDisjoint
<1>5. BatchesPending'
  BY <1>1, <1>2, IdleTyped DEF OutboxInvariant, BatchesPending, Pending
<1>6. RowsJustified'
  BY <1>1, <1>2, IdleTyped DEF OutboxInvariant, RowsJustified, Justified
<1>7. HandlersInOrder'
  <2>1. SUFFICES ASSUME NEW q \in Processors, NEW e \in Events, AtHand(q, e)'
                 PROVE  /\ processor'[q].done <= Handlers[e]
                        /\ \A i \in 1 .. processor'[q].done : sent[e][i] > 0
    BY <1>1 DEF HandlersInOrder
  <2>2. q # p
    BY <1>2, <2>1, IdleTyped DEF AtHand
  <2>3. QED
    BY <1>2, <2>1, <2>2 DEF OutboxInvariant, HandlersInOrder
<1>8. RepeatsExcused'
  <2>1. SUFFICES ASSUME NEW e \in Events, NEW i \in 1 .. MaxHandlers
                 PROVE  sent'[e][i] <= raised'[e] + crashes'
    BY DEF RepeatsExcused, Excused
  <2>2. Excused(e, i) /\ sent[e][i] \in Nat /\ raised[e] \in Nat /\ crashes \in Nat
    BY StateTyped DEF OutboxInvariant, RepeatsExcused
  <2>3. sent[e][i] <= 1 + raised[e] + crashes
    BY <2>2 DEF Excused
  <2>4. QED
    BY <1>1, <2>2, <2>3
<1>9. ProcessedWasSent' /\ FailedWasRetried' /\ SettledStep
  BY <1>1 DEF OutboxInvariant, ProcessedWasSent, FailedWasRetried, SettledStep
<1>10. QED
  BY <1>3, <1>4, <1>5, <1>6, <1>7, <1>8, <1>9 DEF OutboxInvariant

(***************************************************************************)
(* The loop over a batch.                                                  *)
(***************************************************************************)
\* The event at hand is locked and pending, no other batch has it, and nothing
\* has been said about it beyond the handlers that are done.
LEMMA EventAtHand ==
  ASSUME OutboxInvariant, NEW p \in Processors, NEW e \in Events, AtHand(p, e)
  PROVE  /\ e \in processor[p].todo /\ e \in processor[p].batch
         /\ event[e].status = "pending" /\ processor[p].saved[e] = event[e]
         /\ event[e].retry_count < MaxRetry
         /\ \A q \in Processors : q # p => e \notin processor[q].batch /\ ~AtHand(q, e)
         /\ \A i \in 1 .. MaxHandlers : i > processor[p].done => sent[e][i] <= raised[e] + crashes
         /\ \A f \in Events : f # e => ~AtHand(p, f)
<1>1. /\ e \in processor[p].todo /\ e \in processor[p].batch
      /\ event[e].status = "pending" /\ event[e].retry_count < MaxRetry
      /\ processor[p].saved[e] = event[e]
  BY DEF OutboxInvariant, BatchesPending, RowsJustified, AtHand, Pending
<1>2. \A q \in Processors : q # p => e \notin processor[q].batch /\ ~AtHand(q, e)
  BY <1>1 DEF OutboxInvariant, BatchesDisjoint, BatchesPending, AtHand
<1>3. ASSUME NEW i \in 1 .. MaxHandlers, i > processor[p].done
      PROVE  sent[e][i] <= raised[e] + crashes
  <2>1. processor[p].done \in Nat
    BY StateTyped, BatchesTyped DEF OutboxInvariant
  <2>2. ~(i <= processor[p].done)
    BY <1>3, <2>1
  <2>3. ~OnItsWay(e, i)
    BY <1>1, <1>2, <2>2 DEF OnItsWay
  <2>4. QED
    BY <2>3 DEF OutboxInvariant, RepeatsExcused, Excused
<1>4. \A f \in Events : f # e => ~AtHand(p, f)
  BY OneAtHand DEF OutboxInvariant
<1>5. QED
  BY <1>1, <1>2, <1>3, <1>4

LEMMA HandlerAcceptsKeeps ==
  ASSUME OutboxInvariant, NEW p \in Processors, NEW x \in Events, HandlerAccepts(p, x)
  PROVE  OutboxInvariant' /\ SettledStep
<1> DEFINE i == processor[p].done + 1
           b == NewBatch(processor[p].batch, processor[p].todo, i, processor[p].saved)
<1>1. /\ AtHand(p, x) /\ i <= Handlers[x] /\ Sends(x, i, 1) /\ SetBatch(p, b)
      /\ UNCHANGED <<event, raised, passed, crashes>>
  BY DEF HandlerAccepts
<1>2. /\ processor[p].batch \subseteq Events /\ processor[p].todo \subseteq Events
      /\ processor[p].done \in Nat /\ processor[p].saved \in [Events -> EventRow]
  BY StateTyped, BatchesTyped DEF OutboxInvariant
<1>3. i \in 1 .. Handlers[x] /\ i \in 1 .. MaxHandlers /\ i \in Nat /\ i > processor[p].done
  <2>1. Handlers[x] \in Nat /\ MaxHandlers \in Nat /\ Handlers[x] <= MaxHandlers
    BY StateTyped DEF OutboxInvariant
  <2>2. QED
    BY <1>1, <1>2, <2>1
<1>4. /\ b \in Batch /\ b.batch = processor[p].batch /\ b.todo = processor[p].todo
      /\ b.done = i /\ b.saved = processor[p].saved
  BY <1>2, <1>3, BatchesTyped
<1>5. \A j \in Nat : j <= i => j = i \/ j <= processor[p].done
  BY <1>2
<1> HIDE DEF b, i
<1>6. /\ processor' \in [Processors -> Batch] /\ processor'[p] = b
      /\ \A q \in Processors : q # p => processor'[q] = processor[q]
      /\ \A q \in Processors, e \in Events : q # p => (AtHand(q, e)' <=> AtHand(q, e))
  BY <1>1, <1>4, BatchChanges DEF OutboxInvariant
<1>7. \A e \in Events : AtHand(p, e)' <=> AtHand(p, e)
  BY <1>4, <1>6 DEF AtHand
<1>8. /\ sent'[x][i] = sent[x][i] + 1
      /\ \A e \in Events, j \in 1 .. MaxHandlers : e # x \/ j # i => sent'[e][j] = sent[e][j]
      /\ sent' \in [Events -> [1 .. MaxHandlers -> Nat]]
      /\ \A e \in Events, j \in 1 .. MaxHandlers : sent[e][j] > 0 => sent'[e][j] > 0
  BY <1>1, <1>3, SendsTyped DEF OutboxInvariant
<1>9. \A e \in Events, j \in 1 .. MaxHandlers : sent[e][j] > 0 => sent'[e][j] > 0
  BY <1>8
<1>10. \A e \in Events : \A j \in 1 .. Handlers[e] : j \in 1 .. MaxHandlers
  BY StateTyped DEF OutboxInvariant
<1>11. TypeOK'
  BY <1>1, <1>6, <1>8 DEF OutboxInvariant, TypeOK
<1>12. BatchesDisjoint'
  BY <1>4, <1>6 DEF OutboxInvariant, BatchesDisjoint
<1>13. BatchesPending'
  BY <1>1, <1>4, <1>6 DEF OutboxInvariant, BatchesPending, Pending
<1>14. RowsJustified'
  <2>1. \A e \in Events : \A row : Justified(e, row) => Justified(e, row)'
    BY <1>1, <1>9, <1>10 DEF Justified
  <2>2. \A q \in Processors : /\ processor'[q].todo = processor[q].todo
                              /\ processor'[q].batch = processor[q].batch
                              /\ processor'[q].saved = processor[q].saved
    BY <1>4, <1>6
  <2>3. \A q \in Processors : processor[q].batch \subseteq Events
    BY StateTyped, BatchesTyped DEF OutboxInvariant
  <2>4. QED
    BY <1>1, <2>1, <2>2, <2>3 DEF OutboxInvariant, RowsJustified, Justified
<1>15. HandlersInOrder'
  <2>1. SUFFICES ASSUME NEW q \in Processors, NEW e \in Events, AtHand(q, e)'
                 PROVE  /\ processor'[q].done <= Handlers[e]
                        /\ \A j \in 1 .. processor'[q].done : sent'[e][j] > 0
    BY DEF HandlersInOrder
  <2>2. CASE q = p
    <3>1. e = x
      BY <1>1, <1>7, <2>1, <2>2, EventAtHand
    <3>2. \A j \in 1 .. processor[p].done : sent[x][j] > 0 /\ j \in 1 .. MaxHandlers
      BY <1>1, <1>2, <1>3, StateTyped DEF OutboxInvariant, HandlersInOrder
    <3>3. sent'[x][i] > 0
      BY <1>3, <1>8, StateTyped DEF OutboxInvariant
    <3>4. \A j \in 1 .. i : sent'[x][j] > 0
      BY <1>3, <1>5, <1>9, <3>2, <3>3
    <3>5. QED
      BY <1>1, <1>4, <1>6, <2>2, <3>1, <3>4
  <2>3. CASE q # p
    <3>1. AtHand(q, e) /\ processor'[q] = processor[q]
      BY <1>6, <2>1, <2>3
    <3>2. processor[q].done <= Handlers[e] /\ \A j \in 1 .. processor[q].done : sent[e][j] > 0
      BY <3>1 DEF OutboxInvariant, HandlersInOrder
    <3>3. \A j \in 1 .. processor[q].done : j \in 1 .. MaxHandlers
      BY <3>2, StateTyped, BatchesTyped DEF OutboxInvariant
    <3>4. QED
      BY <1>9, <3>1, <3>2, <3>3
  <2>4. QED
    BY <2>2, <2>3
<1>16. RepeatsExcused'
  <2>1. SUFFICES ASSUME NEW e \in Events, NEW j \in 1 .. MaxHandlers
                 PROVE  Excused(e, j)'
    BY DEF RepeatsExcused
  <2>2. OnItsWay(e, j) => OnItsWay(e, j)'
    <3>1. j <= processor[p].done => j <= i
      BY <1>2, <1>3
    <3>2. QED
      BY <1>1, <1>4, <1>6, <1>7, <3>1 DEF OnItsWay
  <2>3. CASE e = x /\ j = i
    <3>1. sent[e][j] <= raised[e] + crashes
      BY <1>1, <1>3, <2>3, EventAtHand
    <3>2. sent[e][j] \in Nat /\ raised[e] \in Nat /\ crashes \in Nat
      BY StateTyped DEF OutboxInvariant
    <3>3. sent'[e][j] = sent[e][j] + 1 /\ raised' = raised /\ crashes' = crashes
      BY <1>1, <1>8, <2>3
    <3>4. sent'[e][j] <= 1 + raised'[e] + crashes'
      BY <3>1, <3>2, <3>3
    <3>5. j <= processor'[p].done
      BY <1>3, <1>4, <1>6, <2>3
    <3>6. OnItsWay(e, j)'
      BY <1>1, <1>7, <2>3, <3>5 DEF OnItsWay
    <3>7. QED
      BY <3>4, <3>6 DEF Excused
  <2>4. CASE ~(e = x /\ j = i)
    BY <1>1, <1>8, <2>2, <2>4 DEF OutboxInvariant, RepeatsExcused, Excused
  <2>5. QED
    BY <2>3, <2>4
<1>17. ProcessedWasSent' /\ FailedWasRetried' /\ SettledStep
  BY <1>1, <1>9, <1>10 DEF OutboxInvariant, ProcessedWasSent, FailedWasRetried, SettledStep
<1>18. QED
  BY <1>11, <1>12, <1>13, <1>14, <1>15, <1>16, <1>17 DEF OutboxInvariant

\* The two steps that end the work on an event: its row is saved, and what the row
\* claims is justified.
LEMMA SaveEventKeeps ==
  ASSUME OutboxInvariant, NEW p \in Processors, NEW x \in Events, AtHand(p, x),
         NEW row \in EventRow, SaveEvent(p, x, row), event' = event, TypeOK',
         Justified(x, row)', \A e \in Events, r \in EventRow : e # x /\ Justified(e, r) => Justified(e, r)',
         \A e \in Events, j \in 1 .. MaxHandlers : sent[e][j] > 0 => sent'[e][j] > 0
  PROVE  /\ BatchesDisjoint' /\ BatchesPending' /\ RowsJustified' /\ HandlersInOrder'
         /\ processor'[p].saved[x] = row /\ x \in processor'[p].batch \ processor'[p].todo
         /\ \A e \in Events, j \in 1 .. MaxHandlers : e # x /\ OnItsWay(e, j) => OnItsWay(e, j)'
<1> DEFINE b == NewBatch(processor[p].batch, processor[p].todo \ {x}, 0,
                         [processor[p].saved EXCEPT ![x] = row])
<1>1. SetBatch(p, b)
  BY DEF SaveEvent
<1>2. /\ processor[p].batch \subseteq Events /\ processor[p].todo \subseteq Events
      /\ processor[p].done \in Nat /\ processor[p].saved \in [Events -> EventRow]
  BY StateTyped, BatchesTyped DEF OutboxInvariant
<1>3. /\ [processor[p].saved EXCEPT ![x] = row] \in [Events -> EventRow]
      /\ processor[p].todo \ {x} \subseteq Events
  BY <1>2
<1>4. /\ b \in Batch /\ b.batch = processor[p].batch /\ b.todo = processor[p].todo \ {x}
      /\ b.done = 0 /\ b.saved = [processor[p].saved EXCEPT ![x] = row]
  BY <1>2, <1>3, BatchesTyped
<1>5. b.saved[x] = row /\ \A e \in Events : e # x => b.saved[e] = processor[p].saved[e]
  BY <1>2, <1>4
<1> HIDE DEF b
<1>6. /\ processor' \in [Processors -> Batch] /\ processor'[p] = b
      /\ \A q \in Processors : q # p => processor'[q] = processor[q]
      /\ \A q \in Processors, e \in Events : q # p => (AtHand(q, e)' <=> AtHand(q, e))
  BY <1>1, <1>4, BatchChanges DEF OutboxInvariant
<1>7. /\ x \in processor[p].todo /\ x \in processor[p].batch
      /\ \A q \in Processors : q # p => x \notin processor[q].batch /\ ~AtHand(q, x)
      /\ \A f \in Events : f # x => ~AtHand(p, f)
  BY EventAtHand
<1>8. \A q \in Processors : processor[q].batch \subseteq Events /\ processor[q].todo \subseteq processor[q].batch
  BY StateTyped, BatchesTyped DEF OutboxInvariant, BatchesPending
<1>9. BatchesDisjoint'
  BY <1>4, <1>6 DEF OutboxInvariant, BatchesDisjoint
<1>10. BatchesPending'
  BY <1>4, <1>6 DEF OutboxInvariant, BatchesPending, Pending
<1>11. RowsJustified'
  <2>1. SUFFICES ASSUME NEW q \in Processors
                 PROVE  /\ \A e \in processor'[q].todo : processor'[q].saved[e] = event[e]
                        /\ \A e \in processor'[q].batch \ processor'[q].todo : \A r \in EventRow :
                              r = processor'[q].saved[e] => Justified(e, r)'
    <3>1. ASSUME NEW q \in Processors, NEW e \in processor'[q].batch \ processor'[q].todo
          PROVE  processor'[q].saved[e] \in EventRow
      BY <1>4, <1>6, <1>8, StateTyped, BatchesTyped DEF OutboxInvariant
    <3>2. QED
      BY <3>1 DEF RowsJustified, Justified
  <2>2. CASE q = p
    <3>1. \A e \in b.todo : b.saved[e] = event[e]
      BY <1>2, <1>4, <1>5 DEF OutboxInvariant, RowsJustified
    <3>2. ASSUME NEW e \in b.batch \ b.todo, NEW r \in EventRow, r = b.saved[e]
          PROVE  Justified(e, r)'
      <4>1. CASE e = x
        <5>1. r = row
          BY <1>5, <3>2, <4>1
        <5>2. QED
          BY <4>1, <5>1
      <4>2. CASE e # x
        <5>1. e \in Events /\ e \in processor[p].batch \ processor[p].todo
          BY <1>4, <1>8, <3>2, <4>2
        <5>2. r = processor[p].saved[e]
          BY <1>5, <3>2, <4>2, <5>1
        <5>3. Justified(e, r)
          BY <5>1, <5>2 DEF OutboxInvariant, RowsJustified
        <5>4. QED
          BY <4>2, <5>1, <5>3
      <4>3. QED
        BY <4>1, <4>2
    <3>3. QED
      BY <1>6, <2>2, <3>1, <3>2
  <2>3. CASE q # p
    <3>1. ASSUME NEW e \in processor[q].batch \ processor[q].todo, NEW r \in EventRow,
                 r = processor[q].saved[e]
          PROVE  Justified(e, r)'
      <4>1. e \in Events /\ e # x
        BY <1>7, <1>8, <2>3
      <4>2. Justified(e, r)
        BY <3>1 DEF OutboxInvariant, RowsJustified
      <4>3. QED
        BY <4>1, <4>2
    <3>2. QED
      BY <1>6, <2>3, <3>1 DEF OutboxInvariant, RowsJustified
  <2>4. QED
    BY <2>2, <2>3
<1>12. HandlersInOrder'
  <2>1. SUFFICES ASSUME NEW q \in Processors, NEW e \in Events, AtHand(q, e)'
                 PROVE  /\ processor'[q].done <= Handlers[e]
                        /\ \A j \in 1 .. processor'[q].done : sent'[e][j] > 0
    BY DEF HandlersInOrder
  <2>2. CASE q = p
    BY <1>4, <1>6, <2>2, StateTyped DEF OutboxInvariant
  <2>3. CASE q # p
    <3>1. AtHand(q, e) /\ processor'[q] = processor[q]
      BY <1>6, <2>1, <2>3
    <3>2. processor[q].done <= Handlers[e] /\ \A j \in 1 .. processor[q].done : sent[e][j] > 0
      BY <3>1 DEF OutboxInvariant, HandlersInOrder
    <3>3. \A j \in 1 .. processor[q].done : j \in 1 .. MaxHandlers
      BY <3>2, StateTyped, BatchesTyped DEF OutboxInvariant
    <3>4. QED
      BY <3>1, <3>2, <3>3
  <2>4. QED
    BY <2>2, <2>3
<1>13. ASSUME NEW e \in Events, NEW j \in 1 .. MaxHandlers, e # x, OnItsWay(e, j)
       PROVE  OnItsWay(e, j)'
  <2>1. CASE event[e].status = "processed"
    BY <2>1 DEF OnItsWay
  <2>2. CASE event[e].status # "processed"
    <3>1. PICK q \in Processors :
            \/ AtHand(q, e) /\ j <= processor[q].done
            \/ e \in processor[q].batch \ processor[q].todo /\ processor[q].saved[e].status = "processed"
      BY <1>13, <2>2 DEF OnItsWay
    <3>2. CASE q = p
      BY <1>4, <1>5, <1>6, <1>7, <1>13, <3>1, <3>2 DEF OnItsWay
    <3>3. CASE q # p
      BY <1>6, <3>1, <3>3 DEF OnItsWay
    <3>4. QED
      BY <3>2, <3>3
  <2>3. QED
    BY <2>1, <2>2
<1>14. QED
  BY <1>4, <1>5, <1>6, <1>7, <1>9, <1>10, <1>11, <1>12, <1>13

LEMMA DispatchedKeeps ==
  ASSUME OutboxInvariant, NEW p \in Processors, NEW x \in Events, Dispatched(p, x)
  PROVE  OutboxInvariant' /\ SettledStep
<1> DEFINE row == Row("processed", 0)
<1>1. /\ AtHand(p, x) /\ processor[p].done = Handlers[x] /\ SaveEvent(p, x, row)
      /\ UNCHANGED <<event, sent, raised, passed, crashes>>
  BY DEF Dispatched
<1>2. row \in EventRow /\ row.status = "processed" /\ row.retry_count = 0
  BY RowsTyped DEF OutboxStatus
<1> HIDE DEF row
<1>3. TypeOK'
  <2>1. /\ processor[p].batch \subseteq Events /\ processor[p].todo \subseteq Events
        /\ processor[p].saved \in [Events -> EventRow]
    BY StateTyped, BatchesTyped DEF OutboxInvariant
  <2>2. /\ processor[p].todo \ {x} \subseteq Events
        /\ [processor[p].saved EXCEPT ![x] = row] \in [Events -> EventRow]
    BY <1>2, <2>1
  <2>3. NewBatch(processor[p].batch, processor[p].todo \ {x}, 0,
                 [processor[p].saved EXCEPT ![x] = row]) \in Batch
    BY <2>1, <2>2, BatchesTyped
  <2>4. processor' \in [Processors -> Batch]
    BY <1>1, <2>3 DEF SaveEvent, SetBatch, OutboxInvariant, TypeOK
  <2>5. QED
    BY <1>1, <2>4 DEF OutboxInvariant, TypeOK
<1>4. Justified(x, row)
  <2>1. \A i \in 1 .. Handlers[x] : sent[x][i] > 0
    BY <1>1 DEF OutboxInvariant, HandlersInOrder
  <2>2. row.retry_count <= raised[x]
    BY <1>2, StateTyped DEF OutboxInvariant
  <2>3. QED
    BY <1>2, <2>1, <2>2 DEF Justified
<1>5. PICK r \in EventRow : r = row
  BY <1>2
<1>6. /\ SaveEvent(p, x, r) /\ Justified(x, r)'
      /\ \A e \in Events, s \in EventRow : e # x /\ Justified(e, s) => Justified(e, s)'
      /\ \A e \in Events, j \in 1 .. MaxHandlers : sent[e][j] > 0 => sent'[e][j] > 0
  BY <1>1, <1>4, <1>5 DEF Justified
<1>7. /\ BatchesDisjoint' /\ BatchesPending' /\ RowsJustified' /\ HandlersInOrder'
      /\ processor'[p].saved[x] = r /\ x \in processor'[p].batch \ processor'[p].todo
      /\ \A e \in Events, j \in 1 .. MaxHandlers : e # x /\ OnItsWay(e, j) => OnItsWay(e, j)'
  BY <1>1, <1>3, <1>6, SaveEventKeeps
<1>8. RepeatsExcused'
  <2>1. SUFFICES ASSUME NEW e \in Events, NEW j \in 1 .. MaxHandlers
                 PROVE  Excused(e, j)'
    BY DEF RepeatsExcused
  <2>2. Excused(e, j)
    BY DEF OutboxInvariant, RepeatsExcused
  <2>3. OnItsWay(x, j)'
    BY <1>2, <1>5, <1>7 DEF OnItsWay
  <2>4. OnItsWay(e, j) => OnItsWay(e, j)'
    BY <1>7, <2>3
  <2>5. QED
    BY <1>1, <2>2, <2>4 DEF Excused
<1>9. ProcessedWasSent' /\ FailedWasRetried' /\ SettledStep
  BY <1>1 DEF OutboxInvariant, ProcessedWasSent, FailedWasRetried, SettledStep
<1>10. QED
  BY <1>3, <1>7, <1>8, <1>9 DEF OutboxInvariant

LEMMA HandlerRaisesKeeps ==
  ASSUME OutboxInvariant, NEW p \in Processors, NEW x \in Events, HandlerRaises(p, x)
  PROVE  OutboxInvariant' /\ SettledStep
<1>1. PICK i : i = processor[p].done + 1
  OBVIOUS
<1>2. PICK n \in {0, 1} : Sends(x, i, n)
  BY <1>1 DEF HandlerRaises
<1>3. PICK row : row = AfterFailure(processor[p].saved[x])
  OBVIOUS
<1>4. /\ AtHand(p, x) /\ i <= Handlers[x] /\ raised' = [raised EXCEPT ![x] = raised[x] + 1]
      /\ SaveEvent(p, x, row) /\ UNCHANGED <<event, passed, crashes>>
  BY <1>1, <1>3 DEF HandlerRaises
<1>5. /\ processor[p].batch \subseteq Events /\ processor[p].todo \subseteq Events
      /\ processor[p].done \in Nat /\ processor[p].saved \in [Events -> EventRow]
  BY StateTyped, BatchesTyped DEF OutboxInvariant
<1>6. i \in 1 .. MaxHandlers /\ i > processor[p].done
  <2>1. Handlers[x] \in Nat /\ MaxHandlers \in Nat /\ Handlers[x] <= MaxHandlers
    BY StateTyped DEF OutboxInvariant
  <2>2. QED
    BY <1>1, <1>4, <1>5, <2>1
<1>7. /\ sent' \in [Events -> [1 .. MaxHandlers -> Nat]]
      /\ sent'[x][i] = sent[x][i] + n
      /\ \A e \in Events, j \in 1 .. MaxHandlers : e # x \/ j # i => sent'[e][j] = sent[e][j]
      /\ \A e \in Events, j \in 1 .. MaxHandlers : sent[e][j] > 0 => sent'[e][j] > 0
  BY <1>2, <1>6, SendsTyped DEF OutboxInvariant
<1>8. /\ event[x].status = "pending" /\ processor[p].saved[x] = event[x]
      /\ event[x].retry_count \in Nat /\ event[x].retry_count <= raised[x] /\ event[x] \in EventRow
  BY <1>4, EventAtHand, StateTyped, RowsTyped DEF OutboxInvariant, FailedWasRetried
<1>9. /\ row \in EventRow /\ row.retry_count = event[x].retry_count + 1
      /\ row.status # "none" /\ row.status # "processed"
      /\ row.status = "failed" => event[x].retry_count + 1 >= MaxRetry
      /\ row.status = "pending" => event[x].retry_count + 1 < MaxRetry
  BY <1>3, <1>8, FailureTyped
<1>10. /\ raised[x] \in Nat /\ raised'[x] = raised[x] + 1 /\ raised' \in [Events -> Nat]
       /\ \A e \in Events : e # x => raised'[e] = raised[e]
  BY <1>4, StateTyped DEF OutboxInvariant, TypeOK
<1>11. TypeOK'
  <2>1. /\ processor[p].todo \ {x} \subseteq Events
        /\ [processor[p].saved EXCEPT ![x] = row] \in [Events -> EventRow]
    BY <1>5, <1>9
  <2>2. NewBatch(processor[p].batch, processor[p].todo \ {x}, 0,
                 [processor[p].saved EXCEPT ![x] = row]) \in Batch
    BY <1>5, <2>1, BatchesTyped
  <2>3. processor' \in [Processors -> Batch]
    BY <1>4, <2>2 DEF SaveEvent, SetBatch, OutboxInvariant, TypeOK
  <2>4. QED
    BY <1>4, <1>7, <1>10, <2>3 DEF OutboxInvariant, TypeOK
<1>12. Justified(x, row)'
  <2>1. row.retry_count <= raised'[x]
    BY <1>8, <1>9, <1>10
  <2>2. row.status = "failed" => raised'[x] >= MaxRetry
    BY <1>8, <1>9, <1>10, StateTyped DEF OutboxInvariant
  <2>3. row.status = "pending" => row.retry_count < MaxRetry
    BY <1>9
  <2>4. QED
    BY <1>9, <2>1, <2>2, <2>3 DEF Justified
<1>13. \A e \in Events, r \in EventRow : e # x /\ Justified(e, r) => Justified(e, r)'
  BY <1>7, <1>10, StateTyped DEF OutboxInvariant, Justified
<1>14. /\ BatchesDisjoint' /\ BatchesPending' /\ RowsJustified' /\ HandlersInOrder'
       /\ \A e \in Events, j \in 1 .. MaxHandlers : e # x /\ OnItsWay(e, j) => OnItsWay(e, j)'
  BY <1>4, <1>7, <1>9, <1>11, <1>12, <1>13, SaveEventKeeps
<1>15. RepeatsExcused'
  <2>1. SUFFICES ASSUME NEW e \in Events, NEW j \in 1 .. MaxHandlers
                 PROVE  Excused(e, j)'
    BY DEF RepeatsExcused
  <2>2. Excused(e, j) /\ sent[e][j] \in Nat /\ raised[e] \in Nat /\ crashes \in Nat
    BY StateTyped DEF OutboxInvariant, RepeatsExcused
  <2>3. CASE e # x
    <3>1. sent'[e][j] = sent[e][j] /\ raised'[e] = raised[e] /\ crashes' = crashes
      BY <1>4, <1>7, <1>10, <2>3
    <3>2. OnItsWay(e, j) => OnItsWay(e, j)'
      BY <1>14, <2>3
    <3>3. QED
      BY <2>2, <3>1, <3>2 DEF Excused
  <2>4. CASE e = x
    <3>1. sent[e][j] <= 1 + raised[e] + crashes
      BY <2>2 DEF Excused
    <3>2. raised'[e] = raised[e] + 1 /\ crashes' = crashes
      BY <1>4, <1>10, <2>4
    <3>3. CASE j = i
      <4>1. sent[e][j] <= raised[e] + crashes
        BY <1>4, <1>6, <2>4, <3>3, EventAtHand
      <4>2. sent'[e][j] = sent[e][j] + n
        BY <1>7, <2>4, <3>3
      <4>3. n = 0 \/ n = 1
        OBVIOUS
      <4>4. sent'[e][j] <= raised'[e] + crashes'
        BY <2>2, <3>2, <4>1, <4>2, <4>3
      <4>5. QED
        BY <4>4 DEF Excused
    <3>4. CASE j # i
      <4>1. sent'[e][j] = sent[e][j]
        BY <1>7, <3>4
      <4>2. sent'[e][j] <= raised'[e] + crashes'
        BY <2>2, <3>1, <3>2, <4>1
      <4>3. QED
        BY <4>2 DEF Excused
    <3>5. QED
      BY <3>3, <3>4
  <2>5. QED
    BY <2>3, <2>4
<1>16. ProcessedWasSent'
  BY <1>4, <1>7, StateTyped DEF OutboxInvariant, ProcessedWasSent
<1>17. FailedWasRetried'
  <2>1. \A e \in Events : raised[e] \in Nat /\ raised'[e] \in Nat /\ raised[e] <= raised'[e]
    BY <1>10, StateTyped DEF OutboxInvariant
  <2>2. \A e \in Events : event[e].retry_count \in Nat
    BY StateTyped, RowsTyped DEF OutboxInvariant
  <2>3. QED
    BY <1>4, <2>1, <2>2, StateTyped DEF OutboxInvariant, FailedWasRetried
<1>18. QED
  BY <1>4, <1>11, <1>14, <1>15, <1>16, <1>17 DEF OutboxInvariant, SettledStep

(***************************************************************************)
(* A batch is committed.                                                   *)
(***************************************************************************)
LEMMA CommitBatchKeeps ==
  ASSUME OutboxInvariant, NEW p \in Processors, CommitBatch(p)
  PROVE  OutboxInvariant' /\ SettledStep
<1> DEFINE own == processor[p].batch
           saved == processor[p].saved
<1>1. /\ processor[p].todo = {} /\ SetBatch(p, Idle) /\ UNCHANGED <<sent, raised, passed, crashes>>
      /\ event' = [e \in Events |-> IF e \in own THEN saved[e] ELSE event[e]]
  BY DEF CommitBatch
<1>2. own \subseteq Events /\ saved \in [Events -> EventRow]
  BY StateTyped, BatchesTyped DEF OutboxInvariant
<1>3. \A e \in own : Pending(e) /\ Justified(e, saved[e])
  BY <1>1 DEF OutboxInvariant, BatchesPending, RowsJustified
<1>4. /\ processor' \in [Processors -> Batch] /\ processor'[p] = Idle
      /\ \A q \in Processors : q # p => processor'[q] = processor[q]
      /\ \A q \in Processors, e \in Events : q # p => (AtHand(q, e)' <=> AtHand(q, e))
  BY <1>1, IdleTyped, BatchChanges DEF OutboxInvariant
<1>5. \A q \in Processors : q # p =>
        own \cap processor[q].batch = {} /\ processor[q].batch \subseteq Events
        /\ processor[q].todo \subseteq processor[q].batch
  BY StateTyped, BatchesTyped DEF OutboxInvariant, BatchesDisjoint, BatchesPending
<1>6. /\ \A e \in own : event'[e] = saved[e]
      /\ \A e \in Events : e \notin own => event'[e] = event[e]
      /\ event' \in [Events -> EventRow]
  BY <1>1, <1>2, StateTyped DEF OutboxInvariant
<1> HIDE DEF own, saved
<1>7. TypeOK'
  BY <1>1, <1>4, <1>6 DEF OutboxInvariant, TypeOK
<1>8. BatchesDisjoint'
  BY <1>4, IdleTyped DEF OutboxInvariant, BatchesDisjoint
<1>9. BatchesPending'
  BY <1>4, <1>5, <1>6, IdleTyped DEF OutboxInvariant, BatchesPending, Pending
<1>10. RowsJustified'
  <2>1. SUFFICES ASSUME NEW q \in Processors
                 PROVE  /\ \A e \in processor'[q].todo : processor'[q].saved[e] = event'[e]
                        /\ \A e \in processor'[q].batch \ processor'[q].todo : \A r :
                              r = processor'[q].saved[e] => Justified(e, r)
    BY <1>1 DEF RowsJustified, Justified
  <2>2. CASE q = p
    BY <1>4, <2>2, IdleTyped
  <2>3. CASE q # p
    BY <1>4, <1>5, <1>6, <2>3 DEF OutboxInvariant, RowsJustified
  <2>4. QED
    BY <2>2, <2>3
<1>11. HandlersInOrder'
  <2>1. SUFFICES ASSUME NEW q \in Processors, NEW e \in Events, AtHand(q, e)'
                 PROVE  /\ processor'[q].done <= Handlers[e]
                        /\ \A i \in 1 .. processor'[q].done : sent[e][i] > 0
    BY <1>1 DEF HandlersInOrder
  <2>2. q # p
    BY <1>4, <2>1, IdleTyped DEF AtHand
  <2>3. QED
    BY <1>4, <2>1, <2>2 DEF OutboxInvariant, HandlersInOrder
<1>12. RepeatsExcused'
  <2>1. SUFFICES ASSUME NEW e \in Events, NEW i \in 1 .. MaxHandlers
                 PROVE  Excused(e, i)'
    BY DEF RepeatsExcused
  <2>2. ASSUME OnItsWay(e, i) PROVE OnItsWay(e, i)'
    <3>1. CASE event[e].status = "processed"
      <4>1. e \notin own
        BY <1>3, <3>1 DEF Pending
      <4>2. QED
        BY <1>6, <3>1, <4>1 DEF OnItsWay
    <3>2. CASE event[e].status # "processed"
      <4>1. PICK q \in Processors :
              \/ AtHand(q, e) /\ i <= processor[q].done
              \/ e \in processor[q].batch \ processor[q].todo /\ processor[q].saved[e].status = "processed"
        BY <2>2, <3>2 DEF OnItsWay
      <4>2. CASE q = p
        <5>1. ~AtHand(p, e)
          BY <1>1 DEF AtHand
        <5>2. e \in own /\ saved[e].status = "processed"
          BY <4>1, <4>2, <5>1 DEF own, saved
        <5>3. QED
          BY <1>6, <5>2 DEF OnItsWay
      <4>3. CASE q # p
        BY <1>4, <4>1, <4>3 DEF OnItsWay
      <4>4. QED
        BY <4>2, <4>3
    <3>3. QED
      BY <3>1, <3>2
  <2>3. QED
    BY <1>1, <2>2 DEF OutboxInvariant, RepeatsExcused, Excused
<1>13. ProcessedWasSent'
  BY <1>1, <1>3, <1>6 DEF OutboxInvariant, ProcessedWasSent, Justified
<1>14. FailedWasRetried'
  BY <1>1, <1>3, <1>6 DEF OutboxInvariant, FailedWasRetried, Justified
<1>15. SettledStep
  BY <1>3, <1>6 DEF SettledStep, Settled, Pending
<1>16. QED
  BY <1>7, <1>8, <1>9, <1>10, <1>11, <1>12, <1>13, <1>14, <1>15 DEF OutboxInvariant

(***************************************************************************)
(* The invariant and its theorems.                                         *)
(***************************************************************************)
LEMMA InvariantInit == Init => OutboxInvariant
<1>1. SUFFICES ASSUME Init PROVE OutboxInvariant
  OBVIOUS
<1>2. Row("none", 0) \in EventRow /\ Row("none", 0).status = "none" /\ Row("none", 0).retry_count = 0
  BY RowsTyped DEF OutboxStatus
<1>3. TypeOK
  BY <1>1, <1>2, IdleTyped DEF Init, TypeOK
<1>4. \A p \in Processors : processor[p] = Idle
  BY <1>1 DEF Init
<1>5. \A e \in Events : event[e].status = "none" /\ event[e].retry_count = 0 /\ raised[e] = 0
  BY <1>1, <1>2 DEF Init
<1>6. BatchesDisjoint /\ BatchesPending /\ RowsJustified
  BY <1>4, IdleTyped DEF BatchesDisjoint, BatchesPending, RowsJustified
<1>7. HandlersInOrder
  BY <1>4, IdleTyped DEF HandlersInOrder, AtHand
<1>8. RepeatsExcused
  BY <1>1 DEF Init, RepeatsExcused, Excused
<1>9. ProcessedWasSent /\ FailedWasRetried
  BY <1>5 DEF ProcessedWasSent, FailedWasRetried
<1>10. QED
  BY <1>3, <1>6, <1>7, <1>8, <1>9 DEF OutboxInvariant

LEMMA InvariantStep == OutboxInvariant /\ [Next]_vars => OutboxInvariant' /\ SettledStep
<1>1. SUFFICES ASSUME OutboxInvariant, [Next]_vars PROVE OutboxInvariant' /\ SettledStep
  OBVIOUS
<1>2. CASE UNCHANGED vars
  BY <1>1, <1>2 DEF vars, OutboxInvariant, TypeOK, BatchesDisjoint, BatchesPending, Pending,
     RowsJustified, Justified, HandlersInOrder, AtHand, RepeatsExcused, Excused, OnItsWay,
     ProcessedWasSent, FailedWasRetried, SettledStep
<1>3. ASSUME NEW e \in Events, publish_event(e) PROVE OutboxInvariant' /\ SettledStep
  BY <1>1, <1>3, PublishKeeps
<1>4. ASSUME NEW p \in Processors, BeginBatch(p) PROVE OutboxInvariant' /\ SettledStep
  BY <1>1, <1>4, BeginBatchKeeps
<1>5. ASSUME NEW p \in Processors, CommitBatch(p) PROVE OutboxInvariant' /\ SettledStep
  BY <1>1, <1>5, CommitBatchKeeps
<1>6. ASSUME NEW p \in Processors, Crash(p) PROVE OutboxInvariant' /\ SettledStep
  BY <1>1, <1>6, CrashKeeps
<1>7. ASSUME NEW p \in Processors, Dispatch(p) PROVE OutboxInvariant' /\ SettledStep
  BY <1>1, <1>7, HandlerAcceptsKeeps, DispatchedKeeps, HandlerRaisesKeeps DEF Dispatch
<1>8. QED
  BY <1>1, <1>2, <1>3, <1>4, <1>5, <1>6, <1>7 DEF Next

\* What batches, rows and handlers may rely on while processors run and die.
THEOREM InvariantHolds == Spec => []OutboxInvariant
  BY InvariantInit, InvariantStep, PTL DEF Spec

\* Every row, batch and counter keeps its type.
THEOREM TypeCorrect == Spec => []TypeOK
<1>1. OutboxInvariant => TypeOK
  BY DEF OutboxInvariant
<1>2. QED
  BY <1>1, InvariantHolds, PTL

\* An event counts as processed only after each of its handlers has sent it.
THEOREM ProcessedEventsWereSent == Spec => []ProcessedWasSent
<1>1. OutboxInvariant => ProcessedWasSent
  BY DEF OutboxInvariant
<1>2. QED
  BY <1>1, InvariantHolds, PTL

\* Neither crashes nor the failures of other events are held against an event.
THEOREM FailedEventsWereRetried == Spec => []FailedWasRetried
<1>1. OutboxInvariant => FailedWasRetried
  BY DEF OutboxInvariant
<1>2. QED
  BY <1>1, InvariantHolds, PTL

\* A handler has an event at most once more than something has failed: no two
\* processors work on one event, and a settled one is left alone.
THEOREM RepeatsAreCaused == Spec => []RepeatsHaveACause
<1>1. ASSUME OutboxInvariant PROVE RepeatsHaveACause
  <2>1. SUFFICES ASSUME NEW e \in Events, NEW i \in 1 .. MaxHandlers
                 PROVE  sent[e][i] <= 1 + raised[e] + crashes
    BY DEF RepeatsHaveACause
  <2>2. Excused(e, i) /\ sent[e][i] \in Nat /\ raised[e] \in Nat /\ crashes \in Nat
    BY <1>1, StateTyped DEF OutboxInvariant, RepeatsExcused
  <2>3. QED
    BY <2>2 DEF Excused
<1>2. QED
  BY <1>1, InvariantHolds, PTL

\* The row of a settled event is never written again.
THEOREM SettledEventsStay == Spec => SettledIsFinal
<1>1. OutboxInvariant /\ [Next]_vars => [\A e \in Events : Settled(e) => event'[e] = event[e]]_vars
  BY InvariantStep DEF SettledStep
<1>2. QED
  BY <1>1, InvariantHolds, PTL DEF Spec, SettledIsFinal

(***************************************************************************)
(* The outbox implements Delivery.                                         *)
(***************************************************************************)
DeliveryStep == [Abstract!Next]_(Abstract!vars)

\* The abstract state depends on the status of the events and on who was told.
LEMMA Unseen ==
  ASSUME event' = event, sent' = sent
  PROVE  DeliveryStep
  BY DEF DeliveryStep, Abstract!vars, outcome, told

LEMMA OutcomeOf ==
  ASSUME TypeOK, NEW e \in Events
  PROVE  /\ outcome[e] = "none" <=> event[e].status = "none"
         /\ outcome[e] = "owed" <=> event[e].status = "pending"
         /\ outcome[e] = "delivered" <=> event[e].status = "processed"
         /\ outcome[e] = "abandoned" <=> event[e].status = "failed"
         /\ outcome[e] \in {"none", "owed", "delivered", "abandoned"}
<1>1. event[e].status \in OutboxStatus
  BY StateTyped, RowsTyped
<1>2. QED
  BY <1>1 DEF outcome, OutboxStatus

LEMMA DeliveryInit == Init => Abstract!Init
<1>1. SUFFICES ASSUME Init PROVE Abstract!Init
  OBVIOUS
<1>2. \A e \in Events : event[e].status = "none"
  BY <1>1, RowsTyped DEF Init
<1>3. outcome = [e \in Events |-> "none"]
  BY <1>2 DEF outcome
<1>4. \A e \in Events : \A i \in 1 .. MaxHandlers : ~(sent[e][i] > 0)
  BY <1>1 DEF Init
<1>5. told = [e \in Events |-> {}]
  BY <1>4 DEF told
<1>6. QED
  BY <1>3, <1>5 DEF Abstract!Init

LEMMA PublishOwes ==
  ASSUME OutboxInvariant, NEW x \in Events, publish_event(x)
  PROVE  DeliveryStep
<1>1. event[x].status = "none" /\ sent' = sent
  BY DEF publish_event
<1>2. event'[x].status = "pending" /\ \A e \in Events : e # x => event'[e] = event[e]
  BY RowsTyped DEF publish_event, OutboxInvariant, TypeOK
<1>3. outcome[x] = "none"
  BY <1>1, OutcomeOf DEF OutboxInvariant
<1>4. outcome' = [outcome EXCEPT ![x] = "owed"]
  BY <1>2 DEF outcome
<1>5. told' = told
  BY <1>1 DEF told
<1>6. Abstract!Owe(x)
  BY <1>3, <1>4, <1>5 DEF Abstract!Owe
<1>7. QED
  BY <1>6 DEF DeliveryStep, Abstract!Next

\* A message to one handler, or its attempt.
LEMMA SendingTells ==
  ASSUME OutboxInvariant, NEW p \in Processors, NEW x \in Events, AtHand(p, x),
         NEW i \in 1 .. Handlers[x], NEW n \in {0, 1}, Sends(x, i, n), event' = event
  PROVE  DeliveryStep
<1>1. i \in 1 .. MaxHandlers
  BY StateTyped DEF OutboxInvariant
<1>2. CASE n = 0
  <2>1. \A e \in Events, j \in 1 .. MaxHandlers : sent'[e][j] > 0 <=> sent[e][j] > 0
    <3>1. sent[x][i] \in Nat /\ sent'[x][i] = sent[x][i] + n
      BY <1>1, SendsTyped, StateTyped DEF OutboxInvariant
    <3>2. sent'[x][i] = sent[x][i]
      BY <1>2, <3>1
    <3>3. \A e \in Events, j \in 1 .. MaxHandlers : e # x \/ j # i => sent'[e][j] = sent[e][j]
      BY <1>1, SendsTyped DEF OutboxInvariant
    <3>4. QED
      BY <3>2, <3>3
  <2>2. told' = told
    BY <2>1 DEF told
  <2>3. outcome' = outcome
    BY DEF outcome
  <2>4. QED
    BY <2>2, <2>3 DEF DeliveryStep, Abstract!vars
<1>3. CASE n = 1
  <2>1. sent'[x][i] > 0
    <3>1. sent[x][i] \in Nat /\ sent'[x][i] = sent[x][i] + n
      BY <1>1, SendsTyped, StateTyped DEF OutboxInvariant
    <3>2. QED
      BY <1>3, <3>1
  <2>2. \A e \in Events, j \in 1 .. MaxHandlers : e # x \/ j # i => sent'[e][j] = sent[e][j]
    BY <1>1, SendsTyped DEF OutboxInvariant
  <2>3. told' = [told EXCEPT ![x] = told[x] \cup {i}]
    <3>1. told'[x] = told[x] \cup {i}
      BY <1>1, <2>1, <2>2 DEF told
    <3>2. \A e \in Events : e # x => told'[e] = told[e]
      BY <2>2 DEF told
    <3>3. QED
      BY <3>1, <3>2 DEF told
  <2>4. outcome' = outcome
    BY DEF outcome
  <2>5. outcome[x] = "owed"
    BY EventAtHand, OutcomeOf DEF OutboxInvariant
  <2>6. Abstract!Tell(x, i)
    BY <2>3, <2>4, <2>5 DEF Abstract!Tell
  <2>7. QED
    BY <2>6 DEF DeliveryStep, Abstract!Next
<1>4. QED
  BY <1>2, <1>3

LEMMA CommitSettles ==
  ASSUME OutboxInvariant, NEW p \in Processors, CommitBatch(p)
  PROVE  DeliveryStep
<1> DEFINE own == processor[p].batch
           saved == processor[p].saved
<1>1. /\ processor[p].todo = {} /\ sent' = sent
      /\ event' = [e \in Events |-> IF e \in own THEN saved[e] ELSE event[e]]
  BY DEF CommitBatch
<1>2. own \subseteq Events /\ saved \in [Events -> EventRow]
  BY StateTyped, BatchesTyped DEF OutboxInvariant
<1>3. \A e \in own : Pending(e) /\ Justified(e, saved[e])
  BY <1>1 DEF OutboxInvariant, BatchesPending, RowsJustified
<1>4. /\ \A e \in own : event'[e] = saved[e] /\ saved[e].status \in OutboxStatus
      /\ \A e \in Events : e \notin own => event'[e] = event[e]
  BY <1>1, <1>2, RowsTyped
<1> HIDE DEF own, saved
<1>5. PICK delivered \in SUBSET Events : delivered = {e \in own : saved[e].status = "processed"}
  BY <1>2
<1>6. PICK abandoned \in SUBSET Events : abandoned = {e \in own : saved[e].status = "failed"}
  BY <1>2
<1>7. \A e \in delivered \cup abandoned : outcome[e] = "owed"
  BY <1>2, <1>3, <1>5, <1>6, OutcomeOf DEF OutboxInvariant, Pending
<1>8. \A e \in delivered : 1 .. Handlers[e] \subseteq told[e]
  BY <1>2, <1>3, <1>5, StateTyped DEF OutboxInvariant, Justified, told
<1>9. outcome' = [e \in Events |-> IF e \in delivered THEN "delivered"
                                  ELSE IF e \in abandoned THEN "abandoned"
                                  ELSE outcome[e]]
  <2>1. SUFFICES ASSUME NEW e \in Events
                 PROVE  outcome'[e] = IF e \in delivered THEN "delivered"
                                      ELSE IF e \in abandoned THEN "abandoned"
                                      ELSE outcome[e]
    BY DEF outcome
  <2>2. CASE e \in own
    BY <1>3, <1>4, <1>5, <1>6, <2>2 DEF outcome, Pending, Justified, OutboxStatus
  <2>3. CASE e \notin own
    BY <1>4, <1>5, <1>6, <2>3 DEF outcome
  <2>4. QED
    BY <2>2, <2>3
<1>10. told' = told
  BY <1>1 DEF told
<1>11. Abstract!Settle(delivered, abandoned)
  BY <1>7, <1>8, <1>9, <1>10 DEF Abstract!Settle
<1>12. QED
  BY <1>11 DEF DeliveryStep, Abstract!Next

LEMMA DeliveryNext == OutboxInvariant /\ [Next]_vars => DeliveryStep
<1>1. SUFFICES ASSUME OutboxInvariant, [Next]_vars PROVE DeliveryStep
  OBVIOUS
<1>2. CASE UNCHANGED vars
  BY <1>2, Unseen DEF vars
<1>3. ASSUME NEW e \in Events, publish_event(e) PROVE DeliveryStep
  BY <1>1, <1>3, PublishOwes
<1>4. ASSUME NEW p \in Processors, BeginBatch(p) \/ Crash(p) PROVE DeliveryStep
  BY <1>4, Unseen DEF BeginBatch, Crash
<1>5. ASSUME NEW p \in Processors, CommitBatch(p) PROVE DeliveryStep
  BY <1>1, <1>5, CommitSettles
<1>6. ASSUME NEW p \in Processors, Dispatch(p) PROVE DeliveryStep
  <2>1. PICK e \in Events : HandlerAccepts(p, e) \/ Dispatched(p, e) \/ HandlerRaises(p, e)
    BY <1>6 DEF Dispatch
  <2>2. CASE Dispatched(p, e)
    BY <2>2, Unseen DEF Dispatched
  <2>3. CASE HandlerAccepts(p, e) \/ HandlerRaises(p, e)
    <3>1. PICK i : i = processor[p].done + 1
      OBVIOUS
    <3>2. /\ AtHand(p, e) /\ i <= Handlers[e] /\ event' = event
          /\ \E n \in {0, 1} : Sends(e, i, n)
      BY <2>3, <3>1 DEF HandlerAccepts, HandlerRaises
    <3>3. i \in 1 .. Handlers[e]
      <4>1. processor[p].done \in Nat /\ Handlers[e] \in Nat
        BY <1>1, StateTyped, BatchesTyped DEF OutboxInvariant
      <4>2. QED
        BY <3>1, <3>2, <4>1
    <3>4. QED
      BY <1>1, <3>2, <3>3, SendingTells
  <2>4. QED
    BY <2>1, <2>2, <2>3
<1>7. QED
  BY <1>1, <1>2, <1>3, <1>4, <1>5, <1>6 DEF Next

\* Seen from outside, batches, locks and retries are deliveries: an event is owed
\* from its commit on, and is settled once.
THEOREM OutboxImplementsDelivery == Spec => ImplementsDelivery
  BY InvariantHolds, DeliveryInit, DeliveryNext, PTL
     DEF Spec, ImplementsDelivery, Abstract!Spec, DeliveryStep

\* Processed or failed, an event has come to it by its own history.
THEOREM EventsSettleAsEarned == Spec => []SettledAsEarned
  BY ProcessedEventsWereSent, FailedEventsWereRetried, PTL DEF SettledAsEarned
=============================================================================
