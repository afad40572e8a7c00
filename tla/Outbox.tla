------------------------------- MODULE Outbox -------------------------------
(***************************************************************************)
(* The outbox: core/events.                                                *)
(*                                                                         *)
(* Business transactions insert events; process_outbox locks a batch of    *)
(* pending ones (SKIP LOCKED), hands each to the handlers of its topic in  *)
(* their order, and commits all their rows together.  What a handler has   *)
(* sent cannot be taken back when the transaction rolls back.  An event is *)
(* known by its place in the order of created_date, which need not be the  *)
(* order in which events are committed.                                    *)
(*                                                                         *)
(* The one caller outside the tests, the management command, imports a     *)
(* module that does not exist.  Nothing runs the processor, so nothing is  *)
(* said of what must happen in the end, only of what may.                  *)
(***************************************************************************)
EXTENDS Integers, FiniteSets

CONSTANTS
    Events,            \* numbered by created_date
    Processors,
    Handlers,          \* how many handlers ROUTES has for each event's topic
    MaxHandlers,
    BatchSize, MaxRetry,
    MaxCrashes         \* bound: processors that die within a batch

ASSUME OutboxAssumption ==
    /\ Events \subseteq Nat
    /\ MaxHandlers \in Nat
    /\ Handlers \in [Events -> 0 .. MaxHandlers]
    /\ BatchSize \in Nat \ {0} /\ MaxRetry \in Nat \ {0}
    /\ MaxCrashes \in Nat

VARIABLES
    event,       \* OutboxEvent rows
    processor,   \* the transaction of each processor
    sent,        \* how often each handler has had each event and sent its message,
                 \* or accepted it without one (external)
    raised,      \* how often a handler of the event has raised (history)
    passed,      \* how many batches have passed over the event (history)
    crashes      \* processors that have died so far

vars == <<event, processor, sent, raised, passed, crashes>>

OutboxStatus == {"none", "pending", "processed", "failed"}
EventRow == [status : OutboxStatus, retry_count : Nat]
Row(status, n) == [status |-> status, retry_count |-> n]

\* batch: the rows locked; todo: those not dispatched yet; done: the handlers
\* that have had the event at hand; saved: the rows as this transaction sees them.
Batch == [batch : SUBSET Events, todo : SUBSET Events, done : Nat,
          saved : [Events -> EventRow]]
NewBatch(batch, todo, done, saved) ==
    [batch |-> batch, todo |-> todo, done |-> done, saved |-> saved]
Idle == NewBatch({}, {}, 0, [e \in Events |-> Row("none", 0)])

TypeOK ==
    /\ event \in [Events -> EventRow]
    /\ processor \in [Processors -> Batch]
    /\ sent \in [Events -> [1 .. MaxHandlers -> Nat]]
    /\ raised \in [Events -> Nat]
    /\ passed \in [Events -> Nat]
    /\ crashes \in Nat

Init ==
    /\ event = [e \in Events |-> Row("none", 0)]
    /\ processor = [p \in Processors |-> Idle]
    /\ sent = [e \in Events |-> [i \in 1 .. MaxHandlers |-> 0]]
    /\ raised = [e \in Events |-> 0]
    /\ passed = [e \in Events |-> 0]
    /\ crashes = 0

Locked(e) == \E p \in Processors : e \in processor[p].batch
Pending(e) == event[e].status = "pending" /\ event[e].retry_count < MaxRetry

\* ORDER BY created_date, the first BatchSize of them.
IsOldest(batch, ready) ==
    /\ batch # {} /\ batch \subseteq ready
    /\ Cardinality(batch) <= BatchSize
    /\ batch # ready => Cardinality(batch) = BatchSize
    /\ \A e \in batch, f \in ready \ batch : e < f

\* The event that the loop of p has reached.
AtHand(p, e) == e \in processor[p].todo /\ \A f \in processor[p].todo : e <= f

SetBatch(p, b) == processor' = [processor EXCEPT ![p] = b]
PassesOver(events) ==
    passed' = [e \in Events |-> IF e \in events THEN passed[e] + 1 ELSE passed[e]]
Sends(e, i, n) == sent' = [sent EXCEPT ![e][i] = sent[e][i] + n]

\* The row of the event at hand is saved, and the loop goes on.
SaveEvent(p, e, row) ==
    SetBatch(p, NewBatch(processor[p].batch, processor[p].todo \ {e}, 0,
                         [processor[p].saved EXCEPT ![e] = row]))

(***************************************************************************)
(* Plausible mistakes, used by no specification.                           *)
(***************************************************************************)
\* Without SKIP LOCKED, and without waiting either.
BeginBatchUnlocked(p) ==
    /\ processor[p].batch = {}
    /\ LET ready == {e \in Events : Pending(e)} IN
       \E batch \in SUBSET ready :
          IsOldest(batch, ready) /\ SetBatch(p, NewBatch(batch, batch, 0, event))
    /\ UNCHANGED <<event, sent, raised, passed, crashes>>

\* The first handler that accepts is taken for all of them.
DispatchedByFirst(p, e) ==
    /\ AtHand(p, e) /\ processor[p].done >= 1
    /\ SaveEvent(p, e, Row("processed", 0))
    /\ UNCHANGED <<event, sent, raised, passed, crashes>>

\* A failed dispatch gets a status of its own, which the filter does not know.
AfterFailureAsError(row) == Row("error", row.retry_count + 1)

\* The counter that was raised is lost with the exception.
AfterFailureForgotten(row) == row

(***************************************************************************)
(* The business transaction that publishes an event commits.               *)
(***************************************************************************)
publish_event(e) ==
    /\ event[e].status = "none"
    /\ event' = [event EXCEPT ![e] = Row("pending", 0)]
    /\ UNCHANGED <<processor, sent, raised, passed, crashes>>

(***************************************************************************)
(* process_outbox.                                                         *)
(***************************************************************************)
BeginBatch(p) ==
    /\ processor[p].batch = {}
    /\ LET ready == {e \in Events : Pending(e) /\ ~Locked(e)} IN
       \E batch \in SUBSET ready :
          /\ IsOldest(batch, ready)
          /\ SetBatch(p, NewBatch(batch, batch, 0, event))
          /\ PassesOver(ready \ batch)
    /\ UNCHANGED <<event, sent, raised, crashes>>

\* What becomes of an event whose dispatch raised.
AfterFailure(row) ==
    Row(IF row.retry_count + 1 >= MaxRetry THEN "failed" ELSE row.status, row.retry_count + 1)

\* The handler sends its message, or has none for the topic (email.py knows no
\* order.cancelled): it has had the event either way.
HandlerAccepts(p, e) ==
    LET b == processor[p]  i == processor[p].done + 1 IN
    /\ AtHand(p, e) /\ i <= Handlers[e]
    /\ Sends(e, i, 1)
    /\ SetBatch(p, NewBatch(b.batch, b.todo, i, b.saved))
    /\ UNCHANGED <<event, raised, passed, crashes>>

\* All handlers have had the event; a topic without handlers gets here at once.
Dispatched(p, e) ==
    /\ AtHand(p, e) /\ processor[p].done = Handlers[e]
    /\ SaveEvent(p, e, Row("processed", 0))
    /\ UNCHANGED <<event, sent, raised, passed, crashes>>

\* A handler raises: it has sent nothing, or its message went out and the
\* acknowledgement was lost.
HandlerRaises(p, e) ==
    LET i == processor[p].done + 1 IN
    /\ AtHand(p, e) /\ i <= Handlers[e]
    /\ \E n \in {0, 1} : Sends(e, i, n)
    /\ raised' = [raised EXCEPT ![e] = raised[e] + 1]
    /\ SaveEvent(p, e, AfterFailure(processor[p].saved[e]))
    /\ UNCHANGED <<event, passed, crashes>>

CommitBatch(p) ==
    /\ processor[p].batch # {} /\ processor[p].todo = {}
    /\ event' = [e \in Events |-> IF e \in processor[p].batch THEN processor[p].saved[e]
                                  ELSE event[e]]
    /\ SetBatch(p, Idle)
    /\ UNCHANGED <<sent, raised, passed, crashes>>

\* The transaction is rolled back with every row of the batch.
Crash(p) ==
    /\ processor[p].batch # {} /\ crashes < MaxCrashes
    /\ crashes' = crashes + 1
    /\ SetBatch(p, Idle)
    /\ UNCHANGED <<event, sent, raised, passed>>

Dispatch(p) ==
    \E e \in Events : HandlerAccepts(p, e) \/ Dispatched(p, e) \/ HandlerRaises(p, e)

Next ==
    \/ \E e \in Events : publish_event(e)
    \/ \E p \in Processors : BeginBatch(p) \/ Dispatch(p) \/ CommitBatch(p) \/ Crash(p)

Spec == Init /\ [][Next]_vars

(***************************************************************************)
(* Properties.                                                             *)
(***************************************************************************)
Settled(e) == event[e].status \in {"processed", "failed"}

\* An event counts as processed only if each of its handlers has had it,
\* although its row is committed long after, with rows that failed.
ProcessedWasSent ==
    \A e \in Events : event[e].status = "processed" =>
        \A i \in 1 .. Handlers[e] : sent[e][i] > 0

\* An event is given up only after MaxRetry failures of its own: neither a crash
\* nor the failure of another event of the batch is held against it.
FailedWasRetried ==
    \A e \in Events :
        /\ event[e].retry_count <= raised[e]
        /\ event[e].status = "failed" => raised[e] >= MaxRetry
        /\ event[e].status = "pending" => event[e].retry_count < MaxRetry

\* Whatever settles an event has happened to that event, in whatever batch: it was
\* accepted by every handler, or it failed as often as the limit allows.
SettledAsEarned == ProcessedWasSent /\ FailedWasRetried

\* Nobody is sent an event twice unless something failed in between: two
\* processors never work on one event, and a settled event is left alone.
RepeatsHaveACause ==
    \A e \in Events, i \in 1 .. MaxHandlers : sent[e][i] <= 1 + raised[e] + crashes

\* A settled event stays as it is.
SettledIsFinal == [][\A e \in Events : Settled(e) => event'[e] = event[e]]_vars

\* Events that fail keep their place at the head of every batch, but not for ever:
\* a batch that passes over an event is full of older ones, and each of those is
\* taken up at most MaxRetry times, and once more in a batch that a crash undoes.
WaitIsBounded ==
    \A e \in Events :
        passed[e] * BatchSize <= MaxRetry * Cardinality({f \in Events : f < e})
                                 + BatchSize * crashes

\* "Atomic per-event dispatch": a failed event has reached all of its handlers'
\* recipients, or none.
DispatchIsAtomic ==
    \A e \in Events : event[e].status = "failed" =>
        \/ \A i \in 1 .. Handlers[e] : sent[e][i] > 0
        \/ \A i \in 1 .. Handlers[e] : sent[e][i] = 0

(***************************************************************************)
(* The outbox implements Delivery.                                         *)
(***************************************************************************)
outcome == [e \in Events |->
    IF event[e].status = "none" THEN "none"
    ELSE IF event[e].status = "pending" THEN "owed"
    ELSE IF event[e].status = "processed" THEN "delivered" ELSE "abandoned"]
told == [e \in Events |-> {i \in 1 .. MaxHandlers : sent[e][i] > 0}]

Abstract == INSTANCE Delivery WITH outcome <- outcome, told <- told

\* Every committed event is owed to its handlers until each has had it or it is
\* given up: delivery at least once.
ImplementsDelivery == Abstract!Spec
=============================================================================
