---------------------------- MODULE GatewayCalls ----------------------------
(***************************************************************************)
(* What the shop believes of a gateway: core/payment/services/             *)
(* gateway_service.py, callback.py, the gateway adapters and the view the  *)
(* customer's browser is redirected to.                                    *)
(*                                                                         *)
(* OrderPayment treats an answer as "yes", "no" or "lost".  Here it is     *)
(* made: a payment names its gateway once and for all, the registry may or *)
(* may not have a client for it, the gateway knows a payment only by the   *)
(* authority it issued, the client turns a body into a result, and the     *)
(* result is compared with the rows.  Every payment has one attempt here;  *)
(* amounts are the whole rials of Order.payable_price, so "full" is the    *)
(* payment's amount and "short" any other.                                 *)
(***************************************************************************)
EXTENDS Naturals, FiniteSets

CONSTANTS
    Attempts,       \* each the only attempt of a payment of its own
    Gateways,       \* PaymentGateway
    Registered,     \* GatewayRegistry._clients
    ZarinPal,       \* the gateway whose client is part of the program
    Authorities,    \* what the gateways may issue: two may issue the same one
    Workers,        \* the processes that serve requests
    Unreadable,     \* do gateways send bodies without a usable code?
    None            \* an empty authority or reference

\* Assumed by MCGateway, for its instance.
GatewaysAssumption ==
    /\ Registered \subseteq Gateways /\ ZarinPal \in Gateways /\ Unreadable \in BOOLEAN
    /\ None \notin Authorities

VARIABLES
    setting,        \* settings.DEFAULT_PAYMENT_GATEWAY
    row,            \* PaymentModel and its PaymentAttempt
    session,        \* what the gateway knows about the attempt
    call            \* what each worker is doing

vars == <<setting, row, session, call>>

Row == [status : {"none", "PENDING", "SUCCESS", "FAILED"},
        gateway : Gateways \cup {None},
        authority : Authorities \cup {None},
        reference : Attempts \cup {None}]

\* "short": the customer paid another amount than the payment's.  refused
\* remembers in which states of the session its gateway said no to the shop,
\* garbled that it sent an answer about it that nobody could read.
Session == [at : Gateways \cup {None},
            authority : Authorities \cup {None},
            state : {"none", "open", "paid", "short", "declined", "settled"},
            refused : SUBSET {"none", "open", "declined"}, garbled : BOOLEAN]

\* GatewayPaymentResult and GatewayVerificationResult.
Result == [success : BOOLEAN,
           amount : {"full", "short"},
           authority : Authorities \cup {None},
           reference : Attempts \cup {None}]

Call == [op : {"none", "initiate", "verify"},
         stage : {"idle", "resolved", "gateway", "persist"},
         attempt : Attempts \cup {None},
         ref : Attempts \cup {None},
         result : Result,
         outcome : {"none", "completed"}]

NoRow == [status |-> "none", gateway |-> None, authority |-> None, reference |-> None]
NoSession == [at |-> None, authority |-> None, state |-> "none", refused |-> {},
              garbled |-> FALSE]
NoResult == [success |-> FALSE, amount |-> "full", authority |-> None, reference |-> None]
Idle == [op |-> "none", stage |-> "idle", attempt |-> None, ref |-> None,
         result |-> NoResult, outcome |-> "none"]

TypeOK ==
    /\ setting \in Gateways
    /\ row \in [Attempts -> Row]
    /\ session \in [Attempts -> Session]
    /\ call \in [Workers -> Call]

Init ==
    /\ setting \in Gateways
    /\ row = [a \in Attempts |-> NoRow]
    /\ session = [a \in Attempts |-> NoSession]
    /\ call = [w \in Workers |-> Idle]

(***************************************************************************)
(* A worker's request.                                                     *)
(***************************************************************************)
Serves(w, op, stage) == call[w].op = op /\ call[w].stage = stage

Begin(w, op, stage, a, ref) ==
    /\ call[w].stage = "idle"
    /\ call' = [call EXCEPT ![w] = [Idle EXCEPT !.op = op, !.stage = stage,
                                                !.attempt = a, !.ref = ref]]

Answered(w, result) ==
    call' = [call EXCEPT ![w].stage = "persist", ![w].result = result]

\* A mistake: the worker is left with the outcome where its stage belongs.
FinishAsStage(w, outcome) == call' = [call EXCEPT ![w].stage = outcome]

\* The request ends; remembered is only which payment was called completed.
Finish(w, outcome) ==
    call' = [call EXCEPT ![w] =
                IF outcome = "completed"
                THEN [Idle EXCEPT !.attempt = call[w].attempt, !.outcome = outcome]
                ELSE Idle]

\* A session that its gateway has refused, as it is now.
Refused(s) == [s EXCEPT !.refused = @ \cup {s.state}]

(***************************************************************************)
(* Plausible mistakes: each changes one check of a definition below.       *)
(***************************************************************************)
\* The amount that the gateway reports is not compared.
EvidenceOfAnyAmount(result, ref) ==
    result.reference # None /\ ref \in {None, result.reference}

\* A lost answer becomes a result without success.
LossIsDenial(w) ==
    /\ call[w].stage = "gateway"
    /\ Answered(w, NoResult)
    /\ UNCHANGED <<setting, row, session>>

(***************************************************************************)
(* The settings, and what no one controls: the customer at the gateway.    *)
(***************************************************************************)
\* A deployment changes DEFAULT_PAYMENT_GATEWAY.
SettingChanges(g) ==
    /\ g # setting
    /\ setting' = g
    /\ UNCHANGED <<row, session, call>>

\* The customer is at the gateway: the shop sent the URL of the authority.
CustomerDecides(a, decision) ==
    /\ session[a].state = "open"
    /\ row[a].authority # None
    /\ row[a].gateway \in Registered
    /\ session' = [session EXCEPT ![a].state = decision]
    /\ UNCHANGED <<setting, row, call>>

\* ZarinPal charges the amount it was asked for or nothing.
CustomerPays(a) == CustomerDecides(a, "paid")
CustomerPaysShort(a) == session[a].at # ZarinPal /\ CustomerDecides(a, "short")
CustomerDeclines(a) == CustomerDecides(a, "declined")

(***************************************************************************)
(* The rows.  A request that fails before the answer is persisted leaves   *)
(* them alone, whatever the error.                                         *)
(***************************************************************************)
SaveRow(a, values) == row' = [row EXCEPT ![a] = values]

\* GatewayService asks the historical gateway of the payment.
AskedGateway(a) == row[a].gateway

\* GatewayRegistry.resolve: no client, PaymentGatewayNotSupportedError.
Unsupported(w) ==
    /\ call[w].stage = "gateway"
    /\ AskedGateway(call[w].attempt) \notin Registered
    /\ Finish(w, "error")
    /\ UNCHANGED <<setting, row, session>>

\* What the gateway finds: it was asked by its own authority.
Found(g, authority) ==
    {b \in Attempts : session[b].at = g /\ session[b].authority = authority
                        /\ session[b].state # "none"}

\* A worker waits for the answer of a gateway that has a client.
Asks(w, op) ==
    Serves(w, op, "gateway") /\ AskedGateway(call[w].attempt) \in Registered

\* No answer, or one that is not a JSON object: BaseGateway's clients raise a
\* PaymentGatewayError, which every service lets through.
Lost(w) ==
    /\ call[w].stage = "gateway"
    /\ Finish(w, "error")
    /\ UNCHANGED <<setting, row, session>>

\* A worker dies, or its request is dropped.
WorkerDies(w) ==
    /\ call[w].stage # "idle"
    /\ call' = [call EXCEPT ![w] = Idle]
    /\ UNCHANGED <<setting, row, session>>

(***************************************************************************)
(* start_payment: the rows are created with the default gateway, then the  *)
(* gateway is asked for an authority.                                      *)
(***************************************************************************)
StartPayment(w, a) ==
    /\ row[a].status = "none"
    /\ SaveRow(a, [NoRow EXCEPT !.status = "PENDING", !.gateway = setting])
    /\ Begin(w, "initiate", "gateway", a, None)
    /\ UNCHANGED <<setting, session>>

\* A gateway never issues an authority twice; another gateway may.
Opened(a, g, authority) ==
    /\ Found(g, authority) = {}
    /\ session[a].state = "none"
    /\ session' = [session EXCEPT ![a].at = g, ![a].authority = authority,
                                  ![a].state = "open"]

SessionOpened(w, authority) ==
    LET a == call[w].attempt IN
    /\ Asks(w, "initiate")
    /\ Opened(a, AskedGateway(a), authority)
    /\ \/ Answered(w, [NoResult EXCEPT !.success = TRUE, !.authority = authority])
       \/ Finish(w, "error")
    /\ UNCHANGED <<setting, row>>

SessionRefused(w) ==
    /\ Asks(w, "initiate")
    /\ session' = [session EXCEPT ![call[w].attempt] = Refused(@)]
    /\ Answered(w, NoResult)
    /\ UNCHANGED <<setting, row>>

PersistInitiation(w) ==
    LET a == call[w].attempt  result == call[w].result IN
    /\ Serves(w, "initiate", "persist")
    /\ row[a].status = "PENDING"
    /\ \/ /\ result.success
          /\ SaveRow(a, [row[a] EXCEPT !.authority = result.authority])
          /\ Finish(w, "none")
       \/ /\ ~result.success
          /\ SaveRow(a, [row[a] EXCEPT !.status = "FAILED"])
          /\ Finish(w, "rejected")
    /\ UNCHANGED <<setting, session>>

(***************************************************************************)
(* PaymentVerifyView: any GET with the authority of an attempt, and with   *)
(* whatever the browser makes of RefID.  It may come late, many times, or  *)
(* before the customer has decided.  A RefID is only compared, so that     *)
(* None stands for one that agrees with the gateway, too.                  *)
(***************************************************************************)
\* resolve_callback: exactly one attempt has the authority.
Resolves(a, authority) ==
    {b \in Attempts : row[b].authority = authority} = {a}

\* GatewayService.parse_callback, by the client of the attempt found.
CanParse(a) == AskedGateway(a) \in Registered

CallbackArrives(w, a, ref) ==
    /\ row[a].authority # None
    /\ Resolves(a, row[a].authority)
    /\ CanParse(a)
    /\ Begin(w, "verify", "resolved", a, ref)
    /\ UNCHANGED <<setting, row, session>>

\* A callback must agree with a reference that is already stored.
ReferenceAgrees(a, ref) == ref \in {None, row[a].reference}

\* verify_payment, Phase A: only a pending payment is asked about.
BeginVerification(w) ==
    LET a == call[w].attempt IN
    /\ Serves(w, "verify", "resolved")
    /\ \/ /\ row[a].status = "PENDING"
          /\ call' = [call EXCEPT ![w].stage = "gateway"]
       \/ /\ row[a].status = "SUCCESS"
          /\ Finish(w, IF ReferenceAgrees(a, call[w].ref) THEN "completed" ELSE "error")
       \/ row[a].status = "FAILED" /\ Finish(w, "error")
    /\ UNCHANGED <<setting, row, session>>

\* Verifying a paid session settles it, and says so again when it is asked
\* again (codes 100 and 101).  The answer may lack the reference, or be lost.
PaymentSettled(w, b) ==
    LET a == call[w].attempt IN
    /\ Asks(w, "verify")
    /\ b \in Found(AskedGateway(a), row[a].authority)
    /\ session[b].state \in {"paid", "settled"}
    /\ session' = [session EXCEPT ![b].state = "settled"]
    /\ \/ \E reference \in {b, None} :
             Answered(w, [NoResult EXCEPT !.success = TRUE, !.reference = reference])
       \/ Finish(w, "error")
    /\ UNCHANGED <<setting, row>>

\* A gateway that leaves the comparison to its caller reports the amount.
ShortPaymentReported(w, b) ==
    LET a == call[w].attempt IN
    /\ Asks(w, "verify")
    /\ b \in Found(AskedGateway(a), row[a].authority)
    /\ session[b].state = "short"
    /\ Answered(w, [NoResult EXCEPT !.success = TRUE, !.amount = "short",
                                    !.reference = b])
    /\ UNCHANGED <<setting, row, session>>

\* Any other code: an unpaid session, or an authority it does not know.
PaymentDenied(w) ==
    LET a == call[w].attempt
        found == Found(AskedGateway(a), row[a].authority) IN
    /\ Asks(w, "verify")
    /\ \A b \in found : session[b].state \in {"open", "declined"}
    /\ session' = [b \in Attempts |-> IF b \in found
                      THEN Refused(session[b]) ELSE session[b]]
    /\ Answered(w, NoResult)
    /\ UNCHANGED <<setting, row>>

\* A body without a code that int() accepts.  ZarinPal's client compares the
\* missing code with 100 and returns a result without success.
UnreadableBody(w) ==
    /\ Unreadable
    /\ call[w].stage = "gateway"
    /\ AskedGateway(call[w].attempt) = ZarinPal /\ ZarinPal \in Registered
    /\ session' = [session EXCEPT ![call[w].attempt].garbled = TRUE]
    /\ Answered(w, NoResult)
    /\ UNCHANGED <<setting, row>>

\* The amount of the result is the payment's.
InFull(result) == result.amount = "full"

\* GatewayService._validate_verification_result and _validate_gateway_result:
\* a success needs a reference, the payment's amount and an agreeing callback.
Evidence(result, ref) ==
    /\ result.reference # None
    /\ InFull(result)
    /\ ref \in {None, result.reference}

\* _validate_duplicate_success_identity: another worker was faster.
Agrees(a, result) ==
    /\ row[a].status = "SUCCESS"
    /\ result.success /\ InFull(result)
    /\ result.reference = row[a].reference

\* Phase C.  A success that is not evidence raises and changes nothing.
PersistVerification(w) ==
    LET a == call[w].attempt  result == call[w].result IN
    /\ Serves(w, "verify", "persist")
    /\ row[a].status = "PENDING"
    /\ \/ /\ result.success /\ Evidence(result, call[w].ref)
          /\ SaveRow(a, [row[a] EXCEPT !.status = "SUCCESS",
                                       !.reference = result.reference])
          /\ Finish(w, "completed")
       \/ /\ result.success /\ ~Evidence(result, call[w].ref)
          /\ Finish(w, "error")
          /\ UNCHANGED row
       \/ /\ ~result.success
          /\ SaveRow(a, [row[a] EXCEPT !.status = "FAILED"])
          /\ Finish(w, "rejected")
    /\ UNCHANGED <<setting, session>>

PersistDuplicate(w) ==
    LET a == call[w].attempt IN
    /\ Serves(w, "verify", "persist")
    /\ row[a].status # "PENDING"
    /\ Finish(w, IF Agrees(a, call[w].result) THEN "completed" ELSE "error")
    /\ UNCHANGED <<setting, row, session>>

Next ==
    \/ \E g \in Gateways : SettingChanges(g)
    \/ \E a \in Attempts : CustomerPays(a) \/ CustomerPaysShort(a) \/ CustomerDeclines(a)
    \/ \E w \in Workers, a \in Attempts : StartPayment(w, a)
    \/ \E w \in Workers, authority \in Authorities : SessionOpened(w, authority)
    \/ \E w \in Workers, a \in Attempts :
          \E ref \in (Attempts \ {a}) \cup {None} : CallbackArrives(w, a, ref)
    \/ \E w \in Workers, b \in Attempts : PaymentSettled(w, b) \/ ShortPaymentReported(w, b)
    \/ \E w \in Workers :
          \/ Unsupported(w) \/ Lost(w) \/ WorkerDies(w)
          \/ SessionRefused(w) \/ PersistInitiation(w)
          \/ BeginVerification(w) \/ PaymentDenied(w) \/ UnreadableBody(w)
          \/ PersistVerification(w) \/ PersistDuplicate(w)

Spec == Init /\ [][Next]_vars

(***************************************************************************)
(* Safety.                                                                 *)
(***************************************************************************)
\* Behind every successful payment there is money: the gateway the payment
\* was created with has settled the full amount under the authority and the
\* reference of the row, whatever the default gateway is by now, however many
\* gateways issued the same authority, whatever a callback claims.
SuccessIsSettled ==
    \A a \in Attempts : row[a].status = "SUCCESS" =>
        /\ session[a].state = "settled"
        /\ session[a].at = row[a].gateway
        /\ session[a].authority = row[a].authority
        /\ row[a].reference = a

\* "Unknown gateway outcomes never become confirmed failures merely because
\* communication failed": a failed payment was refused by its own gateway, in
\* an answer about its own session, or an answer about it could not be read.
FailureIsRefusal ==
    \A a \in Attempts : row[a].status = "FAILED" =>
        session[a].refused # {} \/ session[a].garbled

\* Money under a failed payment has one of two causes: its gateway refused while
\* the customer was still there (a callback that came before the decision), or
\* ZarinPal's client could not read the body.  Otherwise nobody has paid, and
\* nobody will: neither a lost answer, nor a callback of another session, nor
\* one of a session paid with another amount ends a payment that has money.
FailedIsUnpaid ==
    \A a \in Attempts :
        row[a].status = "FAILED" /\ "open" \notin session[a].refused /\ ~session[a].garbled
        => session[a].state \in {"none", "declined"}

\* The browser is only redirected to order:completed for a successful payment,
\* also when two callbacks race and the later one finds the row changed.
CompletedIsSuccessful ==
    \A w \in Workers : call[w].outcome = "completed" =>
        row[call[w].attempt].status = "SUCCESS"

=============================================================================
