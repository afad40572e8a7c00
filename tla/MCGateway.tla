------------------------------ MODULE MCGateway ------------------------------
(***************************************************************************)
(* Two views of a payment at its gateway, for TLC: the rows of one         *)
(* payment's attempts, method by method, and the answers about several     *)
(* payments, gateway by gateway.  The views share no variable, and each    *)
(* property is about one of them: which one runs is chosen at the start.   *)
(***************************************************************************)
EXTENDS AttemptRows, TLC

CONSTANTS
    Attempts, Gateways, Registered, ZarinPal,
    Issued,         \* authorities, as GatewayCalls knows them
    Unreadable

VARIABLES view, setting, payment, session, call

callVars == <<setting, payment, session, call>>

Calls == INSTANCE GatewayCalls WITH row <- payment, Authorities <- Issued

ASSUME ViewsAssumption == Calls!GatewaysAssumption

ViewsInit ==
    /\ view \in {"rows", "calls"}
    /\ Init /\ Calls!Init
    /\ view = "rows" => setting = ZarinPal

ViewsNext ==
    \/ view = "rows" /\ Next /\ UNCHANGED <<view, callVars>>
    \/ view = "calls" /\ Calls!Next /\ UNCHANGED <<view, vars>>

ViewsSpec == ViewsInit /\ [][ViewsNext]_<<view, vars, callVars>>

(***************************************************************************)
(* The properties of GatewayCalls, stated and explained there.             *)
(***************************************************************************)
\* Every attempt, payment, session and request keeps its type.
ViewsTyped == TypeOK /\ Calls!TypeOK

\* Behind every successful payment there is a settlement of its own, and the
\* customer is told of a success only if there is one.
SuccessIsSettled == Calls!SuccessIsSettled /\ Calls!CompletedIsSuccessful

\* A payment fails by a refusal of its own gateway, or by a body of ZarinPal that
\* cannot be read; there is money under it only then, or by an early callback.
FailureIsRefusal == Calls!FailureIsRefusal /\ Calls!FailedIsUnpaid

Symmetry ==
    Permutations(Workers) \cup Permutations(References) \cup Permutations(Issued)
    \cup Permutations(Attempts)
=============================================================================
