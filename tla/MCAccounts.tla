----------------------------- MODULE MCAccounts -----------------------------
(***************************************************************************)
(* The parts of the accounts for TLC: sessions, one-time passwords and the *)
(* throttle in front of them.  They share no row and no lock, and each     *)
(* property is about one of them, so each part runs by itself: which one   *)
(* does is chosen at the start.                                            *)
(***************************************************************************)
EXTENDS Sessions, TLC

CONSTANTS
    Purposes, Lifetime, MinInterval, Window, MaxPerWindow, MaxAttempts, MaxCodes, MaxClock,
    MaxFailures,
    Requests, Limit, MaxWindows

VARIABLES
    part,
    clock, code, verifier, admitted, refused,
    key, window, request

otpVars == <<clock, code, verifier, admitted, refused>>
throttleVars == <<key, window, request>>

OneTime == INSTANCE Otp WITH worker <- verifier
Counter == INSTANCE Throttle

ASSUME PartsAssumption == OneTime!OtpAssumption /\ Counter!ThrottleAssumption

PartsInit ==
    /\ part \in {"sessions", "codes", "counter"}
    /\ Init /\ OneTime!Init /\ Counter!Init

PartsNext ==
    \/ part = "sessions" /\ Next /\ UNCHANGED <<part, otpVars, throttleVars>>
    \/ part = "codes" /\ OneTime!Next /\ UNCHANGED <<part, vars, throttleVars>>
    \/ part = "counter" /\ Counter!Next /\ UNCHANGED <<part, vars, otpVars>>

PartsSpec == PartsInit /\ [][PartsNext]_<<part, vars, otpVars, throttleVars>>

(***************************************************************************)
(* The properties of Otp and Throttle, stated and explained there.         *)
(***************************************************************************)
\* Every session, token, code, counter and request in flight keeps its type.
PartsTyped == TypeOK /\ OneTime!TypeOK /\ Counter!TypeOK

\* A code is accepted once, consumed exactly if it was accepted, and not accepted
\* at or after its expiry, by however many workers verify it at once.
AcceptedOnceInTime ==
    [][OneTime!AcceptedOnce' /\ OneTime!AcceptsInTime]_otpVars

\* Concurrent requests pass the volume limit by fewer codes than there are workers,
\* and leave no more live codes than requests that looked for one at once.
CodesAreFew == OneTime!VolumeNearLimit /\ OneTime!LiveCodesAreFew

\* Nobody is refused in a window with room, and the limit is passed only by as
\* many requests as were refused late.
CountIsFair == Counter!RefusedOnlyWhenFull /\ Counter!OvershootHasACause

Symmetry ==
    Permutations(Tokens) \cup Permutations(Workers)
=============================================================================
