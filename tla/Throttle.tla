------------------------------ MODULE Throttle ------------------------------
(***************************************************************************)
(* The throttle of OTP requests: core/accounts/services/throttle.py.       *)
(*                                                                         *)
(* One counter in the cache for an address and an email.  Each cache call  *)
(* is atomic, the sequence of calls that a request makes is not, and the   *)
(* key can expire between any two of them.                                 *)
(***************************************************************************)
EXTENDS Integers, FiniteSets

CONSTANTS
    Requests,      \* the requests that ever arrive under this key
    Limit,
    MaxWindows     \* bound: how often the key is established

\* Assumed by MCAccounts, for its instance.
ThrottleAssumption ==
    /\ Limit \in Nat \ {0} /\ MaxWindows \in Nat \ {0}
    /\ IsFiniteSet(Requests)

VARIABLES
    key,        \* the cache entry
    window,     \* how often the entry has been established (history)
    request     \* where each request is, and the window it was counted in

vars == <<key, window, request>>

\* add: before the first cache.add; incr, readd, incr_again: before the calls
\* that follow when a call finds the key present, or gone; undo: before decr.
Stage == {"add", "incr", "readd", "incr_again", "undo", "accepted", "refused", "error"}
Request == [at : Stage, window : 0 .. MaxWindows]

TypeOK ==
    /\ key \in [present : BOOLEAN, count : Int]
    /\ window \in 0 .. MaxWindows
    /\ request \in [Requests -> Request]

Init ==
    /\ key = [present |-> FALSE, count |-> 0]
    /\ window = 0
    /\ request = [r \in Requests |-> [at |-> "add", window |-> 0]]

Goes(r, at) == request' = [request EXCEPT ![r].at = at]
Counted(r, at, w) == request' = [request EXCEPT ![r] = [at |-> at, window |-> w]]

\* cache.add establishes the key only if it is absent.
Establish(r) ==
    /\ ~key.present /\ window < MaxWindows
    /\ key' = [present |-> TRUE, count |-> 1]
    /\ window' = window + 1
    /\ Counted(r, "accepted", window + 1)

(***************************************************************************)
(* Plausible mistakes, used by no specification.                           *)
(***************************************************************************)
\* The last place is never given away.
IncrAtLimit(r) ==
    /\ request[r].at \in {"incr", "incr_again"} /\ key.present
    /\ key' = [key EXCEPT !.count = key.count + 1]
    /\ Counted(r, IF key.count + 1 >= Limit THEN "undo" ELSE "accepted", window)
    /\ UNCHANGED window

(***************************************************************************)
(* check_and_increment_otp_throttle, one cache call at a time.             *)
(***************************************************************************)
Add(r) == request[r].at \in {"add", "readd"} /\ Establish(r)

AddFindsKey(r) ==
    /\ request[r].at \in {"add", "readd"} /\ key.present
    /\ Goes(r, IF request[r].at = "add" THEN "incr" ELSE "incr_again")
    /\ UNCHANGED <<key, window>>

Incr(r) ==
    /\ request[r].at \in {"incr", "incr_again"} /\ key.present
    /\ key' = [key EXCEPT !.count = key.count + 1]
    /\ Counted(r, IF key.count + 1 > Limit THEN "undo" ELSE "accepted", window)
    /\ UNCHANGED window

\* incr raises ValueError when the key is gone: it is established again, once.
IncrFindsNoKey(r) ==
    /\ request[r].at \in {"incr", "incr_again"} /\ ~key.present
    /\ Goes(r, IF request[r].at = "incr" THEN "readd" ELSE "error")
    /\ UNCHANGED <<key, window>>

\* The request is refused, and gives its place back to whatever key is there.
Undo(r) ==
    /\ request[r].at = "undo" /\ key.present
    /\ key' = [key EXCEPT !.count = key.count - 1]
    /\ Goes(r, "refused")
    /\ UNCHANGED window

\* decr raises ValueError, which nothing handles.
UndoFindsNoKey(r) ==
    /\ request[r].at = "undo" /\ ~key.present
    /\ Goes(r, "error")
    /\ UNCHANGED <<key, window>>

\* The timeout given to the last cache.add has run out.
Expire ==
    /\ key.present
    /\ key' = [present |-> FALSE, count |-> 0]
    /\ UNCHANGED <<window, request>>

Next ==
    \/ \E r \in Requests : Add(r) \/ AddFindsKey(r) \/ Incr(r) \/ IncrFindsNoKey(r)
                           \/ Undo(r) \/ UndoFindsNoKey(r)
    \/ Expire

Spec == Init /\ [][Next]_vars

(***************************************************************************)
(* Properties.                                                             *)
(***************************************************************************)
Accepted(w) == {r \in Requests : request[r].at = "accepted" /\ request[r].window = w}
Overcounted(w) == {r \in Requests : request[r].at \in {"undo", "refused", "error"}
                                    /\ request[r].window = w}

\* A request is refused only in a window in which Limit requests were accepted:
\* the places that others have taken and not yet given back cost nobody theirs.
RefusedOnlyWhenFull ==
    \A r \in Requests : request[r].at \in {"undo", "refused"} =>
        Cardinality(Accepted(request[r].window)) >= Limit

\* More than Limit requests are accepted in a window only for refused requests of
\* earlier windows, which gave back a place they had in a key that is gone.
OvershootHasACause ==
    \A w \in 1 .. window :
        Cardinality(Accepted(w)) <= Limit + Cardinality(UNION {Overcounted(v) : v \in 1 .. w - 1})

\* "Raises OTPThrottleException if limit exceeded."
WindowWithinLimit == \A w \in 1 .. window : Cardinality(Accepted(w)) <= Limit
=============================================================================
