-------------------------------- MODULE Otp --------------------------------
(***************************************************************************)
(* One-time passwords of one email: core/accounts/services/otp_service.py  *)
(* and core/accounts/models/otp.py.                                        *)
(*                                                                         *)
(* Workers serve requests for a code and verifications of one, each in a   *)
(* transaction whose reads and writes other transactions may separate.     *)
(* Codes are numbered in the order of created_date.  What is typed in is   *)
(* only right or wrong for the row it is compared with.  A request that    *)
(* the throttle refuses is one that is never made.                         *)
(***************************************************************************)
EXTENDS Integers, FiniteSets

CONSTANTS
    Purposes,
    Workers,
    Lifetime,         \* OTP_EXPIRE_MINUTES
    MinInterval,      \* OTP_MIN_INTERVAL_SECONDS, in ticks
    Window,           \* ten minutes, in ticks
    MaxPerWindow,     \* OTP_MAX_PER_10_MIN
    MaxAttempts,      \* MAX_VERIFY_ATTEMPTS
    MaxCodes,         \* bound: codes ever created
    MaxClock,         \* bound: ticks
    MaxFailures       \* bound: wrong codes typed in

\* Assumed by MCAccounts, for its instance.
OtpAssumption ==
    /\ \A n \in {Lifetime, MinInterval, Window, MaxPerWindow, MaxAttempts, MaxCodes, MaxClock,
                 MaxFailures} : n \in Nat
    /\ MaxPerWindow > 0
    /\ IsFiniteSet(Workers)

Codes == 1 .. MaxCodes

VARIABLES
    clock,
    code,        \* EmailOTP rows
    worker,      \* the transaction of each worker
    admitted,    \* how often a code was accepted (history)
    refused      \* how many wrong codes were compared with a row (history)

vars == <<clock, code, worker, admitted, refused>>

NoCode == [exists |-> FALSE]
CodeRow == [exists : {TRUE}, purpose : Purposes, is_consumed : BOOLEAN,
            created : 0 .. MaxClock, expires : 0 .. MaxClock + Lifetime, attempts : Nat]

\* Before the rate limits, before the insertion, or with a row locked and read.
Idle == [at |-> "idle"]
Job ==
    {Idle}
    \cup [at : {"limits", "create"}, purpose : Purposes, now : 0 .. MaxClock]
    \cup [at : {"compare"}, code : Codes, row : CodeRow]

TypeOK ==
    /\ clock \in 0 .. MaxClock
    /\ code \in [Codes -> {NoCode} \cup CodeRow]
    /\ worker \in [Workers -> Job]
    /\ admitted \in [Codes -> Nat] /\ refused \in Nat

Init ==
    /\ clock = 0
    /\ code = [c \in Codes |-> NoCode]
    /\ worker = [w \in Workers |-> Idle]
    /\ admitted = [c \in Codes |-> 0] /\ refused = 0

Created == {c \in Codes : code[c].exists}
Live(p) == {c \in Created : /\ code[c].purpose = p /\ ~code[c].is_consumed
                            /\ code[c].expires > clock}
Newest(c, codes) == c \in codes /\ \A d \in codes : d <= c
Locked(c) == \E w \in Workers : worker[w].at = "compare" /\ worker[w].code = c

Goes(w, job) == worker' = [worker EXCEPT ![w] = job]

(***************************************************************************)
(* Plausible mistakes, used by no specification.                           *)
(***************************************************************************)
GenerateAnyway(w, p) ==
    /\ worker[w] = Idle
    /\ Goes(w, [at |-> "limits", purpose |-> p, now |-> clock])
    /\ UNCHANGED <<clock, code, admitted, refused>>

\* verify_otp without for_update.
LockNewestUnlocked(w, p) ==
    /\ worker[w] = Idle
    /\ \E c \in Live(p) : Newest(c, Live(p)) /\ Goes(w, [at |-> "compare", code |-> c, row |-> code[c]])
    /\ UNCHANGED <<clock, code, admitted, refused>>

\* The lifetime is taken for minutes, the clock for seconds.
CreateLongLived(w) ==
    /\ worker[w].at = "create"
    /\ \E c \in Codes \ Created :
          /\ \A d \in Codes \ Created : c <= d
          /\ code' = [code EXCEPT ![c] =
                [exists |-> TRUE, purpose |-> worker[w].purpose, is_consumed |-> FALSE,
                 created |-> clock, expires |-> worker[w].now + 60 * Lifetime, attempts |-> 0]]
    /\ Goes(w, Idle)
    /\ UNCHANGED <<clock, admitted, refused>>

(***************************************************************************)
(* generate_or_reuse_otp.  With a live code it returns that row, which     *)
(* changes nothing; it waits for the row if a verification has locked it.  *)
(***************************************************************************)
FindNoLiveCode(w, p) ==
    /\ worker[w] = Idle
    /\ Live(p) = {}
    /\ Goes(w, [at |-> "limits", purpose |-> p, now |-> clock])
    /\ UNCHANGED <<clock, code, admitted, refused>>

\* _rate_limit_check counts the codes of every purpose.
WithinLimits ==
    /\ \A c \in Created : clock - code[c].created >= MinInterval
    /\ Cardinality({c \in Created : clock - code[c].created <= Window}) < MaxPerWindow

CheckLimits(w) ==
    /\ worker[w].at = "limits"
    /\ Goes(w, IF WithinLimits THEN [worker[w] EXCEPT !.at = "create"] ELSE Idle)
    /\ UNCHANGED <<clock, code, admitted, refused>>

\* The row expires Lifetime after the request began, not after created_date.
CreateCode(w) ==
    /\ worker[w].at = "create"
    /\ \E c \in Codes \ Created :
          /\ \A d \in Codes \ Created : c <= d
          /\ code' = [code EXCEPT ![c] =
                [exists |-> TRUE, purpose |-> worker[w].purpose, is_consumed |-> FALSE,
                 created |-> clock, expires |-> worker[w].now + Lifetime, attempts |-> 0]]
    /\ Goes(w, Idle)
    /\ UNCHANGED <<clock, admitted, refused>>

(***************************************************************************)
(* verify_otp.                                                             *)
(***************************************************************************)
\* _get_valid_otp waits for a row that is locked, and looks again.
LockNewest(w, p) ==
    /\ worker[w] = Idle
    /\ \E c \in Live(p) :
          /\ Newest(c, Live(p)) /\ ~Locked(c)
          /\ Goes(w, [at |-> "compare", code |-> c, row |-> code[c]])
    /\ UNCHANGED <<clock, code, admitted, refused>>

Admit(w) ==
    /\ worker[w].at = "compare"
    /\ LET c == worker[w].code  row == worker[w].row IN
       /\ ~row.is_consumed /\ clock < row.expires /\ row.attempts < MaxAttempts
       /\ code' = [code EXCEPT ![c].is_consumed = TRUE]
       /\ admitted' = [admitted EXCEPT ![c] = admitted[c] + 1]
    /\ Goes(w, Idle)
    /\ UNCHANGED <<clock, refused>>

\* attempts is raised and saved, and then the exception rolls the
\* transaction back: only the history remembers it.
RefuseWrongCode(w) ==
    /\ worker[w].at = "compare"
    /\ LET c == worker[w].code  row == worker[w].row IN
       /\ ~row.is_consumed /\ clock < row.expires /\ row.attempts < MaxAttempts
    /\ refused < MaxFailures
    /\ refused' = refused + 1
    /\ Goes(w, Idle)
    /\ UNCHANGED <<clock, code, admitted>>

\* The code expired after it was read: is_consumed is saved, and rolled back.
\* A worker that dies ends in the same way.
GiveUp(w) ==
    /\ worker[w] # Idle
    /\ Goes(w, Idle)
    /\ UNCHANGED <<clock, code, admitted, refused>>

Tick ==
    /\ clock < MaxClock
    /\ clock' = clock + 1
    /\ UNCHANGED <<code, worker, admitted, refused>>

Next ==
    \/ \E w \in Workers :
          \/ \E p \in Purposes : FindNoLiveCode(w, p) \/ LockNewest(w, p)
          \/ CheckLimits(w) \/ CreateCode(w)
          \/ Admit(w) \/ RefuseWrongCode(w) \/ GiveUp(w)
    \/ Tick

Spec == Init /\ [][Next]_vars

(***************************************************************************)
(* Properties.                                                             *)
(***************************************************************************)
\* A code is accepted once, by however many workers it is verified at a time,
\* and it is consumed exactly if it was accepted.
AcceptedOnce ==
    \A c \in Codes : /\ admitted[c] <= 1
                     /\ admitted[c] = 1 <=> (c \in Created /\ code[c].is_consumed)

\* No code is accepted at or after its expiry, however long its transaction
\* waited between reading the row and comparing the code.
AcceptsInTime == \A c \in Codes : admitted'[c] > admitted[c] => clock < code[c].expires

\* The limits are checked before the row is inserted, and nothing locks the email:
\* concurrent requests can pass together, but no more of them than there are
\* workers, and no request passes that began after the limit was reached.
VolumeNearLimit ==
    \A t \in 0 .. MaxClock :
        Cardinality({c \in Created : code[c].created \in t .. t + Window})
            <= MaxPerWindow - 1 + Cardinality(Workers)

\* "Generates a new OTP or reuses a valid existing one": a live code is reused,
\* so that there are no more of them than requests that looked for one at once,
\* whatever has expired or been consumed meanwhile.
LiveCodesAreFew == \A p \in Purposes : Cardinality(Live(p)) <= Cardinality(Workers)

\* "Too many failed attempts": a wrong code leaves a mark in the row it was
\* compared with.
WrongCodesAreCounted == refused > 0 => \E c \in Created : code[c].attempts > 0
=============================================================================
