------------------------------ MODULE Sessions ------------------------------
(***************************************************************************)
(* Device sessions and refresh tokens of one user: core/accounts/services/ *)
(* session_service.py, token_service.py, jwt.py and authentication.py.     *)
(*                                                                         *)
(* A transaction that runs several statements is split where another can   *)
(* come between them; rows are visible when it commits, locks are held     *)
(* from the statement that takes them.  A token is known by its row: its   *)
(* family never leaves its session, so the family is the session.          *)
(***************************************************************************)
EXTENDS Naturals, FiniteSets

CONSTANTS
    Sessions,
    Tokens,
    Workers,
    MaxTimeouts     \* bound: sessions and tokens that pass their time limit

ASSUME SessionsAssumption == MaxTimeouts \in Nat

VARIABLES
    session,       \* DeviceSession rows
    token,         \* RefreshToken rows
    worker,        \* the transaction of each worker
    timeouts,      \* how many time limits have passed
    overlapped,    \* sessions created during a logout_all (history)
    reused,        \* sessions for which "Token reuse detected" was raised (history)
    idled          \* sessions for which "Session expired" was raised (history)

vars == <<session, token, worker, timeouts, overlapped, reused, idled>>
history == <<overlapped, reused, idled>>

SessionState == {"none", "active", "revoked"}
NoToken == [exists |-> FALSE]
TokenRow == [exists : {TRUE}, session : Sessions, is_revoked : BOOLEAN, is_expired : BOOLEAN]

Idle == [at |-> "idle", locked |-> {}]
\* rotate: session and token are locked and checked; all, others: the sessions
\* that the first statement of logout_all or logout_others has locked.
Job ==
    {Idle}
    \cup [at : {"rotate"}, locked : SUBSET Sessions, token : Tokens]
    \cup [at : {"all"}, locked : SUBSET Sessions, known : SUBSET Sessions]
    \cup [at : {"others"}, locked : SUBSET Sessions, current : Sessions]

TypeOK ==
    /\ session \in [Sessions -> [state : SessionState, idle : BOOLEAN]]
    /\ token \in [Tokens -> {NoToken} \cup TokenRow]
    /\ worker \in [Workers -> Job]
    /\ timeouts \in Nat
    /\ overlapped \subseteq Sessions /\ reused \subseteq Sessions /\ idled \subseteq Sessions

Init ==
    /\ session = [s \in Sessions |-> [state |-> "none", idle |-> FALSE]]
    /\ token = [t \in Tokens |-> NoToken]
    /\ worker = [w \in Workers |-> Idle]
    /\ timeouts = 0
    /\ overlapped = {} /\ reused = {} /\ idled = {}

Active(s) == session[s].state = "active"
ActiveSessions == {s \in Sessions : Active(s)}
Issued == {t \in Tokens : token[t].exists}
TokensOf(sessions) == {t \in Issued : token[t].session \in sessions}
Unrevoked(s) == {t \in TokensOf({s}) : ~token[t].is_revoked}
Locked(s) == \E w \in Workers : s \in worker[w].locked
Free(sessions) == \A s \in sessions : ~Locked(s)

NewToken(s) == [exists |-> TRUE, session |-> s, is_revoked |-> FALSE, is_expired |-> FALSE]
Begin(w, job) == worker[w] = Idle /\ worker' = [worker EXCEPT ![w] = job]
Commit(w) == worker' = [worker EXCEPT ![w] = Idle]
Revoke(sessions) ==
    session' = [s \in Sessions |->
        IF s \in sessions THEN [session[s] EXCEPT !.state = "revoked"] ELSE session[s]]
\* UPDATE ... SET is_revoked WHERE NOT is_revoked.
RevokeTokens(tokens) ==
    token' = [t \in Tokens |->
        IF t \in tokens THEN [token[t] EXCEPT !.is_revoked = TRUE] ELSE token[t]]

(***************************************************************************)
(* Plausible mistakes, used by no specification.                           *)
(***************************************************************************)
\* Neither the session nor the token is locked.
BeginRotationUnlocked(w, t) ==
    /\ t \in Issued /\ Active(token[t].session)
    /\ ~token[t].is_revoked /\ ~token[t].is_expired
    /\ Begin(w, [at |-> "rotate", locked |-> {}, token |-> t])
    /\ UNCHANGED <<session, token, timeouts, history>>

\* Sessions that are being rotated are skipped.
BeginLogoutAllSkipping(w) ==
    LET unlocked == {s \in ActiveSessions : ~Locked(s)} IN
    /\ Begin(w, [at |-> "all", locked |-> unlocked, known |-> ActiveSessions])
    /\ UNCHANGED <<session, token, timeouts, history>>

(***************************************************************************)
(* SessionService.create_session.                                          *)
(***************************************************************************)
CreateSession(s, t) ==
    /\ session[s].state = "none" /\ t \notin Issued
    /\ session' = [session EXCEPT ![s].state = "active"]
    /\ token' = [token EXCEPT ![t] = NewToken(s)]
    /\ overlapped' = IF \E w \in Workers : worker[w].at = "all" THEN overlapped \cup {s}
                     ELSE overlapped
    /\ UNCHANGED <<worker, timeouts, reused, idled>>

(***************************************************************************)
(* TokenService.rotate_refresh_token: the session is locked first.  A      *)
(* session that is not active, or does not exist, is refused unchanged.    *)
(***************************************************************************)
BeginRotation(w, t) ==
    /\ t \in Issued /\ Active(token[t].session) /\ ~Locked(token[t].session)
    /\ ~token[t].is_revoked /\ ~token[t].is_expired
    /\ Begin(w, [at |-> "rotate", locked |-> {token[t].session}, token |-> t])
    /\ UNCHANGED <<session, token, timeouts, history>>

\* The token is revoked and its successor, of the same family, is inserted.
CommitRotation(w, new) ==
    /\ worker[w].at = "rotate" /\ new \notin Issued
    /\ LET old == worker[w].token IN
       token' = [token EXCEPT ![old].is_revoked = TRUE, ![new] = NewToken(token[old].session)]
    /\ Commit(w)
    /\ UNCHANGED <<session, timeouts, history>>

\* _handle_token_reuse revokes the session and its tokens, and the exception
\* that follows rolls its transaction back: nothing is written.
DetectReuse(w, t) ==
    LET s == token[t].session IN
    /\ worker[w] = Idle /\ t \in Issued /\ Active(s) /\ ~Locked(s)
    /\ token[t].is_revoked \/ token[t].is_expired
    /\ reused' = reused \cup {s}
    /\ UNCHANGED <<session, token, worker, timeouts, overlapped, idled>>

(***************************************************************************)
(* The ways to log out.                                                    *)
(***************************************************************************)
\* revoke_session holds the lock of the session for both of its statements, and
\* only a holder of that lock gives a session tokens: nothing comes in between.
RevokeSession(s) ==
    /\ session[s].state # "none" /\ ~Locked(s)
    /\ Revoke({s})
    /\ RevokeTokens(TokensOf({s}))
    /\ UNCHANGED <<worker, timeouts, history>>

\* The first UPDATE takes the sessions that are active when it starts.
BeginLogoutAll(w) ==
    /\ Free(ActiveSessions)
    /\ Begin(w, [at |-> "all", locked |-> ActiveSessions, known |-> ActiveSessions])
    /\ UNCHANGED <<session, token, timeouts, history>>

\* The second takes the tokens of all sessions that the user has by then.
CommitLogoutAll(w) ==
    /\ worker[w].at = "all"
    /\ Revoke(worker[w].locked)
    /\ RevokeTokens(Issued)
    /\ Commit(w)
    /\ UNCHANGED <<timeouts, history>>

\* The ids are read, and their rows locked, by a query of their own.
BeginLogoutOthers(w, current) ==
    LET others == ActiveSessions \ {current} IN
    /\ session[current].state # "none" /\ Free(others)
    /\ Begin(w, [at |-> "others", locked |-> others, current |-> current])
    /\ UNCHANGED <<session, token, timeouts, history>>

\* The update evaluates the filter again, the tokens are those of the ids.
CommitLogoutOthers(w) ==
    LET others == ActiveSessions \ {worker[w].current} IN
    /\ worker[w].at = "others"
    /\ Free(others \ worker[w].locked)
    /\ Revoke(others)
    /\ RevokeTokens(TokensOf(worker[w].locked))
    /\ Commit(w)
    /\ UNCHANGED <<timeouts, history>>

(***************************************************************************)
(* JWTAuthentication.authenticate.  A session in use is given a new        *)
(* last_seen, so that it is not idle: GoIdle takes the others.             *)
(***************************************************************************)
\* The session is saved as revoked, and the exception rolls that back.
RefuseIdle(s) ==
    /\ Active(s) /\ session[s].idle /\ ~Locked(s)
    /\ idled' = idled \cup {s}
    /\ UNCHANGED <<session, token, worker, timeouts, overlapped, reused>>

(***************************************************************************)
(* Time, and death.                                                        *)
(***************************************************************************)
GoIdle(s) ==
    /\ Active(s) /\ ~session[s].idle /\ timeouts < MaxTimeouts
    /\ session' = [session EXCEPT ![s].idle = TRUE]
    /\ timeouts' = timeouts + 1
    /\ UNCHANGED <<token, worker, history>>

ExpireToken(t) ==
    /\ t \in Issued /\ ~token[t].is_expired /\ timeouts < MaxTimeouts
    /\ token' = [token EXCEPT ![t].is_expired = TRUE]
    /\ timeouts' = timeouts + 1
    /\ UNCHANGED <<session, worker, history>>

Crash(w) ==
    /\ worker[w] # Idle
    /\ Commit(w)
    /\ UNCHANGED <<session, token, timeouts, history>>

Next ==
    \/ \E s \in Sessions :
          \/ \E t \in Tokens : CreateSession(s, t)
          \/ RevokeSession(s) \/ RefuseIdle(s) \/ GoIdle(s)
    \/ \E t \in Tokens : ExpireToken(t)
    \/ \E w \in Workers :
          \/ \E t \in Tokens : BeginRotation(w, t) \/ CommitRotation(w, t) \/ DetectReuse(w, t)
          \/ BeginLogoutAll(w) \/ CommitLogoutAll(w)
          \/ \E s \in Sessions : BeginLogoutOthers(w, s)
          \/ CommitLogoutOthers(w) \/ Crash(w)

Spec == Init /\ [][Next]_vars

(***************************************************************************)
(* Properties.                                                             *)
(***************************************************************************)
\* A session has at most one token that is not revoked, however many clients
\* present the last one at the same time.
OneUnrevokedToken == \A s \in Sessions : Cardinality(Unrevoked(s)) <= 1

\* A session that has ended stays ended, and none of its tokens is exchanged for
\* a new one, even if the exchange began before the end.
EndedIsFinal ==
    [][\A s \in Sessions : session[s].state = "revoked" =>
          /\ session'[s].state = "revoked"
          /\ \A t \in Tokens : token'[t].exists /\ token'[t].session = s => t \in Issued]_vars

\* logout_all ends every session that was active when it began, with its tokens,
\* whatever is rotated, created or revoked meanwhile.
LogoutAllIsComplete ==
    [][\A w \in Workers : worker[w].at = "all" /\ <<session, token>>' # <<session, token>>
                          /\ worker'[w] = Idle =>
          \A s \in worker[w].known :
              /\ session'[s].state = "revoked"
              /\ \A t \in TokensOf({s}) : token'[t].is_revoked]_vars

\* Only a login that overlaps with a logout_all can give a session that is active
\* and has no token left: neither refused tokens nor deaths cost a client his.
ActiveSessionHasToken ==
    \A s \in Sessions \ overlapped : Active(s) => Unrevoked(s) # {}

\* A client that is logged in holds one token that can be exchanged: never two,
\* and none only if the login overlapped with a logout_all.
OneValidToken == OneUnrevokedToken /\ ActiveSessionHasToken

\* What a logout has ended stays ended, and a logout from everywhere ends it all,
\* whatever rotations and logins it overlaps with.
LogoutIsFinal == EndedIsFinal /\ LogoutAllIsComplete

\* "all other refresh tokens revoked": a session that has ended has none left.
EndedSessionHasNoToken ==
    \A s \in Sessions : session[s].state = "revoked" => Unrevoked(s) = {}

\* "Token reuse detected": the session has been revoked with its tokens.
ReuseEndsSession == \A s \in reused : ~Active(s)

\* "Session expired": the session has been revoked.
IdleSessionEnds == \A s \in idled : ~Active(s)
=============================================================================
