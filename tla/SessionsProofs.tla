--------------------------- MODULE SessionsProofs ---------------------------
(***************************************************************************)
(* Proofs about Sessions, for any number of sessions, tokens, workers and  *)
(* time limits that pass.                                                  *)
(***************************************************************************)
EXTENDS Sessions, FiniteSetTheorems, TLAPS

(***************************************************************************)
(* The inductive invariant.                                                *)
(***************************************************************************)
\* Nobody waits in the model: a lock is held by one transaction.
LocksDisjoint == \A v, w \in Workers : v # w => worker[v].locked \cap worker[w].locked = {}

\* t can be exchanged for another token of s.
Held(t, s) == token[t].exists /\ token[t].session = s /\ ~token[t].is_revoked

AtMostOneToken ==
    \A s \in Sessions, t, u \in Tokens : Held(t, s) /\ Held(u, s) => t = u
TokensLinked ==
    \A t \in Tokens : token[t].exists => session[token[t].session].state # "none"
ActiveHolds == \A s \in Sessions \ overlapped : Active(s) => \E t \in Tokens : Held(t, s)

\* A rotation holds its session, which stays active, and the only token that it
\* can still have is the one that is being exchanged.
RotationCoherent(w) ==
    worker[w].at = "rotate" =>
        LET s == token[worker[w].token].session IN
        /\ token[worker[w].token].exists /\ s \in worker[w].locked /\ Active(s)
        /\ \A t \in Tokens : Held(t, s) => t = worker[w].token

\* A logout_all knows the sessions it has locked, and misses only new ones.
LogoutCoherent(w) ==
    /\ worker[w].at = "all" =>
          /\ worker[w].known = worker[w].locked
          /\ \A s \in Sessions : Active(s) => s \in worker[w].locked \/ s \in overlapped
    /\ worker[w].at = "others" => worker[w].current \notin worker[w].locked

SessionsInvariant ==
    /\ TypeOK /\ LocksDisjoint /\ AtMostOneToken /\ TokensLinked /\ ActiveHolds
    /\ \A w \in Workers : RotationCoherent(w) /\ LogoutCoherent(w)

EndedStep ==
    \A s \in Sessions : session[s].state = "revoked" =>
        /\ session'[s].state = "revoked"
        /\ \A t \in Tokens : token'[t].exists /\ token'[t].session = s => t \in Issued
LogoutAllStep ==
    \A w \in Workers : worker[w].at = "all" /\ <<session, token>>' # <<session, token>>
                       /\ worker'[w] = Idle =>
        \A s \in worker[w].known :
            /\ session'[s].state = "revoked"
            /\ \A t \in TokensOf({s}) : token'[t].is_revoked
Steps == SessionsInvariant' /\ EndedStep /\ LogoutAllStep

(***************************************************************************)
(* Types.                                                                  *)
(***************************************************************************)
LEMMA SessionRows ==
  ASSUME TypeOK, NEW s \in Sessions
  PROVE  session[s] \in [state : SessionState, idle : BOOLEAN]
  BY DEF TypeOK

LEMMA TokenRows ==
  ASSUME TypeOK, NEW t \in Tokens
  PROVE  /\ token[t] = NoToken \/ token[t] \in TokenRow
         /\ t \in Issued <=> token[t] \in TokenRow
         /\ t \in Issued => token[t].session \in Sessions
         /\ t \notin Issued => token[t] = NoToken
<1>1. token[t] = NoToken \/ token[t] \in TokenRow
  BY DEF TypeOK
<1>2. CASE token[t] = NoToken
  <2>1. ~token[t].exists
    BY <1>2 DEF NoToken
  <2>2. token[t] \notin TokenRow
    BY <2>1 DEF TokenRow
  <2>3. QED
    BY <1>2, <2>1, <2>2 DEF Issued
<1>3. CASE token[t] \in TokenRow
  <2>1. token[t].exists /\ token[t].session \in Sessions
    BY <1>3 DEF TokenRow
  <2>2. QED
    BY <1>3, <2>1 DEF Issued
<1>4. QED
  BY <1>1, <1>2, <1>3

LEMMA NewTokens ==
  ASSUME NEW s \in Sessions
  PROVE  /\ NewToken(s) \in TokenRow /\ NewToken(s).exists
         /\ NewToken(s).session = s /\ ~NewToken(s).is_revoked
  BY DEF NewToken, TokenRow

LEMMA RevokedRow ==
  ASSUME NEW r \in TokenRow
  PROVE  /\ [r EXCEPT !.is_revoked = TRUE] \in TokenRow
         /\ [r EXCEPT !.is_revoked = TRUE].exists
         /\ [r EXCEPT !.is_revoked = TRUE].is_revoked
         /\ [r EXCEPT !.is_revoked = TRUE].session = r.session
  BY DEF TokenRow

LEMMA ExpiredRow ==
  ASSUME NEW r \in TokenRow
  PROVE  /\ [r EXCEPT !.is_expired = TRUE] \in TokenRow
         /\ [r EXCEPT !.is_expired = TRUE].exists
         /\ [r EXCEPT !.is_expired = TRUE].is_revoked <=> r.is_revoked
         /\ [r EXCEPT !.is_expired = TRUE].session = r.session
  BY DEF TokenRow

LEMMA JobsTyped ==
  /\ Idle \in Job /\ Idle.at = "idle" /\ Idle.locked = {}
  /\ \A j \in Job :
        /\ j.locked \subseteq Sessions
        /\ j.at = "rotate" => j.token \in Tokens
        /\ j.at = "all" => j.known \subseteq Sessions
        /\ j.at = "others" => j.current \in Sessions
        /\ j.at = "idle" => j = Idle
  BY DEF Idle, Job

(***************************************************************************)
(* What the helpers of the actions do.                                     *)
(***************************************************************************)
LEMMA SessionsRevoked ==
  ASSUME TypeOK, NEW sessions \in SUBSET Sessions, Revoke(sessions)
  PROVE  /\ session' \in [Sessions -> [state : SessionState, idle : BOOLEAN]]
         /\ \A s \in sessions : session'[s].state = "revoked"
         /\ \A s \in Sessions : s \notin sessions => session'[s] = session[s]
  BY DEF TypeOK, Revoke, SessionState

LEMMA TokensRevoked ==
  ASSUME TypeOK, NEW tokens \in SUBSET Tokens, tokens \subseteq Issued, RevokeTokens(tokens)
  PROVE  /\ token' \in [Tokens -> {NoToken} \cup TokenRow]
         /\ \A t \in tokens : /\ token'[t].exists /\ token'[t].is_revoked
                              /\ token'[t].session = token[t].session
         /\ \A t \in Tokens : t \notin tokens => token'[t] = token[t]
<1>1. \A t \in tokens : token'[t] = [token[t] EXCEPT !.is_revoked = TRUE] /\ token[t] \in TokenRow
  BY TokenRows DEF RevokeTokens
<1>2. \A t \in Tokens : t \notin tokens => token'[t] = token[t]
  BY DEF RevokeTokens
<1>3. \A t \in tokens : /\ token'[t].exists /\ token'[t].is_revoked
                        /\ token'[t].session = token[t].session /\ token'[t] \in TokenRow
  <2> SUFFICES ASSUME NEW t \in tokens
               PROVE  /\ token'[t].exists /\ token'[t].is_revoked
                      /\ token'[t].session = token[t].session /\ token'[t] \in TokenRow
    OBVIOUS
  <2>1. token'[t] = [token[t] EXCEPT !.is_revoked = TRUE] /\ token[t] \in TokenRow
    BY <1>1
  <2>2. QED
    BY <2>1, RevokedRow
<1>4. \A t \in Tokens : token'[t] \in {NoToken} \cup TokenRow
  BY <1>2, <1>3, TokenRows
<1>5. QED
  BY <1>2, <1>3, <1>4 DEF RevokeTokens

LEMMA WorkerChanges ==
  ASSUME TypeOK, NEW w \in Workers, NEW j \in Job, worker' = [worker EXCEPT ![w] = j]
  PROVE  /\ worker' \in [Workers -> Job] /\ worker'[w] = j
         /\ \A v \in Workers : v # w => worker'[v] = worker[v]
  BY DEF TypeOK

(***************************************************************************)
(* The steps, by what they write.                                          *)
(***************************************************************************)
\* A transaction begins or dies, or nothing that matters here is written.
LEMMA JobChanges ==
  ASSUME SessionsInvariant, UNCHANGED <<session, token, overlapped>>,
         timeouts' \in Nat, reused' \subseteq Sessions, idled' \subseteq Sessions,
         NEW w \in Workers, NEW j \in Job, worker' = [worker EXCEPT ![w] = j],
         \A v \in Workers : v # w => worker[v].locked \cap j.locked = {},
         RotationCoherent(w)', LogoutCoherent(w)'
  PROVE  Steps
<1>1. TypeOK /\ LocksDisjoint
  BY DEF SessionsInvariant
<1>2. worker' \in [Workers -> Job] /\ worker'[w] = j /\ \A v \in Workers : v # w => worker'[v] = worker[v]
  BY <1>1, WorkerChanges
<1>3. TypeOK'
  BY <1>1, <1>2 DEF TypeOK
<1>4. LocksDisjoint'
  BY <1>1, <1>2 DEF LocksDisjoint
<1>5. AtMostOneToken' /\ TokensLinked' /\ ActiveHolds'
  BY DEF SessionsInvariant, AtMostOneToken, TokensLinked, ActiveHolds, Held, Active
<1>6. ASSUME NEW v \in Workers PROVE RotationCoherent(v)' /\ LogoutCoherent(v)'
  <2>1. CASE v = w
    BY <2>1
  <2>2. CASE v # w
    BY <1>2, <2>2 DEF SessionsInvariant, RotationCoherent, LogoutCoherent, Held, Active
  <2>3. QED
    BY <2>1, <2>2
<1>7. EndedStep
  BY DEF EndedStep, Issued
<1>8. LogoutAllStep
  BY DEF LogoutAllStep
<1>9. QED
  BY <1>3, <1>4, <1>5, <1>6, <1>7, <1>8 DEF Steps, SessionsInvariant

LEMMA NoJobChanges ==
  ASSUME SessionsInvariant, UNCHANGED <<session, token, overlapped, worker>>,
         timeouts' \in Nat, reused' \subseteq Sessions, idled' \subseteq Sessions
  PROVE  Steps
<1>1. TypeOK'
  BY DEF SessionsInvariant, TypeOK
<1>2. LocksDisjoint'
  BY DEF SessionsInvariant, LocksDisjoint
<1>3. AtMostOneToken' /\ TokensLinked' /\ ActiveHolds'
  BY DEF SessionsInvariant, AtMostOneToken, TokensLinked, ActiveHolds, Held, Active
<1>4. \A v \in Workers : RotationCoherent(v)' /\ LogoutCoherent(v)'
  BY DEF SessionsInvariant, RotationCoherent, LogoutCoherent, Held, Active
<1>5. EndedStep
  BY DEF EndedStep, Issued
<1>6. LogoutAllStep
  BY DEF LogoutAllStep
<1>7. QED
  BY <1>1, <1>2, <1>3, <1>4, <1>5, <1>6 DEF Steps, SessionsInvariant

\* Sessions end, tokens are revoked, nothing is created.
Shrinks ==
    /\ \A s \in Sessions :
          session'[s].state = session[s].state \/ session'[s].state = "revoked"
    /\ \A t \in Tokens :
          /\ token'[t].exists <=> token[t].exists
          /\ token[t].exists => token'[t].session = token[t].session
          /\ token[t].exists /\ token[t].is_revoked => token'[t].is_revoked

LEMMA ShrinkingKeeps ==
  ASSUME SessionsInvariant, Shrinks
  PROVE  /\ \A s \in Sessions, t \in Tokens : Held(t, s)' => Held(t, s)
         /\ AtMostOneToken' /\ TokensLinked' /\ EndedStep
<1>1. ASSUME NEW s \in Sessions, NEW t \in Tokens, Held(t, s)' PROVE Held(t, s)
  BY <1>1 DEF Shrinks, Held
<1>2. AtMostOneToken'
  BY <1>1 DEF SessionsInvariant, AtMostOneToken
<1>3. TokensLinked'
  <2> SUFFICES ASSUME NEW t \in Tokens, token'[t].exists
               PROVE  session'[token'[t].session].state # "none"
    BY DEF TokensLinked
  <2>1. token[t].exists /\ token'[t].session = token[t].session
    BY DEF Shrinks
  <2>2. token[t].session \in Sessions
    BY <2>1, TokenRows DEF SessionsInvariant, Issued
  <2>3. QED
    BY <2>1, <2>2 DEF Shrinks, SessionsInvariant, TokensLinked
<1>4. EndedStep
  BY DEF EndedStep, Shrinks, Issued
<1>5. QED
  BY <1>1, <1>2, <1>3, <1>4

\* Who holds his lock, and whose session does not end, is not disturbed.
LEMMA BystandersKeep ==
  ASSUME SessionsInvariant, Shrinks, UNCHANGED overlapped,
         NEW v \in Workers, worker'[v] = worker[v],
         \A s \in worker[v].locked :
            worker[v].at = "rotate" => session'[s].state = session[s].state
  PROVE  RotationCoherent(v)' /\ LogoutCoherent(v)'
<1>1. RotationCoherent(v) /\ LogoutCoherent(v) /\ TypeOK
  BY DEF SessionsInvariant
<1>2. RotationCoherent(v)'
  <2> SUFFICES ASSUME worker[v].at = "rotate" PROVE RotationCoherent(v)'
    BY DEF RotationCoherent
  <2>1. worker[v].token \in Tokens
    BY <1>1, JobsTyped DEF TypeOK
  <2>2. token[worker[v].token].exists /\ token[worker[v].token].session \in Sessions
    BY <1>1, <2>1, TokenRows DEF RotationCoherent, Issued
  <2>3. token'[worker[v].token].exists
        /\ token'[worker[v].token].session = token[worker[v].token].session
    BY <2>1, <2>2 DEF Shrinks
  <2>4. QED
    BY <1>1, <2>1, <2>2, <2>3, ShrinkingKeeps DEF RotationCoherent, Active
<1>3. LogoutCoherent(v)'
  BY <1>1 DEF LogoutCoherent, Shrinks, Active
<1>4. QED
  BY <1>2, <1>3

LEMMA RevokeSessionSteps ==
  ASSUME SessionsInvariant, NEW s \in Sessions, RevokeSession(s)
  PROVE  Steps
<1>1. TypeOK /\ ~Locked(s) /\ session[s].state # "none"
  BY DEF SessionsInvariant, RevokeSession
<1>2. /\ session' \in [Sessions -> [state : SessionState, idle : BOOLEAN]]
      /\ session'[s].state = "revoked"
      /\ \A r \in Sessions : r # s => session'[r] = session[r]
  <2>1. Revoke({s})
    BY DEF RevokeSession
  <2>2. QED
    BY <1>1, <2>1, SessionsRevoked
<1>3. /\ token' \in [Tokens -> {NoToken} \cup TokenRow]
      /\ \A t \in TokensOf({s}) : /\ token'[t].exists /\ token'[t].is_revoked
                                  /\ token'[t].session = token[t].session
      /\ \A t \in Tokens : t \notin TokensOf({s}) => token'[t] = token[t]
  <2>1. RevokeTokens(TokensOf({s})) /\ TokensOf({s}) \in SUBSET Tokens
        /\ TokensOf({s}) \subseteq Issued
    BY DEF RevokeSession, TokensOf, Issued
  <2>2. QED
    BY <1>1, <2>1, TokensRevoked
<1>4. UNCHANGED <<worker, timeouts, overlapped, reused, idled>>
  BY DEF RevokeSession, history
<1>5. Shrinks
  BY <1>1, <1>2, <1>3 DEF Shrinks, TokensOf, Issued
<1>6. TypeOK'
  BY <1>1, <1>2, <1>3, <1>4 DEF TypeOK
<1>7. LocksDisjoint'
  BY <1>4 DEF SessionsInvariant, LocksDisjoint
<1>8. ActiveHolds'
  <2> SUFFICES ASSUME NEW r \in Sessions, r \notin overlapped, Active(r)'
               PROVE  \E t \in Tokens : Held(t, r)'
    BY <1>4 DEF ActiveHolds
  <2>1. r # s /\ Active(r)
    BY <1>2 DEF Active
  <2>2. PICK t \in Tokens : Held(t, r)
    BY <2>1 DEF SessionsInvariant, ActiveHolds
  <2>3. token'[t] = token[t]
    BY <1>3, <2>1, <2>2 DEF Held, TokensOf
  <2>4. QED
    BY <2>2, <2>3 DEF Held
<1>9. \A v \in Workers : RotationCoherent(v)' /\ LogoutCoherent(v)'
  BY <1>1, <1>2, <1>4, <1>5, BystandersKeep, JobsTyped DEF Locked, TypeOK
<1>10. LogoutAllStep
  BY <1>1, <1>4, JobsTyped DEF LogoutAllStep
<1>11. QED
  BY <1>5, <1>6, <1>7, <1>8, <1>9, <1>10, ShrinkingKeeps DEF Steps, SessionsInvariant

LEMMA TimeLimitSteps ==
  ASSUME SessionsInvariant,
         \/ \E s \in Sessions : GoIdle(s)
         \/ \E t \in Tokens : ExpireToken(t)
  PROVE  Steps
<1>1. TypeOK
  BY DEF SessionsInvariant
<1>2. UNCHANGED <<worker, overlapped, reused, idled>> /\ timeouts' = timeouts + 1
  BY DEF GoIdle, ExpireToken, history
<1>3. /\ session' \in [Sessions -> [state : SessionState, idle : BOOLEAN]]
      /\ \A r \in Sessions : session'[r].state = session[r].state
  <2>1. ASSUME NEW s \in Sessions, GoIdle(s)
        PROVE  /\ session' \in [Sessions -> [state : SessionState, idle : BOOLEAN]]
               /\ \A r \in Sessions : session'[r].state = session[r].state
    BY <1>1, <2>1 DEF GoIdle, TypeOK
  <2>2. ASSUME NEW t \in Tokens, ExpireToken(t) PROVE session' = session
    BY <2>2 DEF ExpireToken
  <2>3. QED
    BY <1>1, <2>1, <2>2 DEF TypeOK
<1>4. /\ token' \in [Tokens -> {NoToken} \cup TokenRow]
      /\ \A u \in Tokens :
            /\ token'[u].exists <=> token[u].exists
            /\ token[u].exists => /\ token'[u].session = token[u].session
                                  /\ token'[u].is_revoked <=> token[u].is_revoked
  <2>1. ASSUME NEW s \in Sessions, GoIdle(s) PROVE token' = token
    BY <2>1 DEF GoIdle
  <2>2. ASSUME NEW t \in Tokens, ExpireToken(t)
        PROVE  /\ token' \in [Tokens -> {NoToken} \cup TokenRow]
               /\ \A u \in Tokens :
                     /\ token'[u].exists <=> token[u].exists
                     /\ token[u].exists => /\ token'[u].session = token[u].session
                                           /\ token'[u].is_revoked <=> token[u].is_revoked
    <3>1. t \in Issued /\ token' = [token EXCEPT ![t].is_expired = TRUE]
      BY <2>2 DEF ExpireToken
    <3>2. token[t] \in TokenRow /\ token[t].exists
      BY <1>1, <3>1, TokenRows DEF Issued
    <3>3. token'[t] = [token[t] EXCEPT !.is_expired = TRUE]
          /\ \A u \in Tokens : u # t => token'[u] = token[u]
      BY <1>1, <3>1 DEF TypeOK
    <3>4. /\ token'[t] \in TokenRow /\ token'[t].exists
          /\ token'[t].is_revoked <=> token[t].is_revoked
          /\ token'[t].session = token[t].session
      BY <3>2, <3>3, ExpiredRow
    <3>5. token' \in [Tokens -> {NoToken} \cup TokenRow]
      <4>1. \A u \in Tokens : token'[u] \in {NoToken} \cup TokenRow
        BY <1>1, <3>3, <3>4 DEF TypeOK
      <4>2. QED
        BY <1>1, <3>1, <4>1 DEF TypeOK
    <3>6. QED
      BY <3>2, <3>3, <3>4, <3>5
  <2>3. QED
    BY <1>1, <2>1, <2>2 DEF TypeOK
<1>5. Shrinks
  BY <1>3, <1>4 DEF Shrinks
<1>6. TypeOK'
  BY <1>1, <1>2, <1>3, <1>4 DEF TypeOK
<1>7. LocksDisjoint'
  BY <1>2 DEF SessionsInvariant, LocksDisjoint
<1>8. ActiveHolds'
  BY <1>2, <1>3, <1>4 DEF SessionsInvariant, ActiveHolds, Active, Held
<1>9. \A v \in Workers : RotationCoherent(v)' /\ LogoutCoherent(v)'
  BY <1>1, <1>2, <1>3, <1>5, BystandersKeep, JobsTyped DEF TypeOK
<1>10. LogoutAllStep
  BY <1>1, <1>2, JobsTyped DEF LogoutAllStep
<1>11. QED
  BY <1>5, <1>6, <1>7, <1>8, <1>9, <1>10, ShrinkingKeeps DEF Steps, SessionsInvariant

\* The end of a logout: w ends a set of sessions, of which no other transaction
\* holds one, and lets its locks go.
LEMMA LogoutSteps ==
  ASSUME SessionsInvariant, NEW w \in Workers,
         NEW ended \in SUBSET Sessions, NEW tokens \in SUBSET Issued,
         \A v \in Workers : v # w => worker[v].locked \cap ended = {},
         Revoke(ended), RevokeTokens(tokens), Commit(w),
         UNCHANGED <<timeouts, overlapped, reused, idled>>
  PROVE  /\ Shrinks /\ TypeOK' /\ LocksDisjoint' /\ AtMostOneToken' /\ TokensLinked'
         /\ EndedStep /\ \A v \in Workers : RotationCoherent(v)' /\ LogoutCoherent(v)'
<1>1. TypeOK
  BY DEF SessionsInvariant
<1>2. /\ session' \in [Sessions -> [state : SessionState, idle : BOOLEAN]]
      /\ \A s \in ended : session'[s].state = "revoked"
      /\ \A s \in Sessions : s \notin ended => session'[s] = session[s]
  BY <1>1, SessionsRevoked
<1>3. /\ token' \in [Tokens -> {NoToken} \cup TokenRow]
      /\ \A t \in tokens : /\ token'[t].exists /\ token'[t].is_revoked
                           /\ token'[t].session = token[t].session
      /\ \A t \in Tokens : t \notin tokens => token'[t] = token[t]
  <2>1. tokens \in SUBSET Tokens /\ tokens \subseteq Issued
    BY DEF Issued
  <2>2. QED
    BY <1>1, <2>1, TokensRevoked
<1>4. /\ worker' \in [Workers -> Job] /\ worker'[w] = Idle
      /\ \A v \in Workers : v # w => worker'[v] = worker[v]
  BY <1>1, WorkerChanges, JobsTyped DEF Commit
<1>5. Shrinks
  BY <1>2, <1>3 DEF Shrinks, Issued
<1>6. TypeOK'
  BY <1>1, <1>2, <1>3, <1>4 DEF TypeOK
<1>7. LocksDisjoint'
  BY <1>4, JobsTyped DEF SessionsInvariant, LocksDisjoint
<1>8. ASSUME NEW v \in Workers PROVE RotationCoherent(v)' /\ LogoutCoherent(v)'
  <2>1. CASE v = w
    BY <1>4, <2>1, JobsTyped DEF RotationCoherent, LogoutCoherent
  <2>2. CASE v # w
    <3>1. \A s \in worker[v].locked : session'[s] = session[s]
      BY <1>1, <1>2, <2>2, JobsTyped DEF TypeOK
    <3>2. QED
      BY <1>4, <1>5, <2>2, <3>1, BystandersKeep
  <2>3. QED
    BY <2>1, <2>2
<1>9. QED
  BY <1>5, <1>6, <1>7, <1>8, ShrinkingKeeps

LEMMA CommitLogoutAllSteps ==
  ASSUME SessionsInvariant, NEW w \in Workers, CommitLogoutAll(w)
  PROVE  Steps
<1>1. TypeOK /\ LogoutCoherent(w) /\ worker[w].at = "all"
  BY DEF SessionsInvariant, CommitLogoutAll
<1>2. PICK ended \in SUBSET Sessions : ended = worker[w].locked
  BY <1>1, JobsTyped DEF TypeOK
<1>3. /\ Revoke(ended) /\ RevokeTokens(Issued) /\ Commit(w)
      /\ UNCHANGED <<timeouts, overlapped, reused, idled>>
  BY <1>2 DEF CommitLogoutAll, history
<1>4. \A v \in Workers : v # w => worker[v].locked \cap ended = {}
  BY <1>2 DEF SessionsInvariant, LocksDisjoint
<1>5. /\ Shrinks /\ TypeOK' /\ LocksDisjoint' /\ AtMostOneToken' /\ TokensLinked'
      /\ EndedStep /\ \A v \in Workers : RotationCoherent(v)' /\ LogoutCoherent(v)'
  BY <1>3, <1>4, LogoutSteps
<1>6. /\ \A s \in ended : session'[s].state = "revoked"
      /\ \A s \in Sessions : s \notin ended => session'[s] = session[s]
  BY <1>1, <1>3, SessionsRevoked
<1>7. ActiveHolds'
  BY <1>1, <1>2, <1>3, <1>6 DEF ActiveHolds, LogoutCoherent, Active
<1>8. \A t \in Issued : token'[t].is_revoked
  BY <1>1, <1>3, TokensRevoked DEF Issued
<1>9. \A v \in Workers : v # w => worker'[v] = worker[v]
  BY <1>1, <1>3, WorkerChanges, JobsTyped DEF Commit
<1>10. LogoutAllStep
  <2> SUFFICES ASSUME NEW v \in Workers, worker[v].at = "all", worker'[v] = Idle,
                      NEW s \in worker[v].known
               PROVE  /\ session'[s].state = "revoked"
                      /\ \A t \in TokensOf({s}) : token'[t].is_revoked
    BY DEF LogoutAllStep
  <2>1. v = w
    BY <1>9, JobsTyped
  <2>2. s \in ended
    BY <1>1, <1>2, <2>1 DEF LogoutCoherent
  <2>3. QED
    BY <1>6, <1>8, <2>2 DEF TokensOf
<1>11. QED
  BY <1>5, <1>7, <1>10 DEF Steps, SessionsInvariant

LEMMA CommitLogoutOthersSteps ==
  ASSUME SessionsInvariant, NEW w \in Workers, CommitLogoutOthers(w)
  PROVE  Steps
<1>1. TypeOK /\ LogoutCoherent(w) /\ worker[w].at = "others"
  BY DEF SessionsInvariant, CommitLogoutOthers
<1>2. PICK ended \in SUBSET Sessions : ended = ActiveSessions \ {worker[w].current}
  BY DEF ActiveSessions
<1>3. PICK tokens \in SUBSET Issued : tokens = TokensOf(worker[w].locked)
  BY DEF TokensOf
<1>4. /\ Revoke(ended) /\ RevokeTokens(tokens) /\ Commit(w)
      /\ UNCHANGED <<timeouts, overlapped, reused, idled>>
  BY <1>2, <1>3 DEF CommitLogoutOthers, history
<1>5. ASSUME NEW v \in Workers, v # w PROVE worker[v].locked \cap ended = {}
  <2>1. Free(ended \ worker[w].locked)
    BY <1>2 DEF CommitLogoutOthers
  <2>2. worker[v].locked \cap worker[w].locked = {}
    BY <1>5 DEF SessionsInvariant, LocksDisjoint
  <2>3. QED
    BY <2>1, <2>2 DEF Free, Locked
<1>6. /\ Shrinks /\ TypeOK' /\ LocksDisjoint' /\ AtMostOneToken' /\ TokensLinked'
      /\ EndedStep /\ \A v \in Workers : RotationCoherent(v)' /\ LogoutCoherent(v)'
  BY <1>4, <1>5, LogoutSteps
<1>7. /\ \A s \in ended : session'[s].state = "revoked"
      /\ \A s \in Sessions : s \notin ended => session'[s] = session[s]
  BY <1>1, <1>4, SessionsRevoked
<1>8. ActiveHolds'
  <2> SUFFICES ASSUME NEW s \in Sessions, s \notin overlapped, Active(s)'
               PROVE  \E t \in Tokens : Held(t, s)'
    BY <1>4 DEF ActiveHolds
  <2>1. s \notin ended
    BY <1>7 DEF Active
  <2>2. Active(s) /\ s = worker[w].current
    BY <1>2, <1>7, <2>1 DEF Active, ActiveSessions
  <2>3. s \notin worker[w].locked
    BY <1>1, <2>2 DEF LogoutCoherent
  <2>4. PICK t \in Tokens : Held(t, s)
    BY <2>2 DEF SessionsInvariant, ActiveHolds
  <2>5. t \notin tokens
    BY <1>3, <2>3, <2>4 DEF Held, TokensOf
  <2>6. tokens \in SUBSET Tokens /\ tokens \subseteq Issued
    BY DEF Issued
  <2>7. token'[t] = token[t]
    BY <1>1, <1>4, <2>5, <2>6, TokensRevoked
  <2>8. QED
    BY <2>4, <2>7 DEF Held
<1>9. LogoutAllStep
  <2>1. \A v \in Workers : v # w => worker'[v] = worker[v]
    BY <1>1, <1>4, WorkerChanges, JobsTyped DEF Commit
  <2>2. QED
    BY <1>1, <2>1, JobsTyped DEF LogoutAllStep
<1>10. QED
  BY <1>6, <1>8, <1>9 DEF Steps, SessionsInvariant

LEMMA CreateSessionSteps ==
  ASSUME SessionsInvariant, NEW s \in Sessions, NEW t \in Tokens, CreateSession(s, t)
  PROVE  Steps
<1>1. /\ TypeOK /\ session[s].state = "none" /\ ~token[t].exists
      /\ UNCHANGED <<worker, timeouts, reused, idled>>
  BY DEF SessionsInvariant, CreateSession, Issued
<1>2. /\ session' \in [Sessions -> [state : SessionState, idle : BOOLEAN]]
      /\ session'[s].state = "active"
      /\ \A r \in Sessions : r # s => session'[r] = session[r]
  BY <1>1 DEF CreateSession, TypeOK, SessionState
<1>3. /\ token' \in [Tokens -> {NoToken} \cup TokenRow]
      /\ token'[t].exists /\ token'[t].session = s /\ ~token'[t].is_revoked
      /\ \A u \in Tokens : u # t => token'[u] = token[u]
  <2>1. token' = [token EXCEPT ![t] = NewToken(s)]
    BY DEF CreateSession
  <2>2. token'[t] = NewToken(s) /\ \A u \in Tokens : u # t => token'[u] = token[u]
    BY <1>1, <2>1 DEF TypeOK
  <2>3. token' \in [Tokens -> {NoToken} \cup TokenRow]
    BY <1>1, <2>1, NewTokens DEF TypeOK
  <2>4. QED
    BY <2>2, <2>3, NewTokens
<1>4. overlapped' \in SUBSET Sessions /\ overlapped \subseteq overlapped'
      /\ \A v \in Workers : worker[v].at = "all" => s \in overlapped'
  BY <1>1 DEF CreateSession, TypeOK
<1>5. TypeOK'
  BY <1>1, <1>2, <1>3, <1>4 DEF TypeOK
<1>6. LocksDisjoint'
  BY <1>1 DEF SessionsInvariant, LocksDisjoint
<1>7. \A u \in Tokens : token[u].exists =>
         /\ u # t /\ token'[u] = token[u]
         /\ token[u].session \in Sessions /\ token[u].session # s
  BY <1>1, <1>3, TokenRows DEF SessionsInvariant, TokensLinked, Issued
<1>8. AtMostOneToken'
  <2>1. \A r \in Sessions, u \in Tokens : Held(u, r)' =>
          (u = t /\ r = s) \/ (Held(u, r) /\ r # s)
    BY <1>3, <1>7 DEF Held
  <2>2. QED
    BY <2>1 DEF SessionsInvariant, AtMostOneToken
<1>9. TokensLinked'
  BY <1>2, <1>3, <1>7 DEF SessionsInvariant, TokensLinked
<1>10. ActiveHolds'
  <2> SUFFICES ASSUME NEW r \in Sessions, r \notin overlapped', Active(r)'
               PROVE  \E u \in Tokens : Held(u, r)'
    BY DEF ActiveHolds
  <2>1. CASE r = s
    BY <1>3, <2>1 DEF Held
  <2>2. CASE r # s
    <3>1. PICK u \in Tokens : Held(u, r)
      BY <1>2, <1>4, <2>2 DEF SessionsInvariant, ActiveHolds, Active
    <3>2. QED
      BY <1>7, <3>1 DEF Held
  <2>3. QED
    BY <2>1, <2>2
<1>11. ASSUME NEW v \in Workers PROVE RotationCoherent(v)' /\ LogoutCoherent(v)'
  <2>1. RotationCoherent(v)'
    <3> SUFFICES ASSUME worker[v].at = "rotate" PROVE RotationCoherent(v)'
      BY <1>1 DEF RotationCoherent
    <3>1. worker[v].token \in Tokens /\ RotationCoherent(v)
      BY <1>1, JobsTyped DEF TypeOK, SessionsInvariant
    <3>2. \A u \in Tokens : Held(u, token[worker[v].token].session)' =>
             Held(u, token[worker[v].token].session)
      <4>1. PICK r \in Sessions : r = token[worker[v].token].session /\ r # s
        BY <1>7, <3>1 DEF RotationCoherent
      <4>2. token'[worker[v].token].session = r /\ worker' = worker
        BY <1>1, <1>7, <3>1, <4>1 DEF RotationCoherent
      <4>3. \A u \in Tokens : Held(u, r)' => Held(u, r)
        BY <1>3, <4>1 DEF Held
      <4>4. QED
        BY <4>1, <4>2, <4>3 DEF Held
    <3>3. QED
      BY <1>1, <1>2, <1>7, <3>1, <3>2 DEF RotationCoherent, Active, Held
  <2>2. LogoutCoherent(v)'
    BY <1>1, <1>2, <1>4 DEF SessionsInvariant, LogoutCoherent, Active
  <2>3. QED
    BY <2>1, <2>2
<1>12. EndedStep
  BY <1>1, <1>2, <1>3 DEF EndedStep, Issued
<1>13. LogoutAllStep
  BY <1>1, JobsTyped DEF LogoutAllStep
<1>14. QED
  BY <1>5, <1>6, <1>8, <1>9, <1>10, <1>11, <1>12, <1>13 DEF Steps, SessionsInvariant

LEMMA CommitRotationSteps ==
  ASSUME SessionsInvariant, NEW w \in Workers, NEW new \in Tokens, CommitRotation(w, new)
  PROVE  Steps
<1>1. /\ TypeOK /\ RotationCoherent(w) /\ worker[w].at = "rotate" /\ ~token[new].exists
      /\ UNCHANGED <<session, timeouts, overlapped, reused, idled>>
  BY DEF SessionsInvariant, CommitRotation, Issued, history
<1>2. PICK old \in Tokens : old = worker[w].token
  BY <1>1, JobsTyped DEF TypeOK
<1>3. token[old].exists /\ token[old] \in TokenRow
  BY <1>1, <1>2, TokenRows DEF RotationCoherent, Issued
<1>4. PICK s \in Sessions : s = token[old].session
  BY <1>3 DEF TokenRow
<1>5. /\ s \in worker[w].locked /\ Active(s) /\ old # new
      /\ \A u \in Tokens : Held(u, s) => u = old
  BY <1>1, <1>2, <1>3, <1>4 DEF RotationCoherent
<1>6. /\ token' \in [Tokens -> {NoToken} \cup TokenRow]
      /\ token'[old].exists /\ token'[old].session = s /\ token'[old].is_revoked
      /\ token'[new].exists /\ token'[new].session = s /\ ~token'[new].is_revoked
      /\ \A u \in Tokens : u # old /\ u # new => token'[u] = token[u]
  <2>1. token' = [token EXCEPT ![old].is_revoked = TRUE, ![new] = NewToken(s)]
    BY <1>2, <1>4 DEF CommitRotation
  <2>2. /\ token'[old] = [token[old] EXCEPT !.is_revoked = TRUE]
        /\ token'[new] = NewToken(s)
        /\ \A u \in Tokens : u # old /\ u # new => token'[u] = token[u]
    BY <1>1, <1>5, <2>1 DEF TypeOK
  <2>3. /\ token'[old].exists /\ token'[old].session = s /\ token'[old].is_revoked
        /\ token'[old] \in TokenRow
    BY <1>3, <1>4, <2>2, RevokedRow
  <2>4. /\ token'[new].exists /\ token'[new].session = s /\ ~token'[new].is_revoked
        /\ token'[new] \in TokenRow
    BY <2>2, NewTokens
  <2>5. token' \in [Tokens -> {NoToken} \cup TokenRow]
    <3>1. \A u \in Tokens : token'[u] \in {NoToken} \cup TokenRow
      BY <1>1, <2>2, <2>3, <2>4 DEF TypeOK
    <3>2. QED
      BY <1>1, <2>1, <3>1 DEF TypeOK
  <2>6. QED
    BY <2>2, <2>3, <2>4, <2>5
<1>7. /\ worker' \in [Workers -> Job] /\ worker'[w] = Idle
      /\ \A v \in Workers : v # w => worker'[v] = worker[v]
  BY <1>1, WorkerChanges, JobsTyped DEF CommitRotation, Commit
<1>8. TypeOK'
  BY <1>1, <1>6, <1>7 DEF TypeOK
<1>9. LocksDisjoint'
  BY <1>7, JobsTyped DEF SessionsInvariant, LocksDisjoint
<1>10. \A r \in Sessions, u \in Tokens :
          /\ r = s => (Held(u, r)' <=> u = new)
          /\ r # s => (Held(u, r)' <=> Held(u, r))
  <2> SUFFICES ASSUME NEW r \in Sessions, NEW u \in Tokens
               PROVE  /\ r = s => (Held(u, r)' <=> u = new)
                      /\ r # s => (Held(u, r)' <=> Held(u, r))
    OBVIOUS
  <2>1. CASE u = old
    BY <1>3, <1>4, <1>5, <1>6, <2>1 DEF Held
  <2>2. CASE u = new
    BY <1>1, <1>6, <2>2 DEF Held
  <2>3. CASE u # old /\ u # new
    BY <1>5, <1>6, <2>3 DEF Held
  <2>4. QED
    BY <2>1, <2>2, <2>3
<1>11. AtMostOneToken'
  BY <1>10 DEF SessionsInvariant, AtMostOneToken
<1>12. TokensLinked'
  <2> SUFFICES ASSUME NEW u \in Tokens, token'[u].exists
               PROVE  session'[token'[u].session].state # "none"
    BY DEF TokensLinked
  <2>1. CASE u = old \/ u = new
    BY <1>1, <1>5, <1>6, <2>1 DEF Active
  <2>2. CASE u # old /\ u # new
    BY <1>1, <1>6, <2>2 DEF SessionsInvariant, TokensLinked
  <2>3. QED
    BY <2>1, <2>2
<1>13. ActiveHolds'
  <2> SUFFICES ASSUME NEW r \in Sessions, r \notin overlapped, Active(r)
               PROVE  \E u \in Tokens : Held(u, r)'
    BY <1>1 DEF ActiveHolds, Active
  <2>1. CASE r = s
    BY <1>10, <2>1
  <2>2. CASE r # s
    BY <1>10, <2>2 DEF SessionsInvariant, ActiveHolds
  <2>3. QED
    BY <2>1, <2>2
<1>14. ASSUME NEW v \in Workers PROVE RotationCoherent(v)' /\ LogoutCoherent(v)'
  <2>1. CASE v = w
    BY <1>7, <2>1, JobsTyped DEF RotationCoherent, LogoutCoherent
  <2>2. CASE v # w
    <3>1. LogoutCoherent(v)'
      BY <1>1, <1>7, <2>2 DEF SessionsInvariant, LogoutCoherent, Active
    <3>2. RotationCoherent(v)'
      <4> SUFFICES ASSUME worker[v].at = "rotate" PROVE RotationCoherent(v)'
        BY <1>7, <2>2 DEF RotationCoherent
      <4>1. PICK mine \in Tokens : mine = worker[v].token
        BY <1>1, JobsTyped DEF TypeOK
      <4>2. RotationCoherent(v)
        BY DEF SessionsInvariant
      <4>3. token[mine].exists /\ token[mine].session \in Sessions
        BY <1>1, <4>1, <4>2, TokenRows DEF RotationCoherent, Issued
      <4>4. PICK r \in Sessions : r = token[mine].session
        BY <4>3
      <4>5. r \in worker[v].locked /\ Active(r) /\ \A u \in Tokens : Held(u, r) => u = mine
        BY <4>1, <4>2, <4>4 DEF RotationCoherent
      <4>6. r # s
        BY <1>5, <2>2, <4>5 DEF SessionsInvariant, LocksDisjoint
      <4>7. mine # old /\ mine # new /\ token'[mine] = token[mine]
        BY <1>1, <1>4, <1>6, <4>3, <4>4, <4>6
      <4>8. \A u \in Tokens : Held(u, r)' => u = mine
        BY <1>10, <4>5, <4>6
      <4>9. worker'[v] = worker[v] /\ token'[mine].session = r /\ token'[mine].exists /\ Active(r)'
        BY <1>1, <1>7, <2>2, <4>3, <4>4, <4>5, <4>7 DEF Active
      <4>10. QED
        BY <4>1, <4>5, <4>8, <4>9 DEF RotationCoherent, Held, Active
    <3>3. QED
      BY <3>1, <3>2
  <2>3. QED
    BY <2>1, <2>2
<1>15. EndedStep
  <2> SUFFICES ASSUME NEW r \in Sessions, session[r].state = "revoked"
               PROVE  /\ session'[r].state = "revoked"
                      /\ \A u \in Tokens : token'[u].exists /\ token'[u].session = r => u \in Issued
    BY DEF EndedStep
  <2>1. r # s
    BY <1>5 DEF Active
  <2>2. QED
    BY <1>1, <1>6, <2>1 DEF Issued
<1>16. LogoutAllStep
  BY <1>1, <1>7, JobsTyped DEF LogoutAllStep
<1>17. QED
  BY <1>8, <1>9, <1>11, <1>12, <1>13, <1>14, <1>15, <1>16 DEF Steps, SessionsInvariant

LEMMA BeginRotationSteps ==
  ASSUME SessionsInvariant, NEW w \in Workers, NEW t \in Tokens, BeginRotation(w, t)
  PROVE  Steps
<1>1. /\ TypeOK /\ token[t].exists /\ ~token[t].is_revoked
      /\ UNCHANGED <<session, token, timeouts, overlapped, reused, idled>>
  BY DEF SessionsInvariant, BeginRotation, Issued, history
<1>2. PICK s \in Sessions : s = token[t].session
  BY <1>1, TokenRows DEF Issued
<1>3. Active(s) /\ ~Locked(s)
  BY <1>2 DEF BeginRotation
<1>4. PICK j \in Job : j = [at |-> "rotate", locked |-> {s}, token |-> t]
  BY DEF Job
<1>5. worker' = [worker EXCEPT ![w] = j]
  BY <1>2, <1>4 DEF BeginRotation, Begin
<1>6. worker'[w] = j /\ j.at = "rotate" /\ j.locked = {s} /\ j.token = t
  BY <1>1, <1>4, <1>5 DEF TypeOK
<1>7. \A v \in Workers : v # w => worker[v].locked \cap j.locked = {}
  BY <1>3, <1>6 DEF Locked
<1>8. \A u \in Tokens : Held(u, s) => u = t
  BY <1>1, <1>2 DEF SessionsInvariant, AtMostOneToken, Held
<1>9. RotationCoherent(w)'
  BY <1>1, <1>2, <1>3, <1>6, <1>8 DEF RotationCoherent, Held, Active
<1>10. LogoutCoherent(w)'
  BY <1>6 DEF LogoutCoherent
<1>11. QED
  BY <1>1, <1>5, <1>7, <1>9, <1>10, JobChanges DEF TypeOK

LEMMA BeginLogoutAllSteps ==
  ASSUME SessionsInvariant, NEW w \in Workers, BeginLogoutAll(w)
  PROVE  Steps
<1>1. TypeOK /\ UNCHANGED <<session, token, timeouts, overlapped, reused, idled>>
  BY DEF SessionsInvariant, BeginLogoutAll, history
<1>2. PICK j \in Job : j = [at |-> "all", locked |-> ActiveSessions, known |-> ActiveSessions]
  BY DEF Job, ActiveSessions
<1>3. worker' = [worker EXCEPT ![w] = j]
  BY <1>2 DEF BeginLogoutAll, Begin
<1>4. worker'[w] = j /\ j.at = "all" /\ j.locked = ActiveSessions /\ j.known = ActiveSessions
  BY <1>1, <1>2, <1>3 DEF TypeOK
<1>5. \A v \in Workers : v # w => worker[v].locked \cap j.locked = {}
  BY <1>4 DEF BeginLogoutAll, Free, Locked
<1>6. RotationCoherent(w)'
  BY <1>4 DEF RotationCoherent
<1>7. LogoutCoherent(w)'
  BY <1>1, <1>4 DEF LogoutCoherent, Active, ActiveSessions
<1>8. QED
  BY <1>1, <1>3, <1>5, <1>6, <1>7, JobChanges DEF TypeOK

LEMMA BeginLogoutOthersSteps ==
  ASSUME SessionsInvariant, NEW w \in Workers, NEW s \in Sessions, BeginLogoutOthers(w, s)
  PROVE  Steps
<1>1. TypeOK /\ UNCHANGED <<session, token, timeouts, overlapped, reused, idled>>
  BY DEF SessionsInvariant, BeginLogoutOthers, history
<1>2. PICK j \in Job : j = [at |-> "others", locked |-> ActiveSessions \ {s}, current |-> s]
  BY DEF Job, ActiveSessions
<1>3. worker' = [worker EXCEPT ![w] = j]
  BY <1>2 DEF BeginLogoutOthers, Begin
<1>4. worker'[w] = j /\ j.at = "others" /\ j.locked = ActiveSessions \ {s} /\ j.current = s
  BY <1>1, <1>2, <1>3 DEF TypeOK
<1>5. \A v \in Workers : v # w => worker[v].locked \cap j.locked = {}
  BY <1>4 DEF BeginLogoutOthers, Free, Locked
<1>6. RotationCoherent(w)' /\ LogoutCoherent(w)'
  BY <1>4 DEF RotationCoherent, LogoutCoherent
<1>7. QED
  BY <1>1, <1>3, <1>5, <1>6, JobChanges DEF TypeOK

LEMMA CrashSteps ==
  ASSUME SessionsInvariant, NEW w \in Workers, Crash(w)
  PROVE  Steps
<1>1. TypeOK /\ UNCHANGED <<session, token, timeouts, overlapped, reused, idled>>
  BY DEF SessionsInvariant, Crash, history
<1>2. worker' = [worker EXCEPT ![w] = Idle]
  BY DEF Crash, Commit
<1>3. worker'[w] = Idle
  BY <1>1, <1>2 DEF TypeOK
<1>4. RotationCoherent(w)' /\ LogoutCoherent(w)'
  BY <1>3, JobsTyped DEF RotationCoherent, LogoutCoherent
<1>5. QED
  BY <1>1, <1>2, <1>4, JobChanges, JobsTyped DEF TypeOK

LEMMA RefusalSteps ==
  ASSUME SessionsInvariant,
         \/ \E w \in Workers, t \in Tokens : DetectReuse(w, t)
         \/ \E s \in Sessions : RefuseIdle(s)
         \/ UNCHANGED vars
  PROVE  Steps
<1>1. TypeOK
  BY DEF SessionsInvariant
<1>2. UNCHANGED <<session, token, overlapped, worker, timeouts>>
  BY DEF DetectReuse, RefuseIdle, vars
<1>3. reused' \subseteq Sessions /\ idled' \subseteq Sessions
  <2>1. ASSUME NEW w \in Workers, NEW t \in Tokens, DetectReuse(w, t)
        PROVE  reused' \subseteq Sessions /\ idled' \subseteq Sessions
    BY <1>1, <2>1, TokenRows DEF DetectReuse, TypeOK
  <2>2. ASSUME NEW s \in Sessions, RefuseIdle(s)
        PROVE  reused' \subseteq Sessions /\ idled' \subseteq Sessions
    BY <1>1, <2>2 DEF RefuseIdle, TypeOK
  <2>3. ASSUME UNCHANGED vars PROVE reused' \subseteq Sessions /\ idled' \subseteq Sessions
    BY <1>1, <2>3 DEF vars, TypeOK
  <2>4. QED
    BY <2>1, <2>2, <2>3
<1>4. QED
  BY <1>1, <1>2, <1>3, NoJobChanges DEF TypeOK

(***************************************************************************)
(* The theorems.                                                           *)
(***************************************************************************)
LEMMA InvariantInit == Init => SessionsInvariant
<1> SUFFICES ASSUME Init PROVE SessionsInvariant
  OBVIOUS
<1>1. TypeOK
  BY SessionsAssumption, JobsTyped DEF Init, TypeOK, SessionState
<1>2. \A w \in Workers : worker[w] = Idle
  BY DEF Init
<1>3. \A t \in Tokens : ~token[t].exists
  BY DEF Init, NoToken
<1>4. \A s \in Sessions : ~Active(s)
  BY DEF Init, Active
<1>5. LocksDisjoint /\ \A w \in Workers : RotationCoherent(w) /\ LogoutCoherent(w)
  BY <1>2, JobsTyped DEF LocksDisjoint, RotationCoherent, LogoutCoherent
<1>6. AtMostOneToken /\ TokensLinked /\ ActiveHolds
  BY <1>3, <1>4 DEF AtMostOneToken, TokensLinked, ActiveHolds, Held
<1>7. QED
  BY <1>1, <1>5, <1>6 DEF SessionsInvariant

LEMMA AllSteps == SessionsInvariant /\ [Next]_vars => Steps
<1> SUFFICES ASSUME SessionsInvariant, [Next]_vars PROVE Steps
  OBVIOUS
<1>1. ASSUME NEW s \in Sessions, NEW t \in Tokens, CreateSession(s, t) PROVE Steps
  BY <1>1, CreateSessionSteps
<1>2. ASSUME NEW s \in Sessions, RevokeSession(s) PROVE Steps
  BY <1>2, RevokeSessionSteps
<1>3. CASE (\E s \in Sessions : GoIdle(s)) \/ (\E t \in Tokens : ExpireToken(t))
  BY <1>3, TimeLimitSteps
<1>4. ASSUME NEW w \in Workers, NEW t \in Tokens, BeginRotation(w, t) PROVE Steps
  BY <1>4, BeginRotationSteps
<1>5. ASSUME NEW w \in Workers, NEW t \in Tokens, CommitRotation(w, t) PROVE Steps
  BY <1>5, CommitRotationSteps
<1>6. ASSUME NEW w \in Workers, BeginLogoutAll(w) PROVE Steps
  BY <1>6, BeginLogoutAllSteps
<1>7. ASSUME NEW w \in Workers, CommitLogoutAll(w) PROVE Steps
  BY <1>7, CommitLogoutAllSteps
<1>8. ASSUME NEW w \in Workers, NEW s \in Sessions, BeginLogoutOthers(w, s) PROVE Steps
  BY <1>8, BeginLogoutOthersSteps
<1>9. ASSUME NEW w \in Workers, CommitLogoutOthers(w) PROVE Steps
  BY <1>9, CommitLogoutOthersSteps
<1>10. ASSUME NEW w \in Workers, Crash(w) PROVE Steps
  BY <1>10, CrashSteps
<1>11. CASE \/ \E w \in Workers, t \in Tokens : DetectReuse(w, t)
            \/ \E s \in Sessions : RefuseIdle(s)
            \/ UNCHANGED vars
  BY <1>11, RefusalSteps
<1>12. QED
  BY <1>1, <1>2, <1>3, <1>4, <1>5, <1>6, <1>7, <1>8, <1>9, <1>10, <1>11 DEF Next

\* Locks, rotations and logouts respect each other, whoever dies.
THEOREM InvariantHolds == Spec => []SessionsInvariant
<1>1. SessionsInvariant /\ [Next]_vars => SessionsInvariant'
  BY AllSteps DEF Steps
<1>2. QED
  BY <1>1, InvariantInit, PTL DEF Spec

\* Every session, token and transaction keeps its type.
THEOREM TypeCorrect == Spec => []TypeOK
<1>1. SessionsInvariant => TypeOK
  BY DEF SessionsInvariant
<1>2. QED
  BY <1>1, InvariantHolds, PTL

\* However many clients present one token, and however often: the lock of the
\* session makes them one after the other, and the second finds it revoked.
THEOREM OneTokenPerSession == Spec => []OneUnrevokedToken
<1>1. SessionsInvariant => OneUnrevokedToken
  <2> SUFFICES ASSUME SessionsInvariant, NEW s \in Sessions PROVE Cardinality(Unrevoked(s)) <= 1
    BY DEF OneUnrevokedToken
  <2>1. PICK S \in SUBSET Tokens : S = Unrevoked(s)
    BY DEF Unrevoked, TokensOf, Issued
  <2>2. \A t, u \in S : t = u
    BY <2>1 DEF SessionsInvariant, AtMostOneToken, Held, Unrevoked, TokensOf, Issued
  <2>3. CASE S = {}
    BY <2>1, <2>3, FS_EmptySet
  <2>4. CASE S # {}
    <3>1. PICK t \in S : S = {t}
      BY <2>2, <2>4
    <3>2. QED
      BY <2>1, <3>1, FS_Singleton
  <2>5. QED
    BY <2>3, <2>4
<1>2. QED
  BY <1>1, InvariantHolds, PTL

\* Only a login that overlaps with a logout_all can leave a session without a token.
THEOREM ActiveSessionsHoldTokens == Spec => []ActiveSessionHasToken
<1>1. SessionsInvariant => ActiveSessionHasToken
  <2> SUFFICES ASSUME SessionsInvariant, NEW s \in Sessions \ overlapped, Active(s)
               PROVE  Unrevoked(s) # {}
    BY DEF ActiveSessionHasToken
  <2>1. PICK t \in Tokens : Held(t, s)
    BY DEF SessionsInvariant, ActiveHolds
  <2>2. QED
    BY <2>1 DEF Held, Unrevoked, TokensOf, Issued
<1>2. QED
  BY <1>1, InvariantHolds, PTL

\* A client that is logged in holds one token, for any number of clients and workers.
THEOREM OneTokenIsValid == Spec => []OneValidToken
  BY OneTokenPerSession, ActiveSessionsHoldTokens, PTL DEF OneValidToken

\* An exchange that began before a session ended does not outlive it: it holds
\* the session's lock, so the end waits for it and takes its token along.
THEOREM EndedSessionsStayEnded == Spec => EndedIsFinal
<1>1. SessionsInvariant /\ [Next]_vars => [EndedStep]_vars
  BY AllSteps DEF Steps
<1>2. QED
  BY <1>1, InvariantHolds, PTL DEF Spec, EndedIsFinal, EndedStep

\* logout_all ends all sessions that it found, with all their tokens.
THEOREM LogoutAllEndsAll == Spec => LogoutAllIsComplete
<1>1. SessionsInvariant /\ [Next]_vars => [LogoutAllStep]_vars
  BY AllSteps DEF Steps
<1>2. QED
  BY <1>1, InvariantHolds, PTL DEF Spec, LogoutAllIsComplete, LogoutAllStep

\* What a logout ends is ended, in every overlap with rotations and logins.
THEOREM LogoutsAreFinal == Spec => LogoutIsFinal
  BY EndedSessionsStayEnded, LogoutAllEndsAll, PTL DEF LogoutIsFinal
=============================================================================
