--------------------------- MODULE AccountsProofs ---------------------------
(***************************************************************************)
(* Proofs about Otp (the instance OneTime) and Throttle (the instance      *)
(* Counter), for any number of workers, codes, ticks, requests and         *)
(* windows, and about the accounts together.                               *)
(***************************************************************************)
EXTENDS MCAccounts, SessionsProofs

(***************************************************************************)
(* One-time passwords: the inductive invariant.                            *)
(***************************************************************************)
Compares(w) == verifier[w].at = "compare"

\* A worker compares with the row as it is, which its lock keeps from changing.
SnapshotIsCurrent ==
    \A w \in Workers : Compares(w) =>
        /\ code[verifier[w].code] = verifier[w].row
        /\ ~verifier[w].row.is_consumed

OneComparison ==
    \A v, w \in Workers :
        Compares(v) /\ Compares(w) /\ verifier[v].code = verifier[w].code => v = w

\* A request that has passed the limits counts from then on: it saw fewer than
\* MaxPerWindow codes, and there are no more such requests than workers.
CreatedFrom(t) == {c \in OneTime!Created : code[c].created \in t .. t + Window}
Creators == {w \in Workers : verifier[w].at = "create"}
MaxVolume == MaxPerWindow - 1 + Cardinality(Workers)
VolumeIsBounded ==
    \A t \in 0 .. MaxClock :
        /\ Cardinality(CreatedFrom(t)) <= MaxVolume
        /\ clock <= t + Window => Cardinality(CreatedFrom(t)) + Cardinality(Creators) <= MaxVolume

\* A request found no live code, and other requests that did are still there
\* or have become a code.
Requesters(p) ==
    {w \in Workers : verifier[w].at \in {"limits", "create"} /\ verifier[w].purpose = p}
LiveCodesWereRequested ==
    \A p \in Purposes :
        Cardinality(OneTime!Live(p)) + Cardinality(Requesters(p)) <= Cardinality(Workers)

CodesInvariant ==
    /\ OneTime!TypeOK
    /\ SnapshotIsCurrent
    /\ OneComparison
    /\ OneTime!AcceptedOnce
    /\ VolumeIsBounded
    /\ LiveCodesWereRequested

(***************************************************************************)
(* Finite sets.                                                            *)
(***************************************************************************)
LEMMA OtpFacts ==
    /\ Lifetime \in Nat /\ Window \in Nat /\ MaxPerWindow \in Nat \ {0} /\ MaxCodes \in Nat
    /\ MaxClock \in Nat /\ MinInterval \in Nat
    /\ IsFiniteSet(Workers) /\ Cardinality(Workers) \in Nat
    /\ OneTime!Codes = 1 .. MaxCodes /\ IsFiniteSet(OneTime!Codes)
<1>1. IsFiniteSet(Workers)
  BY PartsAssumption DEF OneTime!OtpAssumption, OneTime!IsFiniteSet, IsFiniteSet
<1>2. /\ Lifetime \in Nat /\ Window \in Nat /\ MaxPerWindow \in Nat \ {0}
      /\ MaxCodes \in Nat /\ MaxClock \in Nat /\ MinInterval \in Nat
  BY PartsAssumption DEF OneTime!OtpAssumption
<1>3. OneTime!Codes = 1 .. MaxCodes
  BY DEF OneTime!Codes
<1>4. QED
  BY <1>1, <1>2, <1>3, FS_CardinalityType, FS_Interval

\* The instances count with a Cardinality of their own.
LEMMA CodesCounted == \A S : OneTime!Cardinality(S) = Cardinality(S)
  BY DEF OneTime!Cardinality, Cardinality

LEMMA Smaller ==
  ASSUME NEW S, NEW T, IsFiniteSet(S), T \subseteq S
  PROVE  /\ IsFiniteSet(T) /\ Cardinality(T) \in Nat /\ Cardinality(S) \in Nat
         /\ Cardinality(T) <= Cardinality(S)
  BY FS_Subset, FS_CardinalityType

LEMMA OneMore ==
  ASSUME NEW S, NEW T, NEW x, IsFiniteSet(S), T \subseteq S \cup {x}
  PROVE  /\ IsFiniteSet(T) /\ Cardinality(T) \in Nat /\ Cardinality(S) \in Nat
         /\ Cardinality(T) <= Cardinality(S) + 1
<1>1. /\ IsFiniteSet(S \cup {x}) /\ Cardinality(S \cup {x}) <= Cardinality(S) + 1
      /\ Cardinality(S) \in Nat /\ Cardinality(S \cup {x}) \in Nat
  BY FS_AddElement, FS_CardinalityType
<1>2. IsFiniteSet(T) /\ Cardinality(T) \in Nat /\ Cardinality(T) <= Cardinality(S \cup {x})
  BY <1>1, Smaller
<1>3. QED
  BY <1>1, <1>2

LEMMA OneAdded ==
  ASSUME NEW S, NEW T, NEW x, IsFiniteSet(S), x \notin S, T = S \cup {x}
  PROVE  Cardinality(T) = Cardinality(S) + 1
  BY FS_AddElement

LEMMA OneFewer ==
  ASSUME NEW S, NEW T, NEW x, IsFiniteSet(S), x \in S, T \subseteq S \ {x}
  PROVE  /\ IsFiniteSet(T) /\ Cardinality(T) \in Nat /\ Cardinality(S) \in Nat
         /\ Cardinality(T) + 1 <= Cardinality(S)
<1>1. /\ IsFiniteSet(S \ {x}) /\ Cardinality(S \ {x}) = Cardinality(S) - 1
      /\ Cardinality(S) \in Nat /\ Cardinality(S \ {x}) \in Nat
  BY FS_RemoveElement, FS_CardinalityType
<1>2. IsFiniteSet(T) /\ Cardinality(T) \in Nat /\ Cardinality(T) <= Cardinality(S \ {x})
  BY <1>1, Smaller
<1>3. QED
  BY <1>1, <1>2

LEMMA CodeSets ==
  ASSUME NEW t, NEW p
  PROVE  /\ IsFiniteSet(CreatedFrom(t)) /\ Cardinality(CreatedFrom(t)) \in Nat
         /\ IsFiniteSet(OneTime!Live(p)) /\ Cardinality(OneTime!Live(p)) \in Nat
         /\ IsFiniteSet(Creators) /\ Cardinality(Creators) \in Nat
         /\ Cardinality(Creators) <= Cardinality(Workers)
         /\ IsFiniteSet(Requesters(p)) /\ Cardinality(Requesters(p)) \in Nat
         /\ Cardinality(Requesters(p)) <= Cardinality(Workers)
<1>1. /\ CreatedFrom(t) \subseteq OneTime!Codes /\ OneTime!Live(p) \subseteq OneTime!Codes
      /\ Creators \subseteq Workers /\ Requesters(p) \subseteq Workers
  BY DEF CreatedFrom, OneTime!Live, OneTime!Created, Creators, Requesters
<1>2. QED
  BY <1>1, OtpFacts, Smaller

(***************************************************************************)
(* What a step does to the two counts.                                     *)
(***************************************************************************)
LEMMA VolumeKept ==
  ASSUME VolumeIsBounded, clock \in Nat, clock' \in Nat, clock' >= clock,
         \A t \in 0 .. MaxClock : CreatedFrom(t)' \subseteq CreatedFrom(t),
         Creators' \subseteq Creators
  PROVE  VolumeIsBounded'
<1> SUFFICES ASSUME NEW t \in 0 .. MaxClock
             PROVE  /\ Cardinality(CreatedFrom(t)') <= MaxVolume
                    /\ clock' <= t + Window =>
                          Cardinality(CreatedFrom(t)') + Cardinality(Creators') <= MaxVolume
  BY DEF VolumeIsBounded, MaxVolume
<1>1. /\ Cardinality(CreatedFrom(t)') <= Cardinality(CreatedFrom(t))
      /\ Cardinality(Creators') <= Cardinality(Creators)
      /\ Cardinality(CreatedFrom(t)') \in Nat /\ Cardinality(Creators') \in Nat
      /\ Cardinality(CreatedFrom(t)) \in Nat /\ Cardinality(Creators) \in Nat
  BY CodeSets, Smaller
<1>2. /\ Cardinality(CreatedFrom(t)) <= MaxVolume
      /\ clock <= t + Window =>
            Cardinality(CreatedFrom(t)) + Cardinality(Creators) <= MaxVolume
  BY DEF VolumeIsBounded
<1>3. MaxVolume \in Int
  BY OtpFacts DEF MaxVolume
<1>4. QED
  BY <1>1, <1>2, <1>3, OtpFacts

LEMMA LiveKept ==
  ASSUME LiveCodesWereRequested,
         \A p \in Purposes : /\ OneTime!Live(p)' \subseteq OneTime!Live(p)
                             /\ Requesters(p)' \subseteq Requesters(p)
  PROVE  LiveCodesWereRequested'
<1> SUFFICES ASSUME NEW p \in Purposes
             PROVE  Cardinality(OneTime!Live(p)') + Cardinality(Requesters(p)') <= Cardinality(Workers)
  BY DEF LiveCodesWereRequested
<1>1. /\ Cardinality(OneTime!Live(p)') <= Cardinality(OneTime!Live(p))
      /\ Cardinality(Requesters(p)') <= Cardinality(Requesters(p))
      /\ Cardinality(OneTime!Live(p)') \in Nat /\ Cardinality(Requesters(p)') \in Nat
      /\ Cardinality(OneTime!Live(p)) \in Nat /\ Cardinality(Requesters(p)) \in Nat
  BY CodeSets, Smaller
<1>2. Cardinality(OneTime!Live(p)) + Cardinality(Requesters(p)) <= Cardinality(Workers)
  BY DEF LiveCodesWereRequested
<1>3. QED
  BY <1>1, <1>2, OtpFacts

(***************************************************************************)
(* The jobs of the workers.                                                *)
(***************************************************************************)
LEMMA CodeJobs ==
  ASSUME NEW job \in OneTime!Job
  PROVE  /\ job.at \in {"idle", "limits", "create", "compare"}
         /\ job.at = "idle" <=> job = OneTime!Idle
         /\ job.at \in {"limits", "create"} =>
               /\ job.purpose \in Purposes /\ job.now \in 0 .. MaxClock
               /\ [job EXCEPT !.at = "create"] \in OneTime!Job
               /\ [job EXCEPT !.at = "create"].at = "create"
               /\ [job EXCEPT !.at = "create"].purpose = job.purpose
         /\ job.at = "compare" => job.code \in OneTime!Codes /\ job.row \in OneTime!CodeRow
  BY DEF OneTime!Job, OneTime!Idle

LEMMA JobTaken ==
  ASSUME OneTime!TypeOK, NEW w \in Workers, NEW job \in OneTime!Job, OneTime!Goes(w, job)
  PROVE  /\ verifier' \in [Workers -> OneTime!Job]
         /\ verifier'[w] = job
         /\ \A v \in Workers \ {w} : verifier'[v] = verifier[v]
  BY DEF OneTime!TypeOK, OneTime!Goes

CodesStep == CodesInvariant' /\ OneTime!AcceptsInTime

\* A step that changes a worker's job only, and locks no row that another has.
LEMMA JobStep ==
  ASSUME CodesInvariant, NEW w \in Workers, NEW job \in OneTime!Job, OneTime!Goes(w, job),
         UNCHANGED <<clock, code, admitted>>, refused' \in Nat,
         job.at = "compare" =>
            /\ code[job.code] = job.row /\ ~job.row.is_consumed
            /\ \A v \in Workers \ {w} : Compares(v) => verifier[v].code # job.code,
         VolumeIsBounded', LiveCodesWereRequested'
  PROVE  CodesStep
<1>1. /\ verifier' \in [Workers -> OneTime!Job] /\ verifier'[w] = job
      /\ \A v \in Workers \ {w} : verifier'[v] = verifier[v]
  BY JobTaken DEF CodesInvariant
<1>2. OneTime!TypeOK'
  BY <1>1 DEF CodesInvariant, OneTime!TypeOK
<1>3. SnapshotIsCurrent'
  BY <1>1 DEF CodesInvariant, SnapshotIsCurrent, Compares
<1>4. OneComparison'
  BY <1>1 DEF CodesInvariant, OneComparison, Compares
<1>5. OneTime!AcceptedOnce'
  BY DEF CodesInvariant, OneTime!AcceptedOnce, OneTime!Created
<1>6. OneTime!AcceptsInTime
  BY OtpFacts DEF CodesInvariant, OneTime!TypeOK, OneTime!AcceptsInTime
<1>7. QED
  BY <1>2, <1>3, <1>4, <1>5, <1>6 DEF CodesStep, CodesInvariant

\* A worker whose job is neither a request for a code nor becomes one.
LEMMA BystanderCounts ==
  ASSUME CodesInvariant, NEW w \in Workers, NEW job \in OneTime!Job, OneTime!Goes(w, job),
         UNCHANGED <<clock, code>>,
         job.at \in {"idle", "compare"}
  PROVE  VolumeIsBounded' /\ LiveCodesWereRequested'
<1>1. /\ verifier'[w] = job
      /\ \A v \in Workers \ {w} : verifier'[v] = verifier[v]
  BY JobTaken DEF CodesInvariant
<1>2. Creators' \subseteq Creators
  BY <1>1 DEF Creators
<1>3. ASSUME NEW p \in Purposes
      PROVE  Requesters(p)' \subseteq Requesters(p) /\ OneTime!Live(p)' \subseteq OneTime!Live(p)
  BY <1>1 DEF Requesters, OneTime!Live, OneTime!Created
<1>4. \A t \in 0 .. MaxClock : CreatedFrom(t)' \subseteq CreatedFrom(t)
  BY DEF CreatedFrom, OneTime!Created
<1>5. clock \in Nat /\ clock' \in Nat /\ clock' >= clock
  BY OtpFacts DEF CodesInvariant, OneTime!TypeOK
<1>6. QED
  BY <1>2, <1>3, <1>4, <1>5, VolumeKept, LiveKept DEF CodesInvariant

LEMMA IdleJob == OneTime!Idle \in OneTime!Job /\ OneTime!Idle.at = "idle"
  BY DEF OneTime!Idle, OneTime!Job

LEMMA EndSteps ==
  ASSUME CodesInvariant, NEW w \in Workers, OneTime!RefuseWrongCode(w) \/ OneTime!GiveUp(w)
  PROVE  CodesStep
<1>1. /\ OneTime!Goes(w, OneTime!Idle) /\ UNCHANGED <<clock, code, admitted>>
      /\ refused' \in {refused, refused + 1}
  BY DEF OneTime!RefuseWrongCode, OneTime!GiveUp
<1>2. refused' \in Nat
  BY <1>1 DEF CodesInvariant, OneTime!TypeOK
<1>3. QED
  BY <1>1, <1>2, IdleJob, BystanderCounts, JobStep

LEMMA LockStep ==
  ASSUME CodesInvariant, NEW w \in Workers, NEW p \in Purposes, OneTime!LockNewest(w, p)
  PROVE  CodesStep
<1>1. PICK c \in OneTime!Live(p) :
         /\ ~OneTime!Locked(c)
         /\ OneTime!Goes(w, [at |-> "compare", code |-> c, row |-> code[c]])
  BY DEF OneTime!LockNewest
<1>2. UNCHANGED <<clock, code, admitted, refused>>
  BY DEF OneTime!LockNewest
<1>3. c \in OneTime!Codes /\ code[c].exists /\ ~code[c].is_consumed
  BY DEF OneTime!Live, OneTime!Created
<1>4. code[c] \in OneTime!CodeRow
  BY <1>3 DEF CodesInvariant, OneTime!TypeOK, OneTime!NoCode
<1>5. PICK job \in OneTime!Job : job = [at |-> "compare", code |-> c, row |-> code[c]]
  BY <1>3, <1>4 DEF OneTime!Job
<1>6. \A v \in Workers \ {w} : Compares(v) => verifier[v].code # job.code
  BY <1>1, <1>5 DEF OneTime!Locked, Compares
<1>7. VolumeIsBounded' /\ LiveCodesWereRequested'
  BY <1>1, <1>2, <1>5, BystanderCounts
<1>8. refused' \in Nat
  BY <1>2 DEF CodesInvariant, OneTime!TypeOK
<1>9. QED
  BY <1>1, <1>2, <1>3, <1>5, <1>6, <1>7, <1>8, JobStep

\* Whoever starts a request found no live code of its purpose: all that can
\* become live are the requests, one for each worker.
LEMMA FindStep ==
  ASSUME CodesInvariant, NEW w \in Workers, NEW p \in Purposes, OneTime!FindNoLiveCode(w, p)
  PROVE  CodesStep
<1>1. PICK job \in OneTime!Job : job = [at |-> "limits", purpose |-> p, now |-> clock]
  BY DEF CodesInvariant, OneTime!TypeOK, OneTime!Job
<1>2. /\ OneTime!Goes(w, job) /\ OneTime!Live(p) = {} /\ verifier[w] = OneTime!Idle
      /\ UNCHANGED <<clock, code, admitted, refused>>
  BY <1>1 DEF OneTime!FindNoLiveCode
<1>3. /\ verifier'[w] = job
      /\ \A v \in Workers \ {w} : verifier'[v] = verifier[v]
  BY <1>2, JobTaken DEF CodesInvariant
<1>4. VolumeIsBounded'
  <2>1. Creators' \subseteq Creators
    BY <1>1, <1>3 DEF Creators
  <2>2. \A t \in 0 .. MaxClock : CreatedFrom(t)' \subseteq CreatedFrom(t)
    BY <1>2 DEF CreatedFrom, OneTime!Created
  <2>3. clock \in Nat /\ clock' \in Nat /\ clock' >= clock
    BY <1>2, OtpFacts DEF CodesInvariant, OneTime!TypeOK
  <2>4. QED
    BY <2>1, <2>2, <2>3, VolumeKept DEF CodesInvariant
<1>5. LiveCodesWereRequested'
  <2> SUFFICES ASSUME NEW q \in Purposes
               PROVE  Cardinality(OneTime!Live(q)') + Cardinality(Requesters(q)') <= Cardinality(Workers)
    BY DEF LiveCodesWereRequested
  <2>1. OneTime!Live(q)' = OneTime!Live(q)
    BY <1>2 DEF OneTime!Live, OneTime!Created
  <2>2. CASE q = p
    <3>1. Requesters(q)' \subseteq Workers
      BY DEF Requesters
    <3>2. Cardinality(OneTime!Live(q)') = 0
      BY <1>2, <2>1, <2>2, FS_EmptySet
    <3>3. QED
      BY <3>1, <3>2, OtpFacts, Smaller
  <2>3. CASE q # p
    <3>1. Requesters(q)' = Requesters(q)
      BY <1>1, <1>2, <1>3, <2>3 DEF Requesters, OneTime!Idle
    <3>2. QED
      BY <2>1, <3>1 DEF CodesInvariant, LiveCodesWereRequested
  <2>4. QED
    BY <2>2, <2>3
<1>6. refused' \in Nat
  BY <1>2 DEF CodesInvariant, OneTime!TypeOK
<1>7. QED
  BY <1>1, <1>2, <1>4, <1>5, <1>6, JobStep

\* Whoever passes the limits saw fewer than MaxPerWindow codes in the window that
\* ends now, and the codes of every later window are among them.
LEMMA LimitsStep ==
  ASSUME CodesInvariant, NEW w \in Workers, OneTime!CheckLimits(w)
  PROVE  CodesStep
<1>1. /\ verifier[w] \in OneTime!Job /\ verifier[w].at = "limits"
      /\ UNCHANGED <<clock, code, admitted, refused>>
  BY DEF CodesInvariant, OneTime!TypeOK, OneTime!CheckLimits
<1>2. refused' \in Nat
  BY <1>1 DEF CodesInvariant, OneTime!TypeOK
<1>3. CASE ~OneTime!WithinLimits
  <2>1. OneTime!Goes(w, OneTime!Idle)
    BY <1>3 DEF OneTime!CheckLimits
  <2>2. QED
    BY <1>1, <1>2, <2>1, IdleJob, BystanderCounts, JobStep
<1>4. CASE OneTime!WithinLimits
  <2>1. PICK job \in OneTime!Job : job = [verifier[w] EXCEPT !.at = "create"]
    BY <1>1, CodeJobs
  <2>2. job.at = "create" /\ job.purpose = verifier[w].purpose
    BY <1>1, <2>1, CodeJobs
  <2>3. OneTime!Goes(w, job)
    BY <1>4, <2>1 DEF OneTime!CheckLimits
  <2>4. /\ verifier'[w] = job
        /\ \A v \in Workers \ {w} : verifier'[v] = verifier[v]
    BY <2>3, JobTaken DEF CodesInvariant
  <2>5. LiveCodesWereRequested'
    <3>1. ASSUME NEW p \in Purposes
          PROVE  Requesters(p)' \subseteq Requesters(p) /\ OneTime!Live(p)' \subseteq OneTime!Live(p)
      BY <1>1, <2>2, <2>4 DEF Requesters, OneTime!Live, OneTime!Created
    <3>2. QED
      BY <3>1, LiveKept DEF CodesInvariant
  <2>6. VolumeIsBounded'
    <3> SUFFICES ASSUME NEW t \in 0 .. MaxClock
                 PROVE  /\ Cardinality(CreatedFrom(t)') <= MaxVolume
                        /\ clock' <= t + Window =>
                              Cardinality(CreatedFrom(t)') + Cardinality(Creators') <= MaxVolume
      BY DEF VolumeIsBounded, MaxVolume
    <3>1. CreatedFrom(t)' = CreatedFrom(t) /\ clock' = clock
      BY <1>1 DEF CreatedFrom, OneTime!Created
    <3>2. Cardinality(Creators') \in Nat /\ Cardinality(Creators') <= Cardinality(Workers)
      <4>1. Creators' \subseteq Workers
        BY DEF Creators
      <4>2. QED
        BY <4>1, OtpFacts, Smaller
    <3>3. Cardinality(CreatedFrom(t)) \in Nat /\ Cardinality(CreatedFrom(t)) <= MaxVolume
      BY CodeSets DEF CodesInvariant, VolumeIsBounded
    <3>4. ASSUME clock <= t + Window PROVE Cardinality(CreatedFrom(t)) < MaxPerWindow
      <4> DEFINE recent == {c \in OneTime!Created : clock - code[c].created <= Window}
      <4>1. IsFiniteSet(recent) /\ Cardinality(recent) < MaxPerWindow
        <5>1. recent \subseteq OneTime!Codes
          BY DEF OneTime!Created
        <5>2. QED
          BY <1>4, <5>1, OtpFacts, Smaller, CodesCounted DEF OneTime!WithinLimits
      <4>2. CreatedFrom(t) \subseteq recent
        <5> SUFFICES ASSUME NEW c \in CreatedFrom(t) PROVE c \in recent
          OBVIOUS
        <5>1. c \in OneTime!Created /\ code[c].created \in t .. t + Window
          BY DEF CreatedFrom
        <5>2. clock \in Nat /\ code[c].created \in Nat
          BY <5>1, OtpFacts
             DEF CodesInvariant, OneTime!TypeOK, OneTime!Created, OneTime!CodeRow, OneTime!NoCode
        <5>3. clock - code[c].created <= Window
          BY <3>4, <5>1, <5>2, OtpFacts
        <5>4. QED
          BY <5>1, <5>3
      <4> HIDE DEF recent
      <4>3. QED
        BY <4>1, <4>2, Smaller, OtpFacts
    <3>5. QED
      BY <3>1, <3>2, <3>3, <3>4, OtpFacts DEF MaxVolume
  <2>7. QED
    BY <1>1, <1>2, <2>2, <2>3, <2>5, <2>6, JobStep
<1>5. QED
  BY <1>3, <1>4

\* The request becomes a code: it is no longer counted among the requests.
LEMMA CreateStep ==
  ASSUME CodesInvariant, NEW w \in Workers, OneTime!CreateCode(w)
  PROVE  CodesStep
<1>1. PICK c \in OneTime!Codes \ OneTime!Created :
         code' = [code EXCEPT ![c] =
                    [exists |-> TRUE, purpose |-> verifier[w].purpose, is_consumed |-> FALSE,
                     created |-> clock, expires |-> verifier[w].now + Lifetime,
                     attempts |-> 0]]
  BY DEF OneTime!CreateCode
<1>2. /\ verifier[w].at = "create" /\ OneTime!Goes(w, OneTime!Idle)
      /\ UNCHANGED <<clock, admitted, refused>>
  BY DEF OneTime!CreateCode
<1>3. verifier[w].purpose \in Purposes /\ verifier[w].now \in 0 .. MaxClock
  BY <1>2, CodeJobs DEF CodesInvariant, OneTime!TypeOK
<1>4. clock \in 0 .. MaxClock /\ verifier[w].now + Lifetime \in 0 .. MaxClock + Lifetime
  BY <1>3, OtpFacts DEF CodesInvariant, OneTime!TypeOK
<1>5. PICK new \in OneTime!CodeRow :
         new = [exists |-> TRUE, purpose |-> verifier[w].purpose, is_consumed |-> FALSE,
                created |-> clock, expires |-> verifier[w].now + Lifetime, attempts |-> 0]
  BY <1>3, <1>4 DEF OneTime!CodeRow
<1>6. /\ new.exists /\ ~new.is_consumed /\ new.purpose = verifier[w].purpose
      /\ new.created = clock
  BY <1>5
<1>7. /\ code' \in [OneTime!Codes -> {OneTime!NoCode} \cup OneTime!CodeRow]
      /\ code'[c] = new /\ \A d \in OneTime!Codes \ {c} : code'[d] = code[d]
  BY <1>1, <1>5 DEF CodesInvariant, OneTime!TypeOK
<1>8. /\ verifier' \in [Workers -> OneTime!Job]
      /\ verifier'[w] = OneTime!Idle
      /\ \A v \in Workers \ {w} : verifier'[v] = verifier[v]
  BY <1>2, IdleJob, JobTaken DEF CodesInvariant
<1>9. OneTime!TypeOK'
  BY <1>2, <1>7, <1>8 DEF CodesInvariant, OneTime!TypeOK
<1>10. SnapshotIsCurrent'
  <2> SUFFICES ASSUME NEW v \in Workers, Compares(v)'
               PROVE  /\ code'[verifier'[v].code] = verifier'[v].row
                      /\ ~verifier'[v].row.is_consumed
    BY DEF SnapshotIsCurrent
  <2>1. v # w /\ verifier'[v] = verifier[v] /\ Compares(v)
    BY <1>8, IdleJob DEF Compares
  <2>2. /\ verifier[v].code \in OneTime!Codes /\ verifier[v].row \in OneTime!CodeRow
        /\ code[verifier[v].code] = verifier[v].row /\ ~verifier[v].row.is_consumed
    BY <2>1, CodeJobs DEF CodesInvariant, OneTime!TypeOK, SnapshotIsCurrent, Compares
  <2>3. verifier[v].code # c
    BY <2>2 DEF OneTime!Created, OneTime!CodeRow
  <2>4. QED
    BY <1>7, <2>1, <2>2, <2>3
<1>11. OneComparison'
  BY <1>8, IdleJob DEF CodesInvariant, OneComparison, Compares
<1>12. OneTime!AcceptedOnce'
  BY <1>2, <1>6, <1>7 DEF CodesInvariant, OneTime!AcceptedOnce, OneTime!Created
<1>13. OneTime!AcceptsInTime
  BY <1>2, OtpFacts DEF CodesInvariant, OneTime!TypeOK, OneTime!AcceptsInTime
<1>14. w \in Creators /\ Creators' \subseteq Creators \ {w}
  BY <1>2, <1>8, IdleJob DEF Creators
<1>15. VolumeIsBounded'
  <2> SUFFICES ASSUME NEW t \in 0 .. MaxClock
               PROVE  /\ Cardinality(CreatedFrom(t)') <= MaxVolume
                      /\ clock' <= t + Window =>
                            Cardinality(CreatedFrom(t)') + Cardinality(Creators') <= MaxVolume
    BY DEF VolumeIsBounded, MaxVolume
  <2>1. CreatedFrom(t)' \subseteq CreatedFrom(t) \cup {c}
    BY <1>7 DEF CreatedFrom, OneTime!Created
  <2>2. ~(clock <= t + Window) => CreatedFrom(t)' \subseteq CreatedFrom(t)
    BY <1>4, <1>6, <1>7, OtpFacts DEF CreatedFrom, OneTime!Created
  <2>3. /\ Cardinality(Creators') \in Nat /\ Cardinality(Creators) \in Nat
        /\ Cardinality(Creators') + 1 <= Cardinality(Creators)
    BY <1>14, CodeSets, OneFewer
  <2>4. /\ Cardinality(CreatedFrom(t)') \in Nat /\ Cardinality(CreatedFrom(t)) \in Nat
        /\ Cardinality(CreatedFrom(t)') <= Cardinality(CreatedFrom(t)) + 1
    BY <2>1, CodeSets, OneMore
  <2>5. ~(clock <= t + Window) => Cardinality(CreatedFrom(t)') <= Cardinality(CreatedFrom(t))
    BY <2>2, CodeSets, Smaller
  <2>6. /\ Cardinality(CreatedFrom(t)) <= MaxVolume
        /\ clock <= t + Window =>
              Cardinality(CreatedFrom(t)) + Cardinality(Creators) <= MaxVolume
    BY DEF CodesInvariant, VolumeIsBounded
  <2>7. MaxVolume \in Int /\ clock' = clock
    BY <1>2, OtpFacts DEF MaxVolume
  <2>8. CASE clock <= t + Window
    <3>1. Cardinality(CreatedFrom(t)') + Cardinality(Creators') <= MaxVolume
      BY <2>3, <2>4, <2>6, <2>7, <2>8
    <3>2. QED
      BY <2>3, <2>4, <2>7, <3>1
  <2>9. CASE ~(clock <= t + Window)
    BY <2>4, <2>5, <2>6, <2>7, <2>9
  <2>10. QED
    BY <2>8, <2>9
<1>16. LiveCodesWereRequested'
  <2> SUFFICES ASSUME NEW p \in Purposes
               PROVE  Cardinality(OneTime!Live(p)') + Cardinality(Requesters(p)') <= Cardinality(Workers)
    BY DEF LiveCodesWereRequested
  <2>1. Cardinality(OneTime!Live(p)) + Cardinality(Requesters(p)) <= Cardinality(Workers)
    BY DEF CodesInvariant, LiveCodesWereRequested
  <2>2. CASE p = verifier[w].purpose
    <3>1. OneTime!Live(p)' \subseteq OneTime!Live(p) \cup {c}
      BY <1>2, <1>7 DEF OneTime!Live, OneTime!Created
    <3>2. w \in Requesters(p) /\ Requesters(p)' \subseteq Requesters(p) \ {w}
      BY <1>2, <1>8, <2>2, IdleJob DEF Requesters
    <3>3. /\ Cardinality(OneTime!Live(p)') <= Cardinality(OneTime!Live(p)) + 1
          /\ Cardinality(OneTime!Live(p)') \in Nat /\ Cardinality(OneTime!Live(p)) \in Nat
      BY <3>1, CodeSets, OneMore
    <3>4. /\ Cardinality(Requesters(p)') + 1 <= Cardinality(Requesters(p))
          /\ Cardinality(Requesters(p)') \in Nat /\ Cardinality(Requesters(p)) \in Nat
      BY <3>2, CodeSets, OneFewer
    <3>5. QED
      BY <2>1, <3>3, <3>4, OtpFacts
  <2>3. CASE p # verifier[w].purpose
    <3>1. OneTime!Live(p)' \subseteq OneTime!Live(p)
      BY <1>2, <1>6, <1>7, <2>3 DEF OneTime!Live, OneTime!Created
    <3>2. Requesters(p)' \subseteq Requesters(p)
      BY <1>8, IdleJob DEF Requesters
    <3>3. /\ Cardinality(OneTime!Live(p)') <= Cardinality(OneTime!Live(p))
          /\ Cardinality(Requesters(p)') <= Cardinality(Requesters(p))
          /\ Cardinality(OneTime!Live(p)') \in Nat /\ Cardinality(OneTime!Live(p)) \in Nat
          /\ Cardinality(Requesters(p)') \in Nat /\ Cardinality(Requesters(p)) \in Nat
      BY <3>1, <3>2, CodeSets, Smaller
    <3>4. QED
      BY <2>1, <3>3, OtpFacts
  <2>4. QED
    BY <2>2, <2>3
<1>17. QED
  BY <1>9, <1>10, <1>11, <1>12, <1>13, <1>15, <1>16 DEF CodesStep, CodesInvariant

\* The row is what the worker read, so that it was not accepted before, and no
\* other worker compares with it.
LEMMA AdmitStep ==
  ASSUME CodesInvariant, NEW w \in Workers, OneTime!Admit(w)
  PROVE  CodesStep
<1> DEFINE c == verifier[w].code
<1>1. /\ verifier[w].at = "compare" /\ OneTime!Goes(w, OneTime!Idle)
      /\ UNCHANGED <<clock, refused>>
      /\ code' = [code EXCEPT ![c].is_consumed = TRUE]
      /\ admitted' = [admitted EXCEPT ![c] = admitted[c] + 1]
      /\ clock < verifier[w].row.expires
  BY DEF OneTime!Admit
<1>2. /\ c \in OneTime!Codes /\ verifier[w].row \in OneTime!CodeRow
      /\ code[c] = verifier[w].row /\ ~verifier[w].row.is_consumed
  BY <1>1, CodeJobs DEF CodesInvariant, OneTime!TypeOK, SnapshotIsCurrent, Compares
<1>3. code[c].exists /\ ~code[c].is_consumed /\ clock < code[c].expires
  BY <1>1, <1>2 DEF OneTime!CodeRow
<1>4. PICK new \in OneTime!CodeRow : new = [verifier[w].row EXCEPT !.is_consumed = TRUE]
  BY <1>2 DEF OneTime!CodeRow
<1>5. /\ new.is_consumed = TRUE /\ new.exists /\ new.purpose = code[c].purpose
      /\ new.created = code[c].created /\ new.expires = code[c].expires
  BY <1>2, <1>4 DEF OneTime!CodeRow
<1> HIDE DEF c
<1>6. /\ code' \in [OneTime!Codes -> {OneTime!NoCode} \cup OneTime!CodeRow]
      /\ code'[c] = new /\ \A d \in OneTime!Codes \ {c} : code'[d] = code[d]
  BY <1>1, <1>2, <1>4 DEF CodesInvariant, OneTime!TypeOK
<1>7. /\ admitted[c] \in Nat /\ admitted' \in [OneTime!Codes -> Nat]
      /\ admitted'[c] = admitted[c] + 1
      /\ \A d \in OneTime!Codes \ {c} : admitted'[d] = admitted[d]
  BY <1>1, <1>2 DEF CodesInvariant, OneTime!TypeOK
<1>8. /\ verifier' \in [Workers -> OneTime!Job]
      /\ verifier'[w] = OneTime!Idle
      /\ \A v \in Workers \ {w} : verifier'[v] = verifier[v]
  BY <1>1, IdleJob, JobTaken DEF CodesInvariant
<1>9. OneTime!TypeOK'
  BY <1>1, <1>6, <1>7, <1>8 DEF CodesInvariant, OneTime!TypeOK
<1>10. SnapshotIsCurrent'
  <2> SUFFICES ASSUME NEW v \in Workers, Compares(v)'
               PROVE  /\ code'[verifier'[v].code] = verifier'[v].row
                      /\ ~verifier'[v].row.is_consumed
    BY DEF SnapshotIsCurrent
  <2>1. v # w /\ verifier'[v] = verifier[v] /\ Compares(v)
    BY <1>8, IdleJob DEF Compares
  <2>2. verifier[v].code # c
    BY <1>1, <2>1 DEF CodesInvariant, OneComparison, Compares, c
  <2>3. /\ verifier[v].code \in OneTime!Codes
        /\ code[verifier[v].code] = verifier[v].row /\ ~verifier[v].row.is_consumed
    BY <2>1, CodeJobs DEF CodesInvariant, OneTime!TypeOK, SnapshotIsCurrent, Compares
  <2>4. QED
    BY <1>6, <2>1, <2>2, <2>3
<1>11. OneComparison'
  BY <1>8, IdleJob DEF CodesInvariant, OneComparison, Compares
<1>12. admitted[c] = 0
  BY <1>2, <1>3, <1>7 DEF CodesInvariant, OneTime!AcceptedOnce
<1>13. OneTime!AcceptedOnce'
  <2> SUFFICES ASSUME NEW d \in OneTime!Codes
               PROVE  /\ admitted'[d] <= 1
                      /\ admitted'[d] = 1 <=> (d \in OneTime!Created' /\ code'[d].is_consumed)
    BY DEF OneTime!AcceptedOnce
  <2>1. CASE d = c
    BY <1>2, <1>5, <1>6, <1>7, <1>12, <2>1 DEF OneTime!Created
  <2>2. CASE d # c
    BY <1>6, <1>7, <2>2 DEF CodesInvariant, OneTime!AcceptedOnce, OneTime!Created
  <2>3. QED
    BY <2>1, <2>2
<1>14. OneTime!AcceptsInTime
  <2> SUFFICES ASSUME NEW d \in OneTime!Codes, admitted'[d] > admitted[d]
               PROVE  clock < code[d].expires
    BY DEF OneTime!AcceptsInTime
  <2>1. d = c
    BY <1>7 DEF CodesInvariant, OneTime!TypeOK
  <2>2. QED
    BY <1>3, <2>1
<1>15. VolumeIsBounded'
  <2>1. Creators' \subseteq Creators
    BY <1>8, IdleJob DEF Creators
  <2>2. \A t \in 0 .. MaxClock : CreatedFrom(t)' \subseteq CreatedFrom(t)
    BY <1>3, <1>5, <1>6 DEF CreatedFrom, OneTime!Created
  <2>3. clock \in Nat /\ clock' \in Nat /\ clock' >= clock
    BY <1>1, OtpFacts DEF CodesInvariant, OneTime!TypeOK
  <2>4. QED
    BY <2>1, <2>2, <2>3, VolumeKept DEF CodesInvariant
<1>16. LiveCodesWereRequested'
  <2>1. ASSUME NEW p \in Purposes
        PROVE  Requesters(p)' \subseteq Requesters(p) /\ OneTime!Live(p)' \subseteq OneTime!Live(p)
    BY <1>1, <1>5, <1>6, <1>8, IdleJob DEF Requesters, OneTime!Live, OneTime!Created
  <2>2. QED
    BY <2>1, LiveKept DEF CodesInvariant
<1>17. QED
  BY <1>9, <1>10, <1>11, <1>13, <1>14, <1>15, <1>16 DEF CodesStep, CodesInvariant

LEMMA TickStep ==
  ASSUME CodesInvariant, OneTime!Tick
  PROVE  CodesStep
<1>1. /\ clock \in 0 .. MaxClock /\ clock' = clock + 1 /\ clock' \in 0 .. MaxClock
      /\ UNCHANGED <<code, verifier, admitted, refused>>
  BY OtpFacts DEF CodesInvariant, OneTime!TypeOK, OneTime!Tick
<1>2. /\ OneTime!TypeOK' /\ SnapshotIsCurrent' /\ OneComparison' /\ OneTime!AcceptedOnce'
      /\ OneTime!AcceptsInTime
  BY <1>1 DEF CodesInvariant, OneTime!TypeOK, SnapshotIsCurrent, OneComparison, Compares,
              OneTime!AcceptedOnce, OneTime!Created, OneTime!AcceptsInTime
<1>3. Creators' \subseteq Creators
  BY <1>1 DEF Creators
<1>4. \A t \in 0 .. MaxClock : CreatedFrom(t)' \subseteq CreatedFrom(t)
  BY <1>1 DEF CreatedFrom, OneTime!Created
<1>5. ASSUME NEW p \in Purposes
      PROVE  Requesters(p)' \subseteq Requesters(p) /\ OneTime!Live(p)' \subseteq OneTime!Live(p)
  <2>1. Requesters(p)' = Requesters(p)
    BY <1>1 DEF Requesters
  <2>2. ASSUME NEW c \in OneTime!Created PROVE code[c].expires \in Int
    <3>1. code[c] \in OneTime!CodeRow
      BY DEF CodesInvariant, OneTime!TypeOK, OneTime!Created, OneTime!NoCode
    <3>2. code[c].expires \in 0 .. MaxClock + Lifetime
      BY <3>1 DEF OneTime!CodeRow
    <3>3. QED
      BY <3>2, OtpFacts
  <2>3. OneTime!Live(p)' \subseteq OneTime!Live(p)
    BY <1>1, <2>2, OtpFacts DEF OneTime!Live, OneTime!Created
  <2>4. QED
    BY <2>1, <2>3
<1>6. clock \in Nat /\ clock' \in Nat /\ clock' >= clock
  BY <1>1, OtpFacts
<1>7. QED
  BY <1>2, <1>3, <1>4, <1>5, <1>6, VolumeKept, LiveKept DEF CodesStep, CodesInvariant

LEMMA CodesInit == OneTime!Init => CodesInvariant
<1> SUFFICES ASSUME OneTime!Init PROVE CodesInvariant
  OBVIOUS
<1>1. OneTime!TypeOK
  BY IdleJob, OtpFacts DEF OneTime!Init, OneTime!TypeOK
<1>2. /\ OneTime!Created = {} /\ \A w \in Workers : verifier[w].at = "idle"
      /\ \A c \in OneTime!Codes : admitted[c] = 0
  BY IdleJob DEF OneTime!Init, OneTime!Created, OneTime!NoCode
<1>3. SnapshotIsCurrent /\ OneComparison /\ OneTime!AcceptedOnce
  BY <1>2 DEF SnapshotIsCurrent, OneComparison, Compares, OneTime!AcceptedOnce
<1>4. Creators = {} /\ \A t \in 0 .. MaxClock : CreatedFrom(t) = {}
  BY <1>2 DEF Creators, CreatedFrom
<1>5. \A p \in Purposes : Requesters(p) = {} /\ OneTime!Live(p) = {}
  BY <1>2 DEF Requesters, OneTime!Live
<1>6. VolumeIsBounded
  <2> SUFFICES ASSUME NEW t \in 0 .. MaxClock
               PROVE  /\ Cardinality(CreatedFrom(t)) <= MaxVolume
                      /\ Cardinality(CreatedFrom(t)) + Cardinality(Creators) <= MaxVolume
    BY DEF VolumeIsBounded
  <2>1. Cardinality(CreatedFrom(t)) = 0 /\ Cardinality(Creators) = 0
    BY <1>4, FS_EmptySet
  <2>2. QED
    BY <2>1, OtpFacts DEF MaxVolume
<1>7. LiveCodesWereRequested
  <2> SUFFICES ASSUME NEW p \in Purposes
               PROVE  Cardinality(OneTime!Live(p)) + Cardinality(Requesters(p)) <= Cardinality(Workers)
    BY DEF LiveCodesWereRequested
  <2>1. Cardinality(OneTime!Live(p)) = 0 /\ Cardinality(Requesters(p)) = 0
    BY <1>5, FS_EmptySet
  <2>2. QED
    BY <2>1, OtpFacts
<1>8. QED
  BY <1>1, <1>3, <1>6, <1>7 DEF CodesInvariant

LEMMA CodesSteps == CodesInvariant /\ [OneTime!Next]_otpVars => CodesInvariant' /\ [CodesStep]_otpVars
<1> SUFFICES ASSUME CodesInvariant, [OneTime!Next]_otpVars
             PROVE  CodesInvariant' /\ [CodesStep]_otpVars
  OBVIOUS
<1>1. ASSUME NEW w \in Workers, NEW p \in Purposes,
             OneTime!FindNoLiveCode(w, p) \/ OneTime!LockNewest(w, p)
      PROVE  CodesStep
  BY <1>1, FindStep, LockStep
<1>2. ASSUME NEW w \in Workers,
             \/ OneTime!CheckLimits(w) \/ OneTime!CreateCode(w) \/ OneTime!Admit(w)
             \/ OneTime!RefuseWrongCode(w) \/ OneTime!GiveUp(w)
      PROVE  CodesStep
  BY <1>2, LimitsStep, CreateStep, AdmitStep, EndSteps
<1>3. CASE OneTime!Tick
  BY <1>3, TickStep DEF CodesStep
<1>4. CASE UNCHANGED otpVars
  <2>1. /\ Creators' = Creators /\ \A t : CreatedFrom(t)' = CreatedFrom(t)
        /\ \A p : Requesters(p)' = Requesters(p) /\ OneTime!Live(p)' = OneTime!Live(p)
    BY <1>4 DEF otpVars, Creators, CreatedFrom, OneTime!Created, Requesters, OneTime!Live
  <2>2. clock \in Nat /\ clock' \in Nat /\ clock' >= clock
    BY <1>4, OtpFacts DEF otpVars, CodesInvariant, OneTime!TypeOK
  <2>3. VolumeIsBounded' /\ LiveCodesWereRequested'
    BY <2>1, <2>2, VolumeKept, LiveKept DEF CodesInvariant
  <2>4. /\ OneTime!TypeOK' /\ SnapshotIsCurrent' /\ OneComparison' /\ OneTime!AcceptedOnce'
    BY <1>4 DEF otpVars, CodesInvariant, OneTime!TypeOK, SnapshotIsCurrent, OneComparison,
                Compares, OneTime!AcceptedOnce, OneTime!Created
  <2>5. QED
    BY <1>4, <2>3, <2>4 DEF CodesInvariant
<1>5. QED
  BY <1>1, <1>2, <1>3, <1>4 DEF CodesStep, OneTime!Next

\* Locks, snapshots and the two counts, for any number of workers and codes.
THEOREM CodesInvariantHolds == OneTime!Spec => []CodesInvariant
<1>1. CodesInvariant /\ [OneTime!Next]_otpVars => CodesInvariant'
  BY CodesSteps
<1>2. QED
  BY <1>1, CodesInit, PTL DEF OneTime!Spec, OneTime!vars, otpVars

\* A code is accepted once and in time, for any number of verifications at once:
\* the row is locked from when it is read until it is consumed.
THEOREM CodesAreAcceptedOnceInTime ==
    OneTime!Spec => [][OneTime!AcceptedOnce' /\ OneTime!AcceptsInTime]_otpVars
<1>1. CodesInvariant /\ [OneTime!Next]_otpVars
         => [OneTime!AcceptedOnce' /\ OneTime!AcceptsInTime]_otpVars
  BY CodesSteps DEF CodesStep, CodesInvariant
<1>2. QED
  BY <1>1, CodesInvariantHolds, PTL DEF OneTime!Spec, OneTime!vars, otpVars

\* Fewer codes than workers pass the volume limit together, and no more codes of
\* a purpose are live than workers.
THEOREM CodesStayFew == OneTime!Spec => [](OneTime!VolumeNearLimit /\ OneTime!LiveCodesAreFew)
<1>1. CodesInvariant => OneTime!VolumeNearLimit
  <2> SUFFICES ASSUME CodesInvariant, NEW t \in 0 .. MaxClock
               PROVE  Cardinality({c \in OneTime!Created : code[c].created \in t .. t + Window})
                         <= MaxPerWindow - 1 + Cardinality(Workers)
    BY CodesCounted DEF OneTime!VolumeNearLimit
  <2>1. QED
    BY DEF CodesInvariant, VolumeIsBounded, CreatedFrom, MaxVolume
<1>2. CodesInvariant => OneTime!LiveCodesAreFew
  <2> SUFFICES ASSUME CodesInvariant, NEW p \in Purposes
               PROVE  Cardinality(OneTime!Live(p)) <= Cardinality(Workers)
    BY CodesCounted DEF OneTime!LiveCodesAreFew
  <2>1. Cardinality(OneTime!Live(p)) + Cardinality(Requesters(p)) <= Cardinality(Workers)
    BY DEF CodesInvariant, LiveCodesWereRequested
  <2>2. QED
    BY <2>1, CodeSets, OtpFacts
<1>3. QED
  BY <1>1, <1>2, CodesInvariantHolds, PTL

(***************************************************************************)
(* The throttle: the inductive invariant.                                  *)
(***************************************************************************)
\* A request that has been counted remembers its window.
CountedInItsWindow ==
    \A r \in Requests :
        /\ request[r].window <= window
        /\ request[r].at \in {"add", "incr", "readd", "incr_again"} => request[r].window = 0
        /\ request[r].at \in {"undo", "accepted", "refused"} => request[r].window > 0

\* The key counts the accepted requests of its window and those that will give
\* their place back; refused requests of earlier windows may have given theirs
\* back to this key.
Undoing == {r \in Requests : request[r].at = "undo" /\ request[r].window = window}
GaveBack == {r \in Requests : request[r].at = "refused" /\ request[r].window \in 1 .. window - 1}
Taken == Cardinality(Counter!Accepted(window)) + Cardinality(Undoing)
KeyCounts ==
    key.present => /\ window > 0
                   /\ key.count <= Taken
                   /\ Taken <= key.count + Cardinality(GaveBack)

RefusalsAreFair ==
    \A r \in Requests : request[r].at \in {"undo", "refused"} =>
        Cardinality(Counter!Accepted(request[r].window)) >= Limit

OvercountedBefore(w) ==
    {r \in Requests : /\ request[r].at \in {"undo", "refused", "error"}
                      /\ request[r].window \in 1 .. w - 1}
OvershootIsCaused ==
    \A w \in 1 .. window :
        Cardinality(Counter!Accepted(w)) <= Limit + Cardinality(OvercountedBefore(w))

CounterInvariant ==
    /\ Counter!TypeOK
    /\ CountedInItsWindow
    /\ KeyCounts
    /\ RefusalsAreFair
    /\ OvershootIsCaused

LEMMA CounterFacts ==
    /\ Limit \in Nat \ {0} /\ MaxWindows \in Nat \ {0} /\ IsFiniteSet(Requests)
<1>1. IsFiniteSet(Requests)
  BY PartsAssumption DEF Counter!ThrottleAssumption, Counter!IsFiniteSet, IsFiniteSet
<1>2. QED
  BY <1>1, PartsAssumption DEF Counter!ThrottleAssumption

LEMMA RequestsCounted == \A S : Counter!Cardinality(S) = Cardinality(S)
  BY DEF Counter!Cardinality, Cardinality

LEMMA RequestSets ==
  ASSUME NEW w
  PROVE  /\ IsFiniteSet(Counter!Accepted(w)) /\ Cardinality(Counter!Accepted(w)) \in Nat
         /\ IsFiniteSet(OvercountedBefore(w)) /\ Cardinality(OvercountedBefore(w)) \in Nat
         /\ IsFiniteSet(Undoing) /\ Cardinality(Undoing) \in Nat
         /\ IsFiniteSet(GaveBack) /\ Cardinality(GaveBack) \in Nat
<1>1. /\ Counter!Accepted(w) \subseteq Requests /\ OvercountedBefore(w) \subseteq Requests
      /\ Undoing \subseteq Requests /\ GaveBack \subseteq Requests
  BY DEF Counter!Accepted, OvercountedBefore, Undoing, GaveBack
<1>2. QED
  BY <1>1, CounterFacts, Smaller

LEMMA SetsAfter ==
  ASSUME NEW w
  PROVE  /\ Cardinality(Counter!Accepted(w)') \in Nat
         /\ Cardinality(OvercountedBefore(w)') \in Nat
         /\ Cardinality(Undoing') \in Nat /\ Cardinality(GaveBack') \in Nat
<1>1. /\ Counter!Accepted(w)' \subseteq Requests /\ OvercountedBefore(w)' \subseteq Requests
      /\ Undoing' \subseteq Requests /\ GaveBack' \subseteq Requests
  BY DEF Counter!Accepted, OvercountedBefore, Undoing, GaveBack
<1>2. QED
  BY <1>1, CounterFacts, Smaller

LEMMA CounterTyped ==
  ASSUME CounterInvariant
  PROVE  /\ window \in 0 .. MaxWindows /\ window \in Nat
         /\ key.present \in BOOLEAN /\ key.count \in Int
         /\ \A r \in Requests : /\ request[r] \in Counter!Request
                                /\ request[r].at \in Counter!Stage /\ request[r].window \in Nat
  BY CounterFacts DEF CounterInvariant, Counter!TypeOK, Counter!Request

\* What happens to the requests of the past, and only to them.
LEMMA PastKept ==
  ASSUME CounterInvariant, window' = window,
         \A w \in 1 .. window : /\ Counter!Accepted(w)' = Counter!Accepted(w)
                                /\ OvercountedBefore(w)' = OvercountedBefore(w),
         \A r \in Requests : request'[r].at \in {"undo", "refused"} =>
             /\ request[r].at \in {"undo", "refused"}
             /\ request'[r].window = request[r].window
  PROVE  RefusalsAreFair' /\ OvershootIsCaused'
<1>1. RefusalsAreFair'
  <2> SUFFICES ASSUME NEW r \in Requests, request'[r].at \in {"undo", "refused"},
                      NEW w, w = request'[r].window
               PROVE  Cardinality(Counter!Accepted(w)') >= Limit
    BY DEF RefusalsAreFair
  <2>1. /\ request[r].at \in {"undo", "refused"} /\ request[r].window = w
        /\ w \in 1 .. window
    BY CounterTyped DEF CounterInvariant, CountedInItsWindow
  <2>2. QED
    BY <2>1 DEF CounterInvariant, RefusalsAreFair
<1>2. OvershootIsCaused'
  BY DEF CounterInvariant, OvershootIsCaused
<1>3. QED
  BY <1>1, <1>2

LEMMA RequestMoves ==
  ASSUME CounterInvariant, NEW r \in Requests, NEW new \in Counter!Request,
         request' = [request EXCEPT ![r] = new]
  PROVE  /\ request' \in [Requests -> Counter!Request]
         /\ request'[r] = new
         /\ \A q \in Requests \ {r} : request'[q] = request[q]
  BY DEF CounterInvariant, Counter!TypeOK

LEMMA StageMoves ==
  ASSUME CounterInvariant, NEW r \in Requests, NEW at \in Counter!Stage, Counter!Goes(r, at)
  PROVE  /\ request' \in [Requests -> Counter!Request]
         /\ request'[r].at = at /\ request'[r].window = request[r].window
         /\ \A q \in Requests \ {r} : request'[q] = request[q]
<1>1. request \in [Requests -> Counter!Request]
  BY DEF CounterInvariant, Counter!TypeOK
<1>2. PICK new \in Counter!Request : new = [request[r] EXCEPT !.at = at]
  BY <1>1 DEF Counter!Request
<1>3. new.at = at /\ new.window = request[r].window
  BY <1>1, <1>2 DEF Counter!Request
<1>4. request' = [request EXCEPT ![r] = new]
  BY <1>2 DEF Counter!Goes
<1>5. QED
  BY <1>3, <1>4, RequestMoves

LEMMA CountedMoves ==
  ASSUME CounterInvariant, NEW r \in Requests, NEW at \in Counter!Stage,
         NEW w \in 0 .. MaxWindows, Counter!Counted(r, at, w)
  PROVE  /\ request' \in [Requests -> Counter!Request]
         /\ request'[r].at = at /\ request'[r].window = w
         /\ \A q \in Requests \ {r} : request'[q] = request[q]
<1>1. PICK new \in Counter!Request : new = [at |-> at, window |-> w]
  BY DEF Counter!Request
<1>2. QED
  BY <1>1, RequestMoves DEF Counter!Counted

\* The first request of a window has it for itself.
LEMMA EstablishStep ==
  ASSUME CounterInvariant, NEW r \in Requests, Counter!Add(r)
  PROVE  CounterInvariant'
<1>1. /\ request[r].at \in {"add", "readd"}
      /\ key' = [present |-> TRUE, count |-> 1] /\ window' = window + 1 /\ window < MaxWindows
      /\ Counter!Counted(r, "accepted", window + 1)
  BY DEF Counter!Add, Counter!Establish
<1>2. /\ window \in Nat /\ window' \in 0 .. MaxWindows /\ window' \in Nat /\ window' = window + 1
      /\ request[r].window = 0
  BY <1>1, CounterTyped, CounterFacts DEF CounterInvariant, CountedInItsWindow
<1>3. /\ request' \in [Requests -> Counter!Request]
      /\ request'[r].at = "accepted" /\ request'[r].window = window'
      /\ \A q \in Requests \ {r} : request'[q] = request[q]
  BY <1>1, <1>2, CountedMoves DEF Counter!Stage
<1>4. \A q \in Requests : request[q].window \in 0 .. window
  BY <1>2, CounterTyped DEF CounterInvariant, CountedInItsWindow
<1>5. Counter!TypeOK'
  BY <1>1, <1>2, <1>3 DEF Counter!TypeOK
<1>6. CountedInItsWindow'
  BY <1>1, <1>2, <1>3, CounterTyped DEF CounterInvariant, CountedInItsWindow
<1>7. \A w \in 1 .. window : /\ Counter!Accepted(w)' = Counter!Accepted(w)
                             /\ OvercountedBefore(w)' = OvercountedBefore(w)
  BY <1>1, <1>2, <1>3 DEF Counter!Accepted, OvercountedBefore
<1>8. \A w : w = window' => Counter!Accepted(w)' = {r}
  BY <1>2, <1>3, <1>4 DEF Counter!Accepted
<1>9. \A w : w = window' => Cardinality(Counter!Accepted(w)') = 1
  BY <1>8, FS_Singleton
<1>10. KeyCounts'
  <2>1. Undoing' = {}
    BY <1>2, <1>3, <1>4 DEF Undoing
  <2>2. Cardinality(Undoing') = 0 /\ Cardinality(GaveBack') \in Nat
    BY <2>1, FS_EmptySet, SetsAfter
  <2>3. Cardinality(Counter!Accepted(window)') = 1
    <3>1. Counter!Accepted(window)' = {r}
      BY <1>2, <1>3, <1>4 DEF Counter!Accepted
    <3>2. QED
      BY <3>1, FS_Singleton
  <2>4. Taken' = 1
    BY <2>2, <2>3 DEF Taken
  <2>5. key'.present /\ key'.count = 1
    BY <1>1
  <2>6. QED
    BY <1>2, <2>2, <2>4, <2>5, CounterTyped, <1>1 DEF KeyCounts
<1>11. RefusalsAreFair'
  <2> SUFFICES ASSUME NEW q \in Requests, request'[q].at \in {"undo", "refused"},
                      NEW w, w = request'[q].window
               PROVE  Cardinality(Counter!Accepted(w)') >= Limit
    BY DEF RefusalsAreFair
  <2>1. /\ request[q].at \in {"undo", "refused"} /\ request[q].window = w /\ w \in 1 .. window
    BY <1>2, <1>3, CounterTyped DEF CounterInvariant, CountedInItsWindow
  <2>2. QED
    BY <1>7, <2>1 DEF CounterInvariant, RefusalsAreFair
<1>12. OvershootIsCaused'
  <2> SUFFICES ASSUME NEW w \in 1 .. window + 1
               PROVE  Cardinality(Counter!Accepted(w)')
                         <= Limit + Cardinality(OvercountedBefore(w)')
    BY <1>1 DEF OvershootIsCaused
  <2>1. CASE w \in 1 .. window
    BY <1>7, <2>1 DEF CounterInvariant, OvershootIsCaused
  <2>2. CASE w = window'
    BY <1>9, <2>2, SetsAfter, CounterFacts
  <2>3. QED
    BY <1>1, <1>2, <2>1, <2>2
<1>13. QED
  BY <1>5, <1>6, <1>10, <1>11, <1>12 DEF CounterInvariant

\* A request that has not been counted goes on, and changes no count.
LEMMA UncountedStep ==
  ASSUME CounterInvariant, NEW r \in Requests,
         Counter!AddFindsKey(r) \/ Counter!IncrFindsNoKey(r)
  PROVE  CounterInvariant'
<1>1. PICK at \in {"incr", "incr_again", "readd", "error"} : Counter!Goes(r, at)
  BY DEF Counter!AddFindsKey, Counter!IncrFindsNoKey
<1>2. /\ request[r].at \in {"add", "incr", "readd", "incr_again"}
      /\ key' = key /\ window' = window
  BY DEF Counter!AddFindsKey, Counter!IncrFindsNoKey
<1>3. /\ request' \in [Requests -> Counter!Request]
      /\ request'[r].at = at /\ request'[r].window = request[r].window
      /\ \A q \in Requests \ {r} : request'[q] = request[q]
  BY <1>1, StageMoves DEF Counter!Stage
<1>4. request[r].window = 0
  BY <1>2 DEF CounterInvariant, CountedInItsWindow
<1>5. Counter!TypeOK'
  BY <1>2, <1>3 DEF CounterInvariant, Counter!TypeOK
<1>6. CountedInItsWindow'
  BY <1>1, <1>2, <1>3, <1>4 DEF CounterInvariant, CountedInItsWindow
<1>7. /\ \A w : /\ Counter!Accepted(w)' = Counter!Accepted(w)
                /\ OvercountedBefore(w)' = OvercountedBefore(w)
      /\ Counter!Accepted(window)' = Counter!Accepted(window)
      /\ Undoing' = Undoing /\ GaveBack' = GaveBack
  BY <1>1, <1>2, <1>3, <1>4 DEF Counter!Accepted, OvercountedBefore, Undoing, GaveBack
<1>8. KeyCounts'
  BY <1>2, <1>7 DEF CounterInvariant, KeyCounts, Taken
<1>9. RefusalsAreFair' /\ OvershootIsCaused'
  BY <1>1, <1>2, <1>3, <1>7, PastKept
<1>10. QED
  BY <1>5, <1>6, <1>8, <1>9 DEF CounterInvariant

\* A request is refused by a key that counts Limit: the accepted requests, and
\* those that will give their place back, the first of which saw Limit accepted.
LEMMA FullKey ==
  ASSUME CounterInvariant, key.present, key.count >= Limit
  PROVE  Cardinality(Counter!Accepted(window)) >= Limit
<1>1. CASE Undoing = {}
  <2>1. Cardinality(Undoing) = 0
    BY <1>1, FS_EmptySet
  <2>2. key.count <= Cardinality(Counter!Accepted(window))
    BY <2>1, RequestSets DEF CounterInvariant, KeyCounts, Taken
  <2>3. QED
    BY <2>2, CounterFacts, CounterTyped, RequestSets
<1>2. CASE Undoing # {}
  BY <1>2 DEF CounterInvariant, RefusalsAreFair, Undoing
<1>3. QED
  BY <1>1, <1>2

LEMMA AcceptStep ==
  ASSUME CounterInvariant, NEW r \in Requests, Counter!Incr(r), key.count + 1 <= Limit
  PROVE  CounterInvariant'
<1>1. /\ request[r].at \in {"incr", "incr_again"} /\ key.present /\ window' = window
      /\ key' = [key EXCEPT !.count = key.count + 1]
      /\ window \in 0 .. MaxWindows /\ window \in Nat /\ key.count \in Int
  BY CounterTyped DEF Counter!Incr
<1>2. Counter!Counted(r, "accepted", window)
  BY <1>1, CounterFacts DEF Counter!Incr
<1>3. /\ request' \in [Requests -> Counter!Request]
      /\ request'[r].at = "accepted" /\ request'[r].window = window
      /\ \A q \in Requests \ {r} : request'[q] = request[q]
  BY <1>1, <1>2, CountedMoves DEF Counter!Stage
<1>4. /\ key' \in [present : BOOLEAN, count : Int]
      /\ key'.present /\ key'.count = key.count + 1
  BY <1>1 DEF CounterInvariant, Counter!TypeOK
<1>5. request[r].window = 0 /\ window > 0
  BY <1>1 DEF CounterInvariant, CountedInItsWindow, KeyCounts
<1>6. Counter!TypeOK'
  BY <1>1, <1>3, <1>4 DEF Counter!TypeOK
<1>7. CountedInItsWindow'
  BY <1>1, <1>3, <1>5 DEF CounterInvariant, CountedInItsWindow
<1>8. /\ Counter!Accepted(window)' = Counter!Accepted(window) \cup {r}
      /\ r \notin Counter!Accepted(window)
      /\ \A w : w # window => Counter!Accepted(w)' = Counter!Accepted(w)
      /\ \A w : w = window => Counter!Accepted(w)' = Counter!Accepted(window)'
      /\ \A w : OvercountedBefore(w)' = OvercountedBefore(w)
      /\ Undoing' = Undoing /\ GaveBack' = GaveBack
  BY <1>1, <1>3, <1>5 DEF Counter!Accepted, OvercountedBefore, Undoing, GaveBack
<1>9. Cardinality(Counter!Accepted(window)') = Cardinality(Counter!Accepted(window)) + 1
  <2>1. IsFiniteSet(Counter!Accepted(window))
    BY RequestSets
  <2>2. /\ Counter!Accepted(window)' = Counter!Accepted(window) \cup {r}
        /\ r \notin Counter!Accepted(window)
    BY <1>8
  <2>3. QED
    BY <2>1, <2>2, OneAdded
<1>10. Taken' = Taken + 1 /\ Taken \in Nat
  BY <1>8, <1>9, RequestSets DEF Taken
<1>11. KeyCounts'
  <2>1. key.count <= Taken /\ Taken <= key.count + Cardinality(GaveBack)
    BY <1>1 DEF CounterInvariant, KeyCounts
  <2>2. QED
    BY <1>1, <1>4, <1>5, <1>8, <1>10, <2>1, RequestSets DEF KeyCounts
<1>12. RefusalsAreFair'
  <2> SUFFICES ASSUME NEW q \in Requests, request'[q].at \in {"undo", "refused"},
                      NEW w, w = request'[q].window
               PROVE  Cardinality(Counter!Accepted(w)') >= Limit
    BY DEF RefusalsAreFair
  <2>1. Cardinality(Counter!Accepted(w)) >= Limit
    BY <1>3 DEF CounterInvariant, RefusalsAreFair
  <2>2. QED
    BY <1>8, <1>9, <2>1, RequestSets, CounterFacts
<1>13. OvershootIsCaused'
  <2> SUFFICES ASSUME NEW w \in 1 .. window
               PROVE  Cardinality(Counter!Accepted(w)')
                         <= Limit + Cardinality(OvercountedBefore(w))
    BY <1>1, <1>8 DEF OvershootIsCaused
  <2>1. CASE w # window
    BY <1>8, <2>1 DEF CounterInvariant, OvershootIsCaused
  <2>2. CASE w = window
    <3>1. Taken <= key.count + Cardinality(GaveBack)
      BY <1>1 DEF CounterInvariant, KeyCounts
    <3>2. GaveBack \subseteq OvercountedBefore(w)
      BY <2>2 DEF GaveBack, OvercountedBefore
    <3>3. Cardinality(GaveBack) <= Cardinality(OvercountedBefore(w))
      BY <3>2, RequestSets, Smaller
    <3>4. Cardinality(Counter!Accepted(window)) <= Taken
      BY RequestSets DEF Taken
    <3>5. Cardinality(Counter!Accepted(w)') = Cardinality(Counter!Accepted(window)) + 1
      BY <1>8, <1>9, <2>2
    <3>6. QED
      BY <1>1, <1>10, <3>1, <3>3, <3>4, <3>5, RequestSets, CounterFacts
  <2>3. QED
    BY <2>1, <2>2
<1>14. QED
  BY <1>6, <1>7, <1>11, <1>12, <1>13 DEF CounterInvariant

LEMMA RefuseStep ==
  ASSUME CounterInvariant, NEW r \in Requests, Counter!Incr(r), key.count + 1 > Limit
  PROVE  CounterInvariant'
<1>1. /\ request[r].at \in {"incr", "incr_again"} /\ key.present /\ window' = window
      /\ key' = [key EXCEPT !.count = key.count + 1]
      /\ window \in 0 .. MaxWindows /\ window \in Nat /\ key.count \in Int
  BY CounterTyped DEF Counter!Incr
<1>2. Counter!Counted(r, "undo", window)
  BY <1>1, CounterFacts DEF Counter!Incr
<1>3. /\ request' \in [Requests -> Counter!Request]
      /\ request'[r].at = "undo" /\ request'[r].window = window
      /\ \A q \in Requests \ {r} : request'[q] = request[q]
  BY <1>1, <1>2, CountedMoves DEF Counter!Stage
<1>4. /\ key' \in [present : BOOLEAN, count : Int]
      /\ key'.present /\ key'.count = key.count + 1
  BY <1>1 DEF CounterInvariant, Counter!TypeOK
<1>5. request[r].window = 0 /\ window > 0
  BY <1>1 DEF CounterInvariant, CountedInItsWindow, KeyCounts
<1>6. Counter!TypeOK'
  BY <1>1, <1>3, <1>4 DEF Counter!TypeOK
<1>7. CountedInItsWindow'
  BY <1>1, <1>3, <1>5 DEF CounterInvariant, CountedInItsWindow
<1>8. /\ Undoing' = Undoing \cup {r} /\ r \notin Undoing
      /\ \A w : Counter!Accepted(w)' = Counter!Accepted(w)
      /\ Counter!Accepted(window)' = Counter!Accepted(window)
      /\ \A w \in 1 .. window : OvercountedBefore(w)' = OvercountedBefore(w)
      /\ GaveBack' = GaveBack
  BY <1>1, <1>3, <1>5 DEF Counter!Accepted, OvercountedBefore, Undoing, GaveBack
<1>9. Cardinality(Undoing') = Cardinality(Undoing) + 1
  <2>1. IsFiniteSet(Undoing)
    BY RequestSets
  <2>2. Undoing' = Undoing \cup {r} /\ r \notin Undoing
    BY <1>8
  <2>3. QED
    BY <2>1, <2>2, OneAdded
<1>10. Taken' = Taken + 1 /\ Taken \in Nat
  BY <1>8, <1>9, RequestSets DEF Taken
<1>11. KeyCounts'
  <2>1. key.count <= Taken /\ Taken <= key.count + Cardinality(GaveBack)
    BY <1>1 DEF CounterInvariant, KeyCounts
  <2>2. QED
    BY <1>1, <1>4, <1>5, <1>8, <1>10, <2>1, RequestSets DEF KeyCounts
<1>12. RefusalsAreFair'
  <2> SUFFICES ASSUME NEW q \in Requests, request'[q].at \in {"undo", "refused"},
                      NEW w, w = request'[q].window
               PROVE  Cardinality(Counter!Accepted(w)) >= Limit
    BY <1>8 DEF RefusalsAreFair
  <2>1. CASE q = r
    <3>1. key.count >= Limit
      BY <1>1, CounterFacts
    <3>2. QED
      BY <1>1, <1>3, <2>1, <3>1, FullKey
  <2>2. CASE q # r
    BY <1>3, <2>2 DEF CounterInvariant, RefusalsAreFair
  <2>3. QED
    BY <2>1, <2>2
<1>13. OvershootIsCaused'
  BY <1>1, <1>8 DEF CounterInvariant, OvershootIsCaused
<1>14. QED
  BY <1>6, <1>7, <1>11, <1>12, <1>13 DEF CounterInvariant

\* A place that is given back comes off the taken ones of its own window, or is
\* one more that an earlier window took from this key.
LEMMA UndoStep ==
  ASSUME CounterInvariant, NEW r \in Requests, Counter!Undo(r) \/ Counter!UndoFindsNoKey(r)
  PROVE  CounterInvariant'
<1>1. PICK at \in {"refused", "error"} : /\ Counter!Goes(r, at)
                                         /\ at = "refused" => Counter!Undo(r)
                                         /\ at = "error" => Counter!UndoFindsNoKey(r)
  BY DEF Counter!Undo, Counter!UndoFindsNoKey
<1>2. /\ request[r].at = "undo" /\ window' = window
      /\ window \in 0 .. MaxWindows /\ window \in Nat /\ key.count \in Int
      /\ request[r].window \in 1 .. window
  BY CounterTyped DEF Counter!Undo, Counter!UndoFindsNoKey, CounterInvariant, CountedInItsWindow
<1>3. /\ request' \in [Requests -> Counter!Request]
      /\ request'[r].at = at /\ request'[r].window = request[r].window
      /\ \A q \in Requests \ {r} : request'[q] = request[q]
  BY <1>1, StageMoves DEF Counter!Stage
<1>4. /\ key' \in [present : BOOLEAN, count : Int]
      /\ at = "refused" => key'.present /\ key'.count = key.count - 1 /\ key.present
      /\ at = "error" => ~key'.present
  BY <1>1 DEF CounterInvariant, Counter!TypeOK, Counter!Undo, Counter!UndoFindsNoKey
<1>5. Counter!TypeOK'
  BY <1>2, <1>3, <1>4 DEF Counter!TypeOK
<1>6. CountedInItsWindow'
  BY <1>2, <1>3 DEF CounterInvariant, CountedInItsWindow
<1>7. /\ \A w : /\ Counter!Accepted(w)' = Counter!Accepted(w)
                /\ OvercountedBefore(w)' = OvercountedBefore(w)
      /\ Counter!Accepted(window)' = Counter!Accepted(window)
  BY <1>1, <1>2, <1>3 DEF Counter!Accepted, OvercountedBefore
<1>8. RefusalsAreFair' /\ OvershootIsCaused'
  BY <1>2, <1>3, <1>7, PastKept
<1>9. KeyCounts'
  <2> SUFFICES ASSUME at = "refused" PROVE KeyCounts'
    BY <1>1, <1>4 DEF KeyCounts
  <2>1. key.count <= Taken /\ Taken <= key.count + Cardinality(GaveBack) /\ window > 0
    BY <1>4 DEF CounterInvariant, KeyCounts
  <2>2. CASE request[r].window = window
    <3>1. /\ Undoing' = Undoing \ {r} /\ r \in Undoing
          /\ GaveBack' = GaveBack
      BY <1>2, <1>3, <2>2 DEF Undoing, GaveBack
    <3>2. Cardinality(Undoing') = Cardinality(Undoing) - 1
      <4>1. IsFiniteSet(Undoing)
        BY RequestSets
      <4>2. QED
        BY <3>1, <4>1, FS_RemoveElement
    <3>3. Taken' = Taken - 1
      BY <1>7, <3>2, RequestSets DEF Taken
    <3>4. /\ Taken \in Nat /\ Cardinality(GaveBack) \in Nat
          /\ Cardinality(GaveBack') = Cardinality(GaveBack)
      BY <3>1, RequestSets DEF Taken
    <3>5. /\ window' > 0 /\ key'.count <= Taken'
          /\ Taken' <= key'.count + Cardinality(GaveBack')
      BY <1>2, <1>4, <2>1, <3>3, <3>4
    <3>6. QED
      BY <3>5 DEF KeyCounts
  <2>3. CASE request[r].window # window
    <3>1. /\ Undoing' = Undoing
          /\ GaveBack' = GaveBack \cup {r} /\ r \notin GaveBack
      BY <1>2, <1>3, <2>3 DEF Undoing, GaveBack
    <3>2. Cardinality(GaveBack') = Cardinality(GaveBack) + 1
      <4>1. IsFiniteSet(GaveBack)
        BY RequestSets
      <4>2. QED
        BY <3>1, <4>1, OneAdded
    <3>3. Taken' = Taken /\ Taken \in Nat
      BY <1>7, <3>1, RequestSets DEF Taken
    <3>4. QED
      BY <1>2, <1>4, <2>1, <3>2, <3>3, RequestSets DEF KeyCounts
  <2>4. QED
    BY <2>2, <2>3
<1>10. QED
  BY <1>5, <1>6, <1>8, <1>9 DEF CounterInvariant

LEMMA ExpireStep ==
  ASSUME CounterInvariant, Counter!Expire \/ UNCHANGED throttleVars
  PROVE  CounterInvariant'
<1>1. /\ window' = window /\ request' = request
      /\ \/ key' = [present |-> FALSE, count |-> 0]
         \/ key' = key
  BY DEF Counter!Expire, throttleVars
<1>2. /\ \A w : /\ Counter!Accepted(w)' = Counter!Accepted(w)
                /\ OvercountedBefore(w)' = OvercountedBefore(w)
      /\ Undoing' = Undoing /\ GaveBack' = GaveBack
      /\ Counter!Accepted(window)' = Counter!Accepted(window)
  BY <1>1 DEF Counter!Accepted, OvercountedBefore, Undoing, GaveBack
<1>3. Counter!TypeOK' /\ CountedInItsWindow'
  <2>1. key' \in [present : BOOLEAN, count : Int]
    <3>1. [present |-> FALSE, count |-> 0] \in [present : BOOLEAN, count : Int]
      OBVIOUS
    <3>2. key \in [present : BOOLEAN, count : Int]
      BY DEF CounterInvariant, Counter!TypeOK
    <3>3. QED
      BY <1>1, <3>1, <3>2, Zenon
  <2>2. CountedInItsWindow'
    BY <1>1 DEF CounterInvariant, CountedInItsWindow
  <2>3. QED
    BY <1>1, <2>1, <2>2 DEF CounterInvariant, Counter!TypeOK
<1>4. RefusalsAreFair' /\ OvershootIsCaused'
  BY <1>1, <1>2, PastKept
<1>5. Taken' = Taken
  BY <1>2 DEF Taken
<1>6. KeyCounts'
  BY <1>1, <1>2, <1>5 DEF CounterInvariant, KeyCounts
<1>7. QED
  BY <1>3, <1>4, <1>6 DEF CounterInvariant

LEMMA CounterInit == Counter!Init => CounterInvariant
<1> SUFFICES ASSUME Counter!Init PROVE CounterInvariant
  OBVIOUS
<1>1. \A r \in Requests : request[r].at = "add" /\ request[r].window = 0
  BY DEF Counter!Init
<1>2. Counter!TypeOK
  BY CounterFacts DEF Counter!Init, Counter!TypeOK, Counter!Request, Counter!Stage
<1>3. CountedInItsWindow /\ RefusalsAreFair
  BY <1>1 DEF Counter!Init, CountedInItsWindow, RefusalsAreFair
<1>4. KeyCounts /\ OvershootIsCaused
  BY DEF Counter!Init, KeyCounts, OvershootIsCaused
<1>5. QED
  BY <1>2, <1>3, <1>4 DEF CounterInvariant

LEMMA CounterStep == CounterInvariant /\ [Counter!Next]_throttleVars => CounterInvariant'
<1> SUFFICES ASSUME CounterInvariant, [Counter!Next]_throttleVars PROVE CounterInvariant'
  OBVIOUS
<1>1. ASSUME NEW r \in Requests, Counter!Incr(r) PROVE CounterInvariant'
  <2>1. key.count + 1 <= Limit \/ key.count + 1 > Limit
    BY CounterTyped, CounterFacts
  <2>2. QED
    BY <1>1, <2>1, AcceptStep, RefuseStep
<1>2. ASSUME NEW r \in Requests,
             \/ Counter!Add(r) \/ Counter!AddFindsKey(r) \/ Counter!IncrFindsNoKey(r)
             \/ Counter!Undo(r) \/ Counter!UndoFindsNoKey(r)
      PROVE  CounterInvariant'
  BY <1>2, EstablishStep, UncountedStep, UndoStep
<1>3. CASE Counter!Expire \/ UNCHANGED throttleVars
  BY <1>3, ExpireStep
<1>4. QED
  BY <1>1, <1>2, <1>3 DEF Counter!Next

\* The key counts its own window, but for the places that earlier ones gave back.
THEOREM CounterInvariantHolds == Counter!Spec => []CounterInvariant
  BY CounterInit, CounterStep, PTL DEF Counter!Spec, Counter!vars, throttleVars

\* For any number of requests and any limit: nobody is refused in a window with
\* room, and a window passes the limit only by requests refused before it.
THEOREM CountStaysFair == Counter!Spec => [](Counter!RefusedOnlyWhenFull /\ Counter!OvershootHasACause)
<1>1. CounterInvariant => Counter!RefusedOnlyWhenFull
  BY RequestsCounted DEF CounterInvariant, RefusalsAreFair, Counter!RefusedOnlyWhenFull
<1>2. CounterInvariant => Counter!OvershootHasACause
  <2> SUFFICES ASSUME CounterInvariant, NEW w \in 1 .. window
               PROVE  Cardinality(Counter!Accepted(w))
                  <= Limit + Cardinality(UNION {Counter!Overcounted(v) : v \in 1 .. w - 1})
    BY RequestsCounted DEF Counter!OvershootHasACause
  <2>1. OvercountedBefore(w) = UNION {Counter!Overcounted(v) : v \in 1 .. w - 1}
    BY DEF OvercountedBefore, Counter!Overcounted
  <2>2. QED
    BY <2>1 DEF CounterInvariant, OvershootIsCaused
<1>3. QED
  BY <1>1, <1>2, CounterInvariantHolds, PTL

(***************************************************************************)
(* The parts together.                                                     *)
(***************************************************************************)
\* What one part does, the others do not see.
THEOREM PartsAreApart == PartsSpec => Spec /\ OneTime!Spec /\ Counter!Spec
<1>1. PartsInit => Init /\ OneTime!Init /\ Counter!Init
  BY DEF PartsInit
<1>2. [PartsNext]_<<part, vars, otpVars, throttleVars>>
         => [Next]_vars /\ [OneTime!Next]_otpVars /\ [Counter!Next]_throttleVars
  BY DEF PartsNext
<1>3. QED
  BY <1>1, <1>2, PTL DEF PartsSpec, Spec, OneTime!Spec, OneTime!vars, otpVars,
                         Counter!Spec, Counter!vars, throttleVars

\* Every session, token, code, counter and request in flight keeps its type.
THEOREM PartsKeepTypes == PartsSpec => []PartsTyped
<1>1. CodesInvariant => OneTime!TypeOK
  BY DEF CodesInvariant
<1>2. CounterInvariant => Counter!TypeOK
  BY DEF CounterInvariant
<1>3. QED
  BY <1>1, <1>2, PartsAreApart, TypeCorrect, CodesInvariantHolds, CounterInvariantHolds, PTL
     DEF PartsTyped

\* One client holds one token, in the composition too.
THEOREM PartsKeepOneToken == PartsSpec => []OneValidToken
  BY PartsAreApart, OneTokenIsValid, PTL

\* What a logout ends is ended, in the composition too.
THEOREM PartsKeepLogouts == PartsSpec => LogoutIsFinal
  BY PartsAreApart, LogoutsAreFinal, PTL

\* A code is accepted once and before it expires, for any number of workers,
\* codes and ticks of the clock.
THEOREM PartsAcceptOnceInTime == PartsSpec => AcceptedOnceInTime
  BY PartsAreApart, CodesAreAcceptedOnceInTime, PTL DEF AcceptedOnceInTime

\* Concurrent requests pass the volume limit by fewer codes than there are
\* workers, and leave no more live codes than workers.
THEOREM PartsKeepCodesFew == PartsSpec => []CodesAreFew
  BY PartsAreApart, CodesStayFew, PTL DEF CodesAreFew

\* The throttle refuses nobody in a window with room, and passes its limit only
\* by requests refused late.
THEOREM PartsCountFairly == PartsSpec => []CountIsFair
  BY PartsAreApart, CountStaysFair, PTL DEF CountIsFair
=============================================================================
