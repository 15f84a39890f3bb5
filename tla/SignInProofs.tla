---------------------------- MODULE SignInProofs ----------------------------
(***************************************************************************)
(* Proofs about SignIn, for any users, limits and times: who may have a    *)
(* session without a second factor, how many sessions the codes give, and  *)
(* how many codes are compared.                                            *)
(***************************************************************************)
EXTENDS SignIn, SumTheorems

(* The running handler that makes a verified session does so for a user with  *)
(* a factor.                                                                 *)
RowsOK == TypeOK /\ (cpu.at = "session" => active[cpu.user])

(* The users whom a crash left sessions made with the password alone, those   *)
(* that the running handler is about to retire not counted.                  *)
Left(s) == OnPassword(s) /\ ~(cpu.at = "retire" /\ cpu.user = sessions[s].user)

Exposed == {u \in User: \E s \in Session: Left(s) /\ sessions[s].user = u}

FactorInv == IsFiniteSet(Exposed) /\ Cardinality(Exposed) <= crashes

(* An attempt is one more of this tick, and what the limiter forgets is gone.  *)
LEMMA AttemptCounts ==
  ASSUME now \in Time, hits \in [Challenge -> [Time -> Nat]], NEW c \in Challenge,
         NEW code, NEW loopback, Attempt(c, code, loopback)
  PROVE  /\ Recent(c) \in [Time -> Nat]
         /\ hits' \in [Challenge -> [Time -> Nat]]
<1>1. Recent(c) \in [Time -> Nat]
  BY DEF Recent
<1>2. [Recent(c) EXCEPT ![now] = Recent(c)[now] + 1] \in [Time -> Nat]
  BY <1>1
<1>3. hits' = hits \/ hits' = [hits EXCEPT ![c] = [Recent(c) EXCEPT ![now] = Recent(c)[now] + 1]]
  BY DEF Attempt
<1> QED
  BY <1>1, <1>2, <1>3

LEMMA RowsInit == Init => RowsOK
  BY SignInAssumption DEF Init, RowsOK, TypeOK, Time, Idle

(* Every step keeps the rows.                                                *)
LEMMA RowsStep == RowsOK /\ [Next]_vars => RowsOK'
<1> SUFFICES ASSUME RowsOK, [Next]_vars PROVE RowsOK'
  OBVIOUS
<1> USE DEF RowsOK, TypeOK, Idle, SessionRow
<1>1. ASSUME NEW u \in User, NEW s \in Session, Login(u, s) PROVE RowsOK'
  <2>1. /\ sessions' = [sessions EXCEPT
                          ![s] = [user |-> u, verified |-> FALSE, status |-> "active"]]
        /\ UNCHANGED <<now, active, pending, challenges, hits, tried, cpu, crashes>>
    BY <1>1 DEF Login, CreateSession
  <2> QED
    BY <2>1
<1>2. ASSUME NEW u \in User, NEW c \in Challenge, LoginChallenged(u, c)
      PROVE RowsOK'
  <2> DEFINE row == [user |-> u, status |-> "pending", until |-> now + ChallengeTtl]
  <2>1. row \in ChallengeRow /\ row.user = u
    BY SignInAssumption DEF ChallengeRow, Time
  <2>2. /\ active[u] /\ challenges' = [challenges EXCEPT ![c] = row]
        /\ UNCHANGED <<now, active, pending, sessions, hits, tried, cpu, crashes>>
    BY <1>2 DEF LoginChallenged, NeedsChallenge
  <2> HIDE DEF row
  <2> QED
    BY <2>1, <2>2
<1>3. ASSUME NEW c \in Challenge, NEW code \in {"malformed", "wrong", "right"},
             NEW loopback \in BOOLEAN, Attempt(c, code, loopback)
      PROVE RowsOK'
  <2> DEFINE u == challenges[c].user
             row == [challenges[c] EXCEPT !.status = "verified"]
  <2>1. challenges[c] \in ChallengeRow /\ u \in User /\ active[u]
    BY <1>3 DEF Attempt, ChallengeRow
  <2>2. row \in ChallengeRow /\ row.user = u
    BY <2>1 DEF ChallengeRow
  <2>3. u \in Privileged
    BY <2>1
  <2>4. \/ UNCHANGED <<challenges, cpu>>
        \/ challenges' = [challenges EXCEPT ![c] = row] /\ cpu' = [at |-> "session", user |-> u]
    BY <1>3 DEF Attempt, Close
  <2>5. UNCHANGED <<now, active, pending, sessions, crashes>>
        /\ (tried' = tried \/ tried' = [tried EXCEPT ![c] = tried[c] + 1])
    BY <1>3 DEF Attempt
  <2>6. tried' \in [Challenge -> Nat] /\ hits' \in [Challenge -> [Time -> Nat]]
    BY <1>3, <2>5, AttemptCounts
  <2> HIDE DEF u, row
  <2>7. CASE UNCHANGED <<challenges, cpu>>
    BY <2>5, <2>6, <2>7
  <2>8. CASE challenges' = [challenges EXCEPT ![c] = row] /\ cpu' = [at |-> "session", user |-> u]
    BY <2>1, <2>2, <2>3, <2>5, <2>6, <2>8
  <2> QED
    BY <2>4, <2>7, <2>8
<1>4. ASSUME NEW s \in Session, VerifiedSession(s) PROVE RowsOK'
  <2>1. /\ cpu.at = "session" /\ cpu' = Idle
        /\ sessions' = [sessions EXCEPT
                          ![s] = [user |-> cpu.user, verified |-> TRUE, status |-> "active"]]
        /\ UNCHANGED <<now, active, pending, challenges, hits, tried, crashes>>
    BY <1>4 DEF VerifiedSession, CreateSession
  <2>2. cpu.user \in User /\ active[cpu.user]
    BY <2>1, SignInAssumption
  <2> QED
    BY <2>1, <2>2
<1>5. ASSUME NEW s \in Session, NEW status \in {"deleted", "revoked"},
             sessions[s] \in SessionRow, sessions[s] # None,
             sessions' = [sessions EXCEPT ![s] = [sessions[s] EXCEPT !.status = status]],
             UNCHANGED <<now, active, pending, challenges, hits, tried, cpu, crashes>>
      PROVE RowsOK'
  <2> DEFINE row == [sessions[s] EXCEPT !.status = status]
  <2>1. /\ row \in SessionRow
        /\ row.user = sessions[s].user /\ row.verified = sessions[s].verified
    BY <1>5
  <2>2. sessions' = [sessions EXCEPT ![s] = row]
    BY <1>5
  <2> HIDE DEF row
  <2> QED
    BY <1>5, <2>1, <2>2
<1>6. ASSUME NEW s \in Session, NEW admin \in Session,
             Logout(s) \/ Expire(s) \/ Revoke(admin, s)
      PROVE RowsOK'
  <2>1. sessions[s] \in SessionRow /\ sessions[s] # None
        /\ UNCHANGED <<now, active, pending, challenges, hits, tried, cpu, crashes>>
    BY <1>6 DEF Logout, Expire, Revoke, Live
  <2>2. \E status \in {"deleted", "revoked"}:
          sessions' = [sessions EXCEPT ![s] = [sessions[s] EXCEPT !.status = status]]
    BY <1>6 DEF Logout, Expire, Revoke
  <2> QED
    BY <1>5, <2>1, <2>2
<1>7. ASSUME NEW s \in Session, Enroll(s) PROVE RowsOK'
  <2>1. sessions[s] \in SessionRow
    BY <1>7 DEF Enroll, Authenticated, Live
  <2>2. sessions[s].user \in Privileged /\ pending[sessions[s].user] < MaxPending
        /\ pending' = [pending EXCEPT ![sessions[s].user] = pending[sessions[s].user] + 1]
        /\ UNCHANGED <<now, active, challenges, sessions, hits, tried, cpu, crashes>>
    BY <1>7 DEF Enroll
  <2> QED
    BY <2>1, <2>2, SignInAssumption
<1>8. ASSUME NEW s \in Session, VerifyEnrollment(s) PROVE RowsOK'
  <2>1. sessions[s] \in SessionRow
    BY <1>8 DEF VerifyEnrollment, Authenticated, Live
  <2>2. /\ sessions[s].user \in Privileged /\ pending[sessions[s].user] > 0
        /\ pending' = [pending EXCEPT ![sessions[s].user] = pending[sessions[s].user] - 1]
        /\ active' = [active EXCEPT ![sessions[s].user] = TRUE]
        /\ cpu' = [at |-> "retire", user |-> sessions[s].user]
        /\ UNCHANGED <<now, challenges, sessions, hits, tried, crashes>>
    BY <1>8 DEF VerifyEnrollment
  <2>3. \A u \in User: active[u] => active'[u]
    BY <2>2
  <2>4. \A c \in Challenge: challenges[c] # None => challenges[c].user \in User
    BY DEF ChallengeRow
  <2>5. \A o \in Session: sessions[o] # None => sessions[o].user \in User
    OBVIOUS
  <2> QED
    BY <2>1, <2>2, <2>3, <2>4, <2>5, SignInAssumption
<1>9. CASE RetirePasswordOnly
  <2>1. \A s \in Session: sessions'[s] = sessions[s]
          \/ (~sessions[s].verified /\ sessions[s] \in SessionRow
              /\ sessions'[s] = [sessions[s] EXCEPT !.status = "revoked"])
    BY <1>9 DEF RetirePasswordOnly, PasswordOnly, Live
  <2>2. \A s \in Session: sessions'[s] = sessions[s]
          \/ (~sessions'[s].verified /\ sessions'[s] \in SessionRow)
    <3>1. ASSUME NEW s \in Session, sessions[s] \in SessionRow, ~sessions[s].verified,
                 sessions'[s] = [sessions[s] EXCEPT !.status = "revoked"]
          PROVE  ~sessions'[s].verified /\ sessions'[s] \in SessionRow
      BY <3>1
    <3> QED
      BY <2>1, <3>1
  <2>3. sessions' = [s \in Session |-> sessions'[s]]
    BY <1>9 DEF RetirePasswordOnly
  <2>4. sessions' \in [Session -> SessionRow \cup {None}]
    BY <2>2, <2>3
  <2> QED
    BY <1>9, <2>2, <2>4 DEF RetirePasswordOnly
<1>10. CASE Tick
  BY <1>10, SignInAssumption DEF Tick, Time
<1>11. CASE Crash
  BY <1>11, SignInAssumption DEF Crash
<1>12. CASE UNCHANGED vars
  BY <1>12 DEF vars
<1> QED
  BY <1>1, <1>2, <1>3, <1>4, <1>6, <1>7, <1>8, <1>9, <1>10, <1>11, <1>12 DEF Next

(* Rows keep their shape; factors, challenges and verified sessions belong to *)
(* the users who may have them.                                              *)
THEOREM TypeCorrect == Spec => []TypeOK
<1>1. RowsOK => TypeOK
  BY DEF RowsOK
<1> QED
  BY <1>1, RowsInit, RowsStep, PTL DEF Spec

LEMMA FactorInit == Init => FactorInv
<1> SUFFICES ASSUME Init PROVE FactorInv
  OBVIOUS
<1>1. Exposed = {} /\ crashes = 0
  BY DEF Init, Exposed, Left, OnPassword, Live
<1> QED
  BY <1>1, FS_EmptySet DEF FactorInv

(* Who has a factor is changed by the handler alone that retires the rest,    *)
(* and who has one does not get a session for the password: no step but a    *)
(* crash leaves a session behind.                                            *)
LEMMA NobodyNewIsLeft ==
  ASSUME RowsOK, [Next]_vars, ~Crash, NEW t \in Session, Left(t)'
  PROVE  Left(t) /\ sessions'[t].user = sessions[t].user
<1> DEFINE Goal == Left(t) /\ sessions'[t].user = sessions[t].user
<1> USE DEF Idle, Left, OnPassword, Live
<1> DEFINE Same == UNCHANGED <<active, cpu>>
<1>0. sessions[t] \in SessionRow \cup {None}
  BY DEF RowsOK, TypeOK
<1>1. ASSUME NEW u \in User, NEW s \in Session, Login(u, s) PROVE Goal
  <2>1. ~active[u] /\ Same
        /\ sessions' = [sessions EXCEPT
                          ![s] = [user |-> u, verified |-> FALSE, status |-> "active"]]
    BY <1>1 DEF Login, CreateSession, NeedsChallenge
  <2> QED
    BY <1>0, <2>1 DEF RowsOK, TypeOK
<1>2. ASSUME NEW u \in User, NEW c \in Challenge, LoginChallenged(u, c)
      PROVE Goal
  BY <1>0, <1>2 DEF LoginChallenged
<1>3. ASSUME NEW c \in Challenge, NEW code \in {"malformed", "wrong", "right"},
             NEW loopback \in BOOLEAN, Attempt(c, code, loopback)
      PROVE Goal
  BY <1>0, <1>3 DEF Attempt
<1>4. ASSUME NEW s \in Session, VerifiedSession(s) PROVE Goal
  <2>1. cpu.at = "session" /\ UNCHANGED active
        /\ sessions' = [sessions EXCEPT
                          ![s] = [user |-> cpu.user, verified |-> TRUE, status |-> "active"]]
    BY <1>4 DEF VerifiedSession, CreateSession
  <2> QED
    BY <1>0, <2>1 DEF RowsOK, TypeOK
<1>5. ASSUME NEW s \in Session, NEW admin \in Session,
             Logout(s) \/ Expire(s) \/ Revoke(admin, s)
      PROVE Goal
  <2>1. Same /\ \A o \in Session: o # s => sessions'[o] = sessions[o]
    BY <1>5 DEF Logout, Expire, Revoke, RowsOK, TypeOK
  <2>2. sessions[s] \in SessionRow
    BY <1>5 DEF Logout, Expire, Revoke, RowsOK, TypeOK
  <2>3. sessions'[s].status # "active"
    BY <1>5, <2>2 DEF Logout, Expire, Revoke, RowsOK, TypeOK, SessionRow
  <2> QED
    BY <1>0, <2>1, <2>3
<1>6. ASSUME NEW s \in Session, Enroll(s) PROVE Goal
  BY <1>0, <1>6 DEF Enroll
<1>7. ASSUME NEW s \in Session, VerifyEnrollment(s) PROVE Goal
  <2>1. /\ cpu = Idle /\ sessions' = sessions
        /\ active' = [active EXCEPT ![sessions[s].user] = TRUE]
        /\ cpu' = [at |-> "retire", user |-> sessions[s].user]
    BY <1>7 DEF VerifyEnrollment
  <2> QED
    BY <1>0, <2>1 DEF RowsOK, TypeOK, SessionRow
<1>8. ASSUME RetirePasswordOnly PROVE Goal
  <2>1. /\ cpu.at = "retire" /\ UNCHANGED active
        /\ sessions'[t] = IF PasswordOnly(t) THEN [sessions[t] EXCEPT !.status = "revoked"]
                                             ELSE sessions[t]
    BY <1>8 DEF RetirePasswordOnly
  <2>2. CASE PasswordOnly(t)
    <3>1. sessions'[t].status # "active"
      BY <1>0, <2>1, <2>2 DEF PasswordOnly, SessionRow
    <3> QED
      BY <3>1
  <2>3. CASE ~PasswordOnly(t)
    BY <1>0, <2>1, <2>3 DEF PasswordOnly
  <2> QED
    BY <2>2, <2>3
<1>9. ASSUME Tick PROVE Goal
  BY <1>0, <1>9 DEF Tick
<1>10. ASSUME UNCHANGED vars PROVE Goal
  BY <1>0, <1>10 DEF vars
<1> QED
  BY <1>1, <1>2, <1>3, <1>4, <1>5, <1>6, <1>7, <1>8, <1>9, <1>10 DEF Next

LEMMA FactorStep == RowsOK /\ FactorInv /\ [Next]_vars => FactorInv'
<1> SUFFICES ASSUME RowsOK, FactorInv, [Next]_vars PROVE FactorInv'
  OBVIOUS
<1>0. crashes \in Nat /\ Cardinality(Exposed) \in Nat
  BY SignInAssumption, FS_CardinalityType DEF RowsOK, TypeOK, FactorInv
<1>1. CASE ~Crash
  <2>1. Exposed' \subseteq Exposed
    BY <1>1, NobodyNewIsLeft DEF Exposed
  <2>2. crashes' = crashes
    BY <1>1 DEF Next, vars, Login, LoginChallenged, Attempt, VerifiedSession, Logout, Expire,
       Enroll, VerifyEnrollment, Revoke, RetirePasswordOnly, Tick
  <2>3. IsFiniteSet(Exposed') /\ Cardinality(Exposed') <= Cardinality(Exposed)
    BY <2>1, FS_Subset DEF FactorInv
  <2>4. Cardinality(Exposed') \in Nat
    BY <2>3, FS_CardinalityType
  <2> QED
    BY <1>0, <2>2, <2>3, <2>4 DEF FactorInv
<1>2. CASE Crash
  <2>1. PICK v: Exposed' \subseteq Exposed \cup {v}
    <3>1. PICK v: v = cpu.user
      OBVIOUS
    <3>2. UNCHANGED <<sessions, active>>
      BY <1>2 DEF Crash
    <3> QED
      BY <3>1, <3>2 DEF Exposed, Left, OnPassword, Live
  <2>2. /\ IsFiniteSet(Exposed \cup {v})
        /\ Cardinality(Exposed \cup {v}) = IF v \in Exposed THEN Cardinality(Exposed)
                                                           ELSE Cardinality(Exposed) + 1
    BY FS_AddElement DEF FactorInv
  <2>3. IsFiniteSet(Exposed') /\ Cardinality(Exposed') <= Cardinality(Exposed \cup {v})
    BY <2>1, <2>2, FS_Subset
  <2>4. Cardinality(Exposed') \in Nat /\ crashes' = crashes + 1
    BY <1>2, <2>3, FS_CardinalityType DEF Crash
  <2> QED
    BY <1>0, <2>2, <2>3, <2>4 DEF FactorInv
<1> QED
  BY <1>1, <1>2

(* PasswordOnlyIsRetired: outside of a handler the users with a factor who    *)
(* have sessions made with the password alone are at most the crashes, and   *)
(* those sessions authenticate nobody.                                       *)
THEOREM FactorRetiresPasswords == Spec => []PasswordOnlyIsRetired
<1>1. RowsOK /\ FactorInv => PasswordOnlyIsRetired
  <2> SUFFICES ASSUME RowsOK, FactorInv, cpu = Idle
               PROVE  /\ Cardinality({sessions[s].user: s \in {t \in Session: OnPassword(t)}})
                           <= crashes
                      /\ \A s \in Session: OnPassword(s) => ~Authenticated(s)
    BY DEF PasswordOnlyIsRetired
  <2>1. \A s \in Session: OnPassword(s) => sessions[s].user \in User
    BY DEF RowsOK, TypeOK, OnPassword, Live, SessionRow
  <2>2. {sessions[s].user: s \in {t \in Session: OnPassword(t)}} = Exposed
    BY <2>1 DEF Exposed, Left, Idle
  <2>3. \A s \in Session: OnPassword(s) => ~Authenticated(s)
    BY <2>1 DEF RowsOK, TypeOK, OnPassword, Authenticated
  <2> QED
    BY <2>2, <2>3 DEF FactorInv
<1> QED
  BY <1>1, RowsInit, RowsStep, FactorInit, FactorStep, PTL DEF Spec


-----------------------------------------------------------------------------
(* One session per challenge.  Between closing the challenge and inserting    *)
(* the session, the running handler owes the user a session.                 *)
VerifiedSessions(u) ==
  {s \in Session: sessions[s] # None /\ sessions[s].user = u /\ sessions[s].verified}

MetChallenges(u) ==
  {c \in Challenge: challenges[c] # None /\ challenges[c].user = u
                    /\ challenges[c].status = "verified"}

Owed(u) == IF cpu.at = "session" /\ cpu.user = u THEN 1 ELSE 0

CodeInv == \A u \in User:
  /\ IsFiniteSet(VerifiedSessions(u)) /\ IsFiniteSet(MetChallenges(u))
  /\ Cardinality(VerifiedSessions(u)) + Owed(u) <= Cardinality(MetChallenges(u))

LEMMA CodeInit == Init => CodeInv
<1> SUFFICES ASSUME Init, NEW u \in User
             PROVE  /\ IsFiniteSet(VerifiedSessions(u)) /\ IsFiniteSet(MetChallenges(u))
                    /\ Cardinality(VerifiedSessions(u)) + Owed(u) <= Cardinality(MetChallenges(u))
  BY DEF CodeInv
<1>1. VerifiedSessions(u) = {} /\ MetChallenges(u) = {} /\ Owed(u) = 0
  BY DEF Init, VerifiedSessions, MetChallenges, Owed, Idle
<1> QED
  BY <1>1, FS_EmptySet

(* The steps that neither close a challenge nor make a verified session.      *)
LEMMA CodeQuiet ==
  ASSUME CodeInv, NEW u \in User, VerifiedSessions(u)' = VerifiedSessions(u),
         MetChallenges(u)' = MetChallenges(u), cpu'.at = "session" => cpu' = cpu
  PROVE  /\ IsFiniteSet(VerifiedSessions(u)') /\ IsFiniteSet(MetChallenges(u)')
         /\ Cardinality(VerifiedSessions(u)') + Owed(u)' <= Cardinality(MetChallenges(u)')
<1>1. Owed(u)' \in {0, Owed(u)} /\ Owed(u) \in {0, 1}
  BY DEF Owed
<1>2. /\ IsFiniteSet(VerifiedSessions(u)) /\ IsFiniteSet(MetChallenges(u))
      /\ Cardinality(VerifiedSessions(u)) + Owed(u) <= Cardinality(MetChallenges(u))
  BY DEF CodeInv
<1>3. Cardinality(VerifiedSessions(u)) \in Nat /\ Cardinality(MetChallenges(u)) \in Nat
  BY <1>2, FS_CardinalityType
<1> QED
  BY <1>1, <1>2, <1>3

LEMMA CodeStep == RowsOK /\ CodeInv /\ [Next]_vars => CodeInv'
<1> SUFFICES ASSUME RowsOK, CodeInv, [Next]_vars, NEW u \in User
             PROVE  /\ IsFiniteSet(VerifiedSessions(u)') /\ IsFiniteSet(MetChallenges(u)')
                    /\ Cardinality(VerifiedSessions(u)') + Owed(u)' <= Cardinality(MetChallenges(u)')
  BY DEF CodeInv
<1> DEFINE Goal == /\ IsFiniteSet(VerifiedSessions(u)') /\ IsFiniteSet(MetChallenges(u)')
                   /\ Cardinality(VerifiedSessions(u)') + Owed(u)' <= Cardinality(MetChallenges(u)')
<1> USE DEF Idle
<1>0. /\ sessions \in [Session -> SessionRow \cup {None}]
      /\ challenges \in [Challenge -> ChallengeRow \cup {None}]
  BY DEF RowsOK, TypeOK
<1>1. ASSUME NEW v \in User, NEW s \in Session, Login(v, s) PROVE Goal
  <2>1. /\ sessions[s] = None /\ UNCHANGED <<challenges, cpu>>
        /\ sessions' = [sessions EXCEPT
                          ![s] = [user |-> v, verified |-> FALSE, status |-> "active"]]
    BY <1>1 DEF Login, CreateSession
  <2>2. VerifiedSessions(u)' = VerifiedSessions(u)
    BY <1>0, <2>1 DEF VerifiedSessions
  <2>3. MetChallenges(u)' = MetChallenges(u)
    BY <2>1 DEF MetChallenges
  <2> QED
    BY <2>1, <2>2, <2>3, CodeQuiet
<1>2. ASSUME NEW v \in User, NEW c \in Challenge, LoginChallenged(v, c) PROVE Goal
  <2>1. /\ challenges[c] = None /\ UNCHANGED <<sessions, cpu>>
        /\ challenges' = [challenges EXCEPT
                            ![c] = [user |-> v, status |-> "pending", until |-> now + ChallengeTtl]]
    BY <1>2 DEF LoginChallenged
  <2>2. VerifiedSessions(u)' = VerifiedSessions(u)
    BY <2>1 DEF VerifiedSessions
  <2>3. MetChallenges(u)' = MetChallenges(u)
    BY <1>0, <2>1 DEF MetChallenges
  <2> QED
    BY <2>1, <2>2, <2>3, CodeQuiet
<1>3. ASSUME NEW c \in Challenge, NEW code \in {"malformed", "wrong", "right"},
             NEW loopback \in BOOLEAN, Attempt(c, code, loopback)
      PROVE Goal
  <2>1. CASE UNCHANGED <<challenges, cpu, sessions>>
    <3>1. VerifiedSessions(u)' = VerifiedSessions(u) /\ MetChallenges(u)' = MetChallenges(u)
      BY <2>1 DEF VerifiedSessions, MetChallenges
    <3> QED
      BY <2>1, <3>1, CodeQuiet
  <2>2. CASE Open(c) /\ Close(c) /\ cpu' = [at |-> "session", user |-> challenges[c].user]
    <3>1. /\ cpu = Idle /\ challenges[c] # None /\ UNCHANGED sessions
          /\ challenges[c] \in ChallengeRow
      BY <1>0, <1>3 DEF Attempt
    <3>2. PICK v \in User: v = challenges[c].user
      BY <3>1 DEF ChallengeRow
    <3>3. /\ challenges'[c] # None /\ challenges'[c].user = v /\ challenges'[c].status = "verified"
          /\ \A d \in Challenge \ {c}: challenges'[d] = challenges[d]
      <4> DEFINE met == [challenges[c] EXCEPT !.status = "verified"]
      <4>1. met.user = v /\ met.status = "verified"
        BY <3>1, <3>2 DEF ChallengeRow
      <4>2. challenges' = [challenges EXCEPT ![c] = met]
        BY <2>2 DEF Close
      <4> HIDE DEF met
      <4>3. challenges'[c] = met /\ \A d \in Challenge \ {c}: challenges'[d] = challenges[d]
        BY <1>0, <4>2
      <4>4. met # None
        <5>1. met \in ChallengeRow
          BY <3>1 DEF met, ChallengeRow
        <5> QED
          BY <5>1, NoneIsNoRow
      <4> QED
        BY <4>1, <4>3, <4>4
    <3>4. VerifiedSessions(u)' = VerifiedSessions(u) /\ c \notin MetChallenges(u)
      BY <2>2, <3>1 DEF VerifiedSessions, MetChallenges, Open
    <3>5. CASE u = v
      <4>1. MetChallenges(u)' = MetChallenges(u) \cup {c}
        BY <3>1, <3>2, <3>3, <3>5 DEF MetChallenges
      <4>2. /\ IsFiniteSet(VerifiedSessions(u)) /\ IsFiniteSet(MetChallenges(u))
            /\ Cardinality(VerifiedSessions(u)) + Owed(u) <= Cardinality(MetChallenges(u))
        BY DEF CodeInv
      <4>3. Owed(u) = 0 /\ Owed(u)' = 1
        BY <2>2, <3>1, <3>2, <3>5 DEF Owed
      <4>4. IsFiniteSet(MetChallenges(u) \cup {c})
            /\ Cardinality(MetChallenges(u) \cup {c}) = Cardinality(MetChallenges(u)) + 1
        BY <3>4, <4>2, FS_AddElement
      <4>5. Cardinality(VerifiedSessions(u)) \in Nat /\ Cardinality(MetChallenges(u)) \in Nat
        BY <4>2, FS_CardinalityType
      <4> QED
        BY <3>4, <4>1, <4>2, <4>3, <4>4, <4>5
    <3>6. CASE u # v
      <4>1. MetChallenges(u)' = MetChallenges(u)
        BY <3>1, <3>2, <3>3, <3>6 DEF MetChallenges
      <4>2. /\ IsFiniteSet(VerifiedSessions(u)) /\ IsFiniteSet(MetChallenges(u))
            /\ Cardinality(VerifiedSessions(u)) + Owed(u) <= Cardinality(MetChallenges(u))
        BY DEF CodeInv
      <4>3. Owed(u) = 0 /\ Owed(u)' = 0
        BY <2>2, <3>1, <3>2, <3>6 DEF Owed
      <4> QED
        BY <3>4, <4>1, <4>2, <4>3
    <3> QED
      BY <3>5, <3>6
  <2> QED
    BY <1>3, <2>1, <2>2 DEF Attempt
<1>4. ASSUME NEW s \in Session, VerifiedSession(s) PROVE Goal
  <2>1. /\ cpu.at = "session" /\ cpu' = Idle /\ sessions[s] = None /\ UNCHANGED challenges
        /\ sessions' = [sessions EXCEPT
                          ![s] = [user |-> cpu.user, verified |-> TRUE, status |-> "active"]]
    BY <1>4 DEF VerifiedSession, CreateSession
  <2>2. MetChallenges(u)' = MetChallenges(u) /\ s \notin VerifiedSessions(u) /\ Owed(u)' = 0
    BY <2>1 DEF MetChallenges, VerifiedSessions, Owed
  <2>3. /\ IsFiniteSet(VerifiedSessions(u)) /\ IsFiniteSet(MetChallenges(u))
        /\ Cardinality(VerifiedSessions(u)) + Owed(u) <= Cardinality(MetChallenges(u))
    BY DEF CodeInv
  <2>4. Cardinality(VerifiedSessions(u)) \in Nat /\ Cardinality(MetChallenges(u)) \in Nat
    BY <2>3, FS_CardinalityType
  <2>5. CASE cpu.user = u
    <3>1. VerifiedSessions(u)' \subseteq VerifiedSessions(u) \cup {s}
      BY <1>0, <2>1 DEF VerifiedSessions
    <3>2. IsFiniteSet(VerifiedSessions(u) \cup {s})
          /\ Cardinality(VerifiedSessions(u) \cup {s}) = Cardinality(VerifiedSessions(u)) + 1
      BY <2>2, <2>3, FS_AddElement
    <3>3. IsFiniteSet(VerifiedSessions(u)')
          /\ Cardinality(VerifiedSessions(u)') <= Cardinality(VerifiedSessions(u)) + 1
      BY <3>1, <3>2, FS_Subset
    <3>4. Cardinality(VerifiedSessions(u)') \in Nat
      BY <3>3, FS_CardinalityType
    <3>5. Owed(u) = 1
      BY <2>1, <2>5 DEF Owed
    <3> QED
      BY <2>2, <2>3, <2>4, <3>3, <3>4, <3>5
  <2>6. CASE cpu.user # u
    <3>1. VerifiedSessions(u)' = VerifiedSessions(u)
      BY <1>0, <2>1, <2>6 DEF VerifiedSessions
    <3>2. Owed(u) = 0
      BY <2>6 DEF Owed
    <3> QED
      BY <2>2, <2>3, <3>1, <3>2
  <2> QED
    BY <2>5, <2>6
<1>5. ASSUME \A s \in Session:
               \/ sessions'[s] = sessions[s]
               \/ /\ sessions[s] \in SessionRow
                  /\ \E status \in {"revoked", "deleted"}:
                       sessions'[s] = [sessions[s] EXCEPT !.status = status],
             UNCHANGED challenges, cpu'.at = "session" => cpu' = cpu
      PROVE Goal
  <2>1. ASSUME NEW s \in Session
        PROVE  s \in VerifiedSessions(u)' <=> s \in VerifiedSessions(u)
    <3>1. CASE sessions'[s] = sessions[s]
      BY <3>1 DEF VerifiedSessions
    <3>2. ASSUME NEW status \in {"revoked", "deleted"}, sessions[s] \in SessionRow,
                 sessions'[s] = [sessions[s] EXCEPT !.status = status]
          PROVE  s \in VerifiedSessions(u)' <=> s \in VerifiedSessions(u)
      <4>1. sessions'[s].user = sessions[s].user /\ sessions'[s].verified = sessions[s].verified
        BY <3>2 DEF SessionRow
      <4>2. sessions'[s] \in SessionRow
        BY <3>2 DEF SessionRow
      <4>3. sessions[s] # None /\ sessions'[s] # None
        BY <3>2, <4>2, NoneIsNoRow
      <4> QED
        BY <4>1, <4>3 DEF VerifiedSessions
    <3> QED
      BY <1>5, <3>1, <3>2
  <2>2. VerifiedSessions(u)' = VerifiedSessions(u)
    BY <2>1 DEF VerifiedSessions
  <2>3. MetChallenges(u)' = MetChallenges(u)
    BY <1>5 DEF MetChallenges
  <2> QED
    BY <1>5, <2>2, <2>3, CodeQuiet
<1>6. ASSUME UNCHANGED <<sessions, challenges>>, cpu'.at = "session" => cpu' = cpu
      PROVE Goal
  BY <1>5, <1>6
<1>7. ASSUME NEW s \in Session, NEW admin \in Session,
             Logout(s) \/ Expire(s) \/ Revoke(admin, s)
      PROVE Goal
  <2>1. sessions[s] \in SessionRow /\ UNCHANGED <<challenges, cpu>>
    BY <1>0, <1>7 DEF Logout, Expire, Revoke, Live
  <2>2. \E status \in {"revoked", "deleted"}:
          sessions' = [sessions EXCEPT ![s] = [sessions[s] EXCEPT !.status = status]]
    BY <1>7 DEF Logout, Expire, Revoke
  <2>3. \A o \in Session:
          \/ sessions'[o] = sessions[o]
          \/ /\ sessions[o] \in SessionRow
             /\ \E status \in {"revoked", "deleted"}:
                  sessions'[o] = [sessions[o] EXCEPT !.status = status]
    BY <1>0, <2>1, <2>2
  <2> QED
    BY <1>5, <2>1, <2>3
<1>8. CASE RetirePasswordOnly
  <2>1. \A o \in Session:
          sessions'[o] = sessions[o]
          \/ (sessions[o] \in SessionRow /\ sessions'[o] = [sessions[o] EXCEPT !.status = "revoked"])
    BY <1>0, <1>8 DEF RetirePasswordOnly, PasswordOnly, Live
  <2>2. UNCHANGED challenges /\ cpu' = Idle
    BY <1>8 DEF RetirePasswordOnly
  <2> QED
    BY <1>5, <2>1, <2>2
<1>9. ASSUME NEW s \in Session, Enroll(s) \/ VerifyEnrollment(s) PROVE Goal
  BY <1>6, <1>9 DEF Enroll, VerifyEnrollment
<1>10. CASE Tick \/ Crash \/ UNCHANGED vars
  BY <1>6, <1>10 DEF Tick, Crash, vars
<1> QED
  BY <1>1, <1>2, <1>3, <1>4, <1>7, <1>8, <1>9, <1>10 DEF Next

(* OneSessionPerChallenge: a right code gives one session, whatever attempts,  *)
(* expiry and restarts interleave.                                            *)
THEOREM CodesAreSpentOnce == Spec => []OneSessionPerChallenge
<1>1. ASSUME CodeInv PROVE OneSessionPerChallenge
  <2> SUFFICES ASSUME NEW u \in User
               PROVE  Cardinality(VerifiedSessions(u)) <= Cardinality(MetChallenges(u))
    BY DEF OneSessionPerChallenge, VerifiedSessions, MetChallenges
  <2>1. /\ IsFiniteSet(VerifiedSessions(u)) /\ IsFiniteSet(MetChallenges(u))
        /\ Cardinality(VerifiedSessions(u)) + Owed(u) <= Cardinality(MetChallenges(u))
    BY <1>1 DEF CodeInv
  <2>2. Cardinality(VerifiedSessions(u)) \in Nat /\ Cardinality(MetChallenges(u)) \in Nat
    BY <2>1, FS_CardinalityType
  <2> QED
    BY <2>1, <2>2 DEF Owed
<1> QED
  BY <1>1, RowsInit, RowsStep, CodeInit, CodeStep, PTL DEF Spec


-----------------------------------------------------------------------------
(* The cap on codes.  While a challenge lives the limiter has forgotten        *)
(* nothing of it since the last restart: its window is longer than the life    *)
(* of a challenge.  So the codes compared since then are among the attempts    *)
(* remembered, which are at most Limit.                                       *)
Hits(c) == SumFunctionOnSet(hits[c], Time)

CapInv == \A c \in Challenge:
  /\ Hits(c) <= Limit
  /\ tried[c] <= Limit * crashes + Limit
  /\ challenges[c] = None => tried[c] = 0 /\ \A t \in Time: hits[c][t] = 0
  /\ challenges[c] # None =>
       /\ challenges[c].until <= now + ChallengeTtl
       /\ challenges[c].until >= now =>
            /\ \A t \in Time: hits[c][t] # 0 => t + ChallengeTtl >= challenges[c].until
            /\ tried[c] <= Limit * crashes + Hits(c)

LEMMA TimeIsFinite == IsFiniteSet(Time)
  BY SignInAssumption, FS_Interval DEF Time

LEMMA NoHits ==
  ASSUME NEW f, \A t \in Time: f[t] = 0
  PROVE  SumFunctionOnSet(f, Time) = 0
<1>1. SumFunctionOnSet(f, Time) = SumFunctionOnSet(f, {})
  BY TimeIsFinite, SumOfPart
<1> QED
  BY <1>1, SumEmpty

LEMMA HitMore ==
  ASSUME NEW f \in [Time -> Nat], NEW t \in Time
  PROVE  SumFunctionOnSet([f EXCEPT ![t] = f[t] + 1], Time) = SumFunctionOnSet(f, Time) + 1
<1> DEFINE g == [f EXCEPT ![t] = f[t] + 1]
<1>1. g \in [Time -> Nat] /\ g[t] = f[t] + 1 /\ \A x \in Time \ {t}: g[x] = f[x]
  OBVIOUS
<1> HIDE DEF g
<1>2. IsFiniteSet(Time \ {t})
  BY TimeIsFinite, FS_RemoveElement
<1>3. SumFunctionOnSet(g, Time \ {t}) = SumFunctionOnSet(f, Time \ {t})
      /\ SumFunctionOnSet(f, Time \ {t}) \in Nat
  BY <1>1, <1>2, SumSame, SumNat
<1>4. SumFunctionOnSet(g, Time) = g[t] + SumFunctionOnSet(g, Time \ {t})
  BY <1>1, TimeIsFinite, SumRemove
<1>5. SumFunctionOnSet(f, Time) = f[t] + SumFunctionOnSet(f, Time \ {t})
  BY TimeIsFinite, SumRemove
<1>6. SumFunctionOnSet(g, Time) = SumFunctionOnSet(f, Time) + 1
  BY <1>1, <1>3, <1>4, <1>5
<1> QED
  BY <1>6 DEF g

LEMMA CapInit == Init => CapInv
<1> SUFFICES ASSUME Init, NEW c \in Challenge
             PROVE  Hits(c) = 0 /\ tried[c] = 0 /\ challenges[c] = None /\ crashes = 0
                    /\ \A t \in Time: hits[c][t] = 0
  BY SignInAssumption DEF CapInv
<1>1. \A t \in Time: hits[c][t] = 0
  BY DEF Init
<1> QED
  BY <1>1, NoHits DEF Init, Hits

(* An attempt the limiter sees is one more of those it remembers.             *)
LEMMA CapAttempt ==
  ASSUME RowsOK, CapInv, NEW c \in Challenge, NEW code \in {"malformed", "wrong", "right"},
         NEW loopback \in BOOLEAN, Attempt(c, code, loopback)
  PROVE  CapInv'
<1>1. /\ now \in Time /\ hits \in [Challenge -> [Time -> Nat]] /\ tried \in [Challenge -> Nat]
      /\ crashes \in Nat /\ challenges \in [Challenge -> ChallengeRow \cup {None}]
  BY SignInAssumption DEF RowsOK, TypeOK
<1>2. now \in Int /\ Limit \in Nat /\ Window \in Nat /\ ChallengeTtl \in Nat
      /\ ChallengeTtl < Window /\ Time \subseteq Nat
  BY <1>1, SignInAssumption DEF Time
<1>3. Limit * crashes \in Nat
  BY <1>1, <1>2
<1> DEFINE K == Limit * crashes
<1>4. challenges[c] # None /\ UNCHANGED <<now, crashes>>
  BY DEF Attempt
<1>5. challenges[c] \in ChallengeRow
  BY <1>1, <1>4
<1>6. ASSUME NEW d \in Challenge
      PROVE  challenges'[d] = None <=> challenges[d] = None
  <2>1. challenges'[d] = challenges[d] \/ (d = c /\ challenges'[d] \in ChallengeRow)
    <3> DEFINE met == [challenges[c] EXCEPT !.status = "verified"]
    <3>1. met \in ChallengeRow
      BY <1>5 DEF ChallengeRow
    <3>2. challenges' = challenges \/ challenges' = [challenges EXCEPT ![c] = met]
      BY DEF Attempt, Close
    <3> HIDE DEF met
    <3> QED
      BY <1>1, <3>1, <3>2
  <2> QED
    BY <1>5, <2>1, NoneIsNoRow
<1>7. ASSUME NEW d \in Challenge, challenges[d] # None
      PROVE  challenges'[d].until = challenges[d].until
  BY <1>1, <1>5 DEF Attempt, Close, ChallengeRow
<1>8. CASE loopback
  <2>1. hits' = hits /\ tried' = tried
    BY <1>8 DEF Attempt
  <2>2. \A d: Hits(d)' = Hits(d)
    BY <2>1 DEF Hits
  <2> QED
    BY <1>4, <1>6, <1>7, <2>1, <2>2 DEF CapInv
<1>9. CASE ~loopback
  <2> DEFINE r == Recent(c)
             s == [r EXCEPT ![now] = r[now] + 1]
  <2>1. /\ SumFunction(r) < Limit
        /\ hits' = [hits EXCEPT ![c] = s]
        /\ tried' = tried \/ (Open(c) /\ tried' = [tried EXCEPT ![c] = tried[c] + 1])
    BY <1>9 DEF Attempt
  <2>2. r \in [Time -> Nat] /\ \A t \in Time: r[t] = IF t > now - Window THEN hits[c][t] ELSE 0
    BY <1>1 DEF Recent
  <2>3. SumFunction(r) = SumFunctionOnSet(r, Time)
    BY <2>2 DEF SumFunction
  <2>4. s \in [Time -> Nat] /\ s[now] = r[now] + 1 /\ \A t \in Time \ {now}: s[t] = r[t]
    BY <1>1, <2>2
  <2>5. SumFunctionOnSet(s, Time) = SumFunctionOnSet(r, Time) + 1
    BY <1>1, <2>2, HitMore
  <2>6. SumFunctionOnSet(r, Time) \in Nat
    BY <2>2, TimeIsFinite, SumNat
  <2> HIDE DEF r, s, K
  <2>7. Hits(c)' = SumFunctionOnSet(s, Time) /\ \A d \in Challenge \ {c}: Hits(d)' = Hits(d)
    BY <1>1, <2>1 DEF Hits
  <2>8. Hits(c)' \in Nat /\ Hits(c)' <= Limit
    BY <1>2, <2>1, <2>3, <2>5, <2>6, <2>7
  <2>9. ASSUME NEW d \in Challenge, d # c
        PROVE  hits'[d] = hits[d] /\ tried'[d] = tried[d] /\ Hits(d)' = Hits(d)
    BY <1>1, <2>1, <2>7, <2>9
  <2> DEFINE until == challenges[c].until
  <2>10. until \in Int /\ until <= now + ChallengeTtl
    BY <1>4, <1>5 DEF CapInv, ChallengeRow
  <2>11. tried[c] \in Nat /\ tried[c] <= K + Limit
    BY <1>1 DEF CapInv, K
  <2>12. ASSUME until >= now
         PROVE  /\ \A t \in Time: hits'[c][t] # 0 => t + ChallengeTtl >= until
                /\ Hits(c)' = Hits(c) + 1 /\ Hits(c) \in Nat
                /\ tried[c] <= K + Hits(c)
    <3>1. /\ \A t \in Time: hits[c][t] # 0 => t + ChallengeTtl >= until
          /\ tried[c] <= K + Hits(c)
      BY <1>4, <2>12 DEF CapInv, K
    <3>2. \A t \in Time: r[t] = hits[c][t]
      BY <1>1, <1>2, <2>2, <2>10, <2>12, <3>1
    <3>3. SumFunctionOnSet(r, Time) = Hits(c)
      BY <3>2, TimeIsFinite, SumSame DEF Hits
    <3>4. hits'[c] = s
      BY <1>1, <2>1
    <3>5. \A t \in Time: s[t] # 0 => t + ChallengeTtl >= until
      BY <1>1, <1>2, <2>4, <2>10, <3>1, <3>2
    <3> QED
      BY <2>5, <2>6, <2>7, <3>1, <3>3, <3>4, <3>5
  <2>13. /\ until >= now => tried'[c] <= K + Hits(c)'
         /\ tried'[c] <= K + Limit
    <3>1. CASE until >= now
      BY <1>1, <1>2, <1>3, <2>1, <2>8, <2>11, <2>12, <3>1 DEF K
    <3>2. CASE ~(until >= now)
      BY <2>1, <2>11, <3>2 DEF Open
    <3> QED
      BY <3>1, <3>2
  <2>14. K' = K
    BY <1>4 DEF K
  <2> HIDE DEF until
  <2> SUFFICES ASSUME NEW d \in Challenge
               PROVE  /\ Hits(d)' <= Limit
                      /\ tried'[d] <= K + Limit
                      /\ challenges'[d] = None => tried'[d] = 0 /\ \A t \in Time: hits'[d][t] = 0
                      /\ challenges'[d] # None =>
                           /\ challenges'[d].until <= now + ChallengeTtl
                           /\ challenges'[d].until >= now =>
                                /\ \A t \in Time: hits'[d][t] # 0 =>
                                     t + ChallengeTtl >= challenges'[d].until
                                /\ tried'[d] <= K + Hits(d)'
    BY <1>4 DEF CapInv, K
  <2>15. CASE d = c
    <3>1. challenges'[c] # None /\ challenges'[c].until = until
      BY <1>4, <1>6, <1>7 DEF until
    <3>2. Hits(d)' = Hits(c)'
      BY <2>15 DEF Hits
    <3> QED
      BY <2>8, <2>10, <2>12, <2>13, <2>15, <3>1, <3>2
  <2>16. CASE d # c
    BY <1>6, <1>7, <2>9, <2>16 DEF CapInv, K
  <2> QED
    BY <2>15, <2>16
<1> QED
  BY <1>8, <1>9

LEMMA CapStep == RowsOK /\ CapInv /\ [Next]_vars => CapInv'
<1> SUFFICES ASSUME RowsOK, CapInv, [Next]_vars PROVE CapInv'
  OBVIOUS
<1>0. /\ now \in Time /\ hits \in [Challenge -> [Time -> Nat]] /\ tried \in [Challenge -> Nat]
      /\ crashes \in Nat /\ challenges \in [Challenge -> ChallengeRow \cup {None}]
      /\ Time \subseteq Nat /\ Limit \in Nat /\ ChallengeTtl \in Nat
  BY SignInAssumption DEF RowsOK, TypeOK, Time
<1>1. ASSUME UNCHANGED <<now, challenges, hits, tried, crashes>> PROVE CapInv'
  <2>1. \A d: Hits(d)' = Hits(d)
    BY <1>1 DEF Hits
  <2> QED
    BY <1>1, <2>1 DEF CapInv
<1>2. ASSUME NEW v \in User, NEW c \in Challenge, LoginChallenged(v, c) PROVE CapInv'
  <2> DEFINE row == [user |-> v, status |-> "pending", until |-> now + ChallengeTtl]
  <2>1. /\ challenges[c] = None /\ UNCHANGED <<now, hits, tried, crashes>>
        /\ challenges' = [challenges EXCEPT ![c] = row]
    BY <1>2 DEF LoginChallenged
  <2>2. row.until = now + ChallengeTtl
    OBVIOUS
  <2> HIDE DEF row
  <2>3. \A d: Hits(d)' = Hits(d)
    BY <2>1 DEF Hits
  <2>4. tried[c] = 0 /\ (\A t \in Time: hits[c][t] = 0) /\ Hits(c) = 0
    BY <2>1, NoHits DEF CapInv, Hits
  <2>5. Limit * crashes \in Nat
    BY <1>0
  <2>6. challenges'[c] = row /\ \A d \in Challenge \ {c}: challenges'[d] = challenges[d]
    BY <1>0, <2>1
  <2> QED
    BY <1>0, <2>1, <2>2, <2>3, <2>4, <2>5, <2>6 DEF CapInv
<1>3. ASSUME NEW c \in Challenge, NEW code \in {"malformed", "wrong", "right"},
             NEW loopback \in BOOLEAN, Attempt(c, code, loopback)
      PROVE CapInv'
  BY <1>3, CapAttempt
<1>4. CASE Tick
  <2>1. now' = now + 1 /\ UNCHANGED <<challenges, hits, tried, crashes>>
    BY <1>4 DEF Tick
  <2>2. \A d: Hits(d)' = Hits(d)
    BY <2>1 DEF Hits
  <2>3. \A d \in Challenge: challenges[d] # None => challenges[d].until \in Int
    BY <1>0 DEF ChallengeRow
  <2> QED
    BY <1>0, <2>1, <2>2, <2>3 DEF CapInv
<1>5. CASE Crash
  <2>1. /\ crashes' = crashes + 1 /\ UNCHANGED <<now, challenges, tried>>
        /\ \A d \in Challenge: \A t \in Time: hits'[d][t] = 0
    BY <1>5 DEF Crash
  <2>2. \A d \in Challenge: SumFunctionOnSet(hits'[d], Time) = 0
    BY <2>1, NoHits
  <2>3. \A d \in Challenge: Hits(d)' = 0
    BY <2>2 DEF Hits
  <2>4. Limit * (crashes + 1) = Limit * crashes + Limit /\ Limit * crashes \in Nat
    BY <1>0
  <2> QED
    BY <1>0, <2>1, <2>3, <2>4 DEF CapInv
<1> QED
  BY <1>1, <1>2, <1>3, <1>4, <1>5
  DEF Next, vars, Login, VerifiedSession, Logout, Expire, Enroll, VerifyEnrollment, Revoke,
      RetirePasswordOnly

(* TriesAreCapped: over its whole life no more than Limit codes are compared   *)
(* for a challenge, and as many again after each restart.                     *)
THEOREM CodesAreCapped == Spec => []TriesAreCapped
<1>1. ASSUME RowsOK, CapInv PROVE TriesAreCapped
  <2>1. crashes \in Nat /\ Limit \in Nat
    BY <1>1, SignInAssumption DEF RowsOK, TypeOK
  <2>2. Limit * (1 + crashes) = Limit * crashes + Limit
    BY <2>1
  <2> QED
    BY <1>1, <2>2 DEF CapInv, TriesAreCapped
<1> QED
  BY <1>1, RowsInit, RowsStep, CapInit, CapStep, PTL DEF Spec
=============================================================================
