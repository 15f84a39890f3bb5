------------------------------- MODULE SignIn -------------------------------
(***************************************************************************)
(* Signing in (src/server/app.js, src/server/db.js): passwords, the second *)
(* factor of owners and administrators, the challenge a login leaves when  *)
(* there is one, sessions and their revocation.                            *)
(*                                                                         *)
(* No handler waits for anything: between its statements only the death of *)
(* the process comes, which also empties the rate limiter, a Map of it.    *)
(*                                                                         *)
(* Time is counted in ticks, and all the properties need of the real five  *)
(* and ten minutes is that a challenge dies before the limiter forgets its *)
(* first attempt.  The throttle of /api/login is left out: requests from   *)
(* loopback pass it, so it keeps no login from the tables.  A host of      *)
(* another tenant, whose requests the guard refuses, is a wrong password   *)
(* or a wrong code here.  A factor is never taken back, so what is kept of *)
(* them is whether a user has an active one and how many are pending.      *)
(***************************************************************************)
EXTENDS Integers, FiniteSets, Functions

CONSTANTS
  User,
  Privileged,    \* the owners and administrators
  Challenge,     \* ids of login_mfa_challenges
  Session,       \* tokens
  Limit,         \* attempts per challenge: 5
  Window,        \* ticks until the limiter forgets an attempt: 10 minutes
  ChallengeTtl,  \* ticks until a challenge expires: 5 minutes
  MaxTime,       \* bound: ticks
  MaxPending,    \* bound: factors of a user that wait for their first code
  MaxCrashes,    \* bound: deaths of the process
  None

ASSUME SignInAssumption ==
  /\ Privileged \subseteq User
  /\ {Limit, Window, ChallengeTtl, MaxTime, MaxPending, MaxCrashes} \subseteq Nat
  /\ ChallengeTtl < Window

VARIABLES
  now,
  active,      \* whether the user has an active factor
  pending,     \* factors not verified yet
  challenges,
  sessions,
  hits,        \* rateLimitHits, in memory: attempts per challenge and tick
  tried,       \* codes compared for a challenge, of requests the limiter sees
  cpu,         \* the next statement of the running handler
  crashes

vars == <<now, active, pending, challenges, sessions, hits, tried, cpu, crashes>>

Idle == [at |-> "idle"]
Time == 0..MaxTime

ChallengeRow == [user: User, status: {"pending", "verified"}, until: 0..(MaxTime + ChallengeTtl)]
SessionRow == [user: User, verified: BOOLEAN, status: {"active", "revoked", "deleted"}]

ASSUME NoneIsNoRow == None \notin ChallengeRow \cup SessionRow

(* The rows have the shape of their tables, only privileged users have        *)
(* factors, and challenges and verified sessions only those who have one.    *)
TypeOK ==
  /\ now \in Time
  /\ active \in [User -> BOOLEAN]
  /\ pending \in [User -> 0..MaxPending]
  /\ \A u \in User \ Privileged: ~active[u] /\ pending[u] = 0
  /\ challenges \in [Challenge -> ChallengeRow \cup {None}]
  /\ \A c \in Challenge: challenges[c] # None => active[challenges[c].user]
  /\ sessions \in [Session -> SessionRow \cup {None}]
  /\ \A s \in Session: sessions[s] # None /\ sessions[s].verified => active[sessions[s].user]
  /\ hits \in [Challenge -> [Time -> Nat]]
  /\ tried \in [Challenge -> Nat]
  /\ cpu = Idle \/ cpu \in [at: {"session", "retire"}, user: Privileged]
  /\ crashes \in 0..MaxCrashes

Init ==
  /\ now = 0
  /\ active = [u \in User |-> FALSE]
  /\ pending = [u \in User |-> 0]
  /\ challenges = [c \in Challenge |-> None]
  /\ sessions = [s \in Session |-> None]
  /\ hits = [c \in Challenge |-> [t \in Time |-> 0]]
  /\ tried = [c \in Challenge |-> 0]
  /\ cpu = Idle
  /\ crashes = 0

-----------------------------------------------------------------------------
Live(s) == sessions[s] # None /\ sessions[s].status = "active"

(* app.auth: a token of a session that is not revoked or expired, and, once   *)
(* the privileged user has a factor, one made with it.                       *)
Authenticated(s) ==
  /\ Live(s)
  /\ LET u == sessions[s].user IN u \in Privileged /\ active[u] => sessions[s].verified

CreateSession(s, u, verified) ==
  /\ sessions[s] = None
  /\ sessions' = [sessions EXCEPT
                    ![s] = [user |-> u, verified |-> verified, status |-> "active"]]

(* Mutant: the factor is not looked for.                                     *)
NeedsChallengeNever(u) == FALSE

NeedsChallenge(u) == active[u]

(* POST /api/login, the password of a user without a factor                  *)
Login(u, s) ==
  /\ cpu = Idle
  /\ ~NeedsChallenge(u)
  /\ CreateSession(s, u, FALSE)
  /\ UNCHANGED <<now, active, pending, challenges, hits, tried, cpu, crashes>>

(* and of one with a factor                                                  *)
LoginChallenged(u, c) ==
  /\ cpu = Idle
  /\ NeedsChallenge(u)
  /\ challenges[c] = None
  /\ challenges' = [challenges EXCEPT
                      ![c] = [user |-> u, status |-> "pending", until |-> now + ChallengeTtl]]
  /\ UNCHANGED <<now, active, pending, sessions, hits, tried, cpu, crashes>>

(* Mutant: the limiter forgets when the challenge expires.                   *)
RecentEarly(c) == [t \in Time |-> IF t > now - ChallengeTtl THEN hits[c][t] ELSE 0]

(* The attempts the limiter remembers.                                       *)
Recent(c) == [t \in Time |-> IF t > now - Window THEN hits[c][t] ELSE 0]

Open(c) == challenges[c].status = "pending" /\ challenges[c].until >= now

(* Mutant: the challenge that was met stays open.                            *)
CloseNot(c) == UNCHANGED challenges

Close(c) == challenges' = [challenges EXCEPT ![c].status = "verified"]

(* POST /api/login/mfa.  An attempt counts before the code is looked at, and  *)
(* a malformed one, or one at a challenge that is closed, is not compared.    *)
(* The right code closes the challenge.                                      *)
Attempt(c, code, loopback) ==
  /\ cpu = Idle
  /\ challenges[c] # None
  /\ loopback \/ SumFunction(Recent(c)) < Limit
  /\ hits' = IF loopback THEN hits ELSE [hits EXCEPT ![c] = [Recent(c) EXCEPT ![now] = @ + 1]]
  /\ tried' = IF ~loopback /\ code # "malformed" /\ Open(c)
              THEN [tried EXCEPT ![c] = @ + 1] ELSE tried
  /\ IF code = "right" /\ Open(c)
     THEN /\ Close(c)
          /\ cpu' = [at |-> "session", user |-> challenges[c].user]
     ELSE UNCHANGED <<challenges, cpu>>
  /\ UNCHANGED <<now, active, pending, sessions, crashes>>

(* The session of a verified challenge.                                      *)
VerifiedSession(s) ==
  /\ cpu.at = "session"
  /\ CreateSession(s, cpu.user, TRUE)
  /\ cpu' = Idle
  /\ UNCHANGED <<now, active, pending, challenges, hits, tried, crashes>>

(* POST /api/logout, which asks for no authentication                        *)
Logout(s) ==
  /\ cpu = Idle
  /\ sessions[s] # None
  /\ sessions' = [sessions EXCEPT ![s].status = "deleted"]
  /\ UNCHANGED <<now, active, pending, challenges, hits, tried, cpu, crashes>>

(* Fourteen days are over, and the next request with the token deletes it.   *)
Expire(s) ==
  /\ cpu = Idle
  /\ Live(s)
  /\ sessions' = [sessions EXCEPT ![s].status = "deleted"]
  /\ UNCHANGED <<now, active, pending, challenges, hits, tried, cpu, crashes>>

(* POST /api/security/mfa/enroll                                             *)
Enroll(s) ==
  LET u == sessions[s].user IN
  /\ cpu = Idle
  /\ Authenticated(s)
  /\ u \in Privileged
  /\ pending[u] < MaxPending
  /\ pending' = [pending EXCEPT ![u] = @ + 1]
  /\ UNCHANGED <<now, active, challenges, sessions, hits, tried, cpu, crashes>>

(* POST /api/security/mfa/verify-enrollment with the right code: the factor   *)
VerifyEnrollment(s) ==
  LET u == sessions[s].user IN
  /\ cpu = Idle
  /\ Authenticated(s)
  /\ u \in Privileged
  /\ pending[u] > 0
  /\ pending' = [pending EXCEPT ![u] = @ - 1]
  /\ active' = [active EXCEPT ![u] = TRUE]
  /\ cpu' = [at |-> "retire", user |-> u]
  /\ UNCHANGED <<now, challenges, sessions, hits, tried, crashes>>

PasswordOnly(s) ==
  Live(s) /\ sessions[s].user = cpu.user /\ ~sessions[s].verified

(* and then the sessions made without it, the caller's own among them        *)
RetirePasswordOnly ==
  /\ cpu.at = "retire"
  /\ sessions' = [s \in Session |->
                    IF PasswordOnly(s) THEN [sessions[s] EXCEPT !.status = "revoked"]
                                       ELSE sessions[s]]
  /\ cpu' = Idle
  /\ UNCHANGED <<now, active, pending, challenges, hits, tried, crashes>>

(* POST /api/admin/sessions/:id/revoke                                       *)
Revoke(admin, s) ==
  /\ cpu = Idle
  /\ Authenticated(admin)
  /\ sessions[admin].user \in Privileged
  /\ Live(s)
  /\ sessions' = [sessions EXCEPT ![s].status = "revoked"]
  /\ UNCHANGED <<now, active, pending, challenges, hits, tried, cpu, crashes>>

Tick ==
  /\ cpu = Idle
  /\ now < MaxTime
  /\ now' = now + 1
  /\ UNCHANGED <<active, pending, challenges, sessions, hits, tried, cpu, crashes>>

Crash ==
  /\ crashes < MaxCrashes
  /\ crashes' = crashes + 1
  /\ hits' = [c \in Challenge |-> [t \in Time |-> 0]]
  /\ cpu' = Idle
  /\ UNCHANGED <<now, active, pending, challenges, sessions, tried>>

Next ==
  \/ \E u \in User:
       \/ \E s \in Session: Login(u, s)
       \/ \E c \in Challenge: LoginChallenged(u, c)
  \/ \E c \in Challenge, code \in {"malformed", "wrong", "right"}, loopback \in BOOLEAN:
       Attempt(c, code, loopback)
  \/ \E s \in Session:
       \/ VerifiedSession(s) \/ Logout(s) \/ Expire(s)
       \/ Enroll(s) \/ VerifyEnrollment(s)
       \/ \E admin \in Session: Revoke(admin, s)
  \/ RetirePasswordOnly
  \/ Tick
  \/ Crash

Spec == Init /\ [][Next]_vars

-----------------------------------------------------------------------------
(* A session made with the password alone of a user who has a factor.        *)
OnPassword(s) == Live(s) /\ active[sessions[s].user] /\ ~sessions[s].verified

(* Once a user has a factor, the sessions made with the password alone are    *)
(* gone: those of before, the one that enrolled included, and none comes from *)
(* a login since.  A crash between the two statements leaves them to one      *)
(* user, and such a session authenticates nobody (app.js:8781, 8850).         *)
PasswordOnlyIsRetired ==
  cpu = Idle =>
    /\ Cardinality({sessions[s].user: s \in {t \in Session: OnPassword(t)}}) <= crashes
    /\ \A s \in Session: OnPassword(s) => ~Authenticated(s)

(* A code is good for one session: however attempts, expiry and restarts     *)
(* interleave, there were never more sessions with a second factor than      *)
(* challenges that were met (app.js:8908).                                   *)
OneSessionPerChallenge ==
  \A u \in User:
    Cardinality({s \in Session: sessions[s] # None /\ sessions[s].user = u
                                /\ sessions[s].verified})
      <= Cardinality({c \in Challenge: challenges[c] # None /\ challenges[c].user = u
                                       /\ challenges[c].status = "verified"})

(* A challenge lives shorter than the limiter remembers, so that over its     *)
(* whole life no more than Limit codes are compared, from whatever addresses *)
(* and at whatever pace; a restart, which empties the limiter, gives as many *)
(* again (app.js:407).                                                       *)
TriesAreCapped == \A c \in Challenge: tried[c] <= Limit * (1 + crashes)
=============================================================================
