--------------------------- MODULE AccessControl ---------------------------
(***************************************************************************)
(* Accounts, sessions and the requests that use them: logging in with a    *)
(* rate limit and a lockout, token refresh that rotates the session, and   *)
(* the administration of users.  Each request is a sequence of steps, one  *)
(* per awaited access to PostgreSQL or Redis, and the steps of different   *)
(* requests interleave.  Passwords are versions; a token is the session's  *)
(* jwt id with the expiry it was signed with.                              *)
(***************************************************************************)
EXTENDS Integers, FiniteSets, Sequences

CONSTANTS
  Request,        \* requests served at the same time
  NewAccount,     \* accounts an administrator may create, [name, mail]
  Ttl,            \* JWT_ACCESS_TOKEN_EXPIRY
  RefreshWindow,  \* JWT_REFRESH_WINDOW
  MaxSession,     \* JWT_MAX_SESSION_DURATION
  LockAttempts,   \* AUTH_LOCKOUT_ATTEMPTS
  LockTime,       \* AUTH_LOCKOUT_MINUTES
  RateLimit,      \* AUTH_RATE_LIMIT_PER_MINUTE
  RateWindow,     \* its window
  MaxTime,        \* bound on the clock
  MaxRequests     \* bound on the requests that are made

\* The configuration refuses a duration or a limit that is not positive; it does
\* not relate Ttl to MaxSession.
ASSUME LimitsAssumption ==
  /\ Ttl \in Nat \ {0} /\ RefreshWindow \in Nat \ {0} /\ MaxSession \in Nat \ {0}
  /\ LockAttempts \in Nat \ {0} /\ LockTime \in Nat \ {0}
  /\ RateLimit \in Nat \ {0} /\ RateWindow \in Nat \ {0}
  /\ MaxTime \in Nat /\ MaxRequests \in Nat

VARIABLES
  now,       \* the clock
  users,     \* id -> row of public.users
  sessions,  \* id -> row of public.sessions
  tokens,    \* tokens handed to clients, with the token each replaced
  limiter,   \* the counter of the rate limit and its expiry, 0 for none
  req,       \* the request in each slot
  left       \* requests still to be made

vars == <<now, users, sessions, tokens, limiter, req, left>>


Idle == [op |-> "idle"]
None == 0

Row(name, mail, role, org) ==
  [name |-> name, mail |-> mail, role |-> role, org |-> org, active |-> TRUE,
   fails |-> 0, locked |-> None, password |-> 1, misses |-> 0]

\* A seeded administrator who is logged in, and two analysts, one of another
\* organization.
Init ==
  /\ now = 1
  /\ users = <<Row("adm", "adm@", "admin", "here"), Row("ana", "ana@", "soc_analyst", "here"),
               Row("eve", "eve@", "soc_analyst", "there")>>
  /\ sessions = <<[jti |-> 1, user |-> 1, created |-> 1, expires |-> 1 + Ttl, revoked |-> FALSE]>>
  /\ tokens = {[jti |-> 1, user |-> 1, exp |-> 1 + Ttl, from |-> None]}
  /\ limiter = [count |-> 0, expires |-> None]
  /\ req = [r \in Request |-> Idle]
  /\ left = MaxRequests

-----------------------------------------------------------------------------
(* Repositories: one statement each.                                       *)

FindByUsername(name, org) == {u \in DOMAIN users : users[u].name = name /\ users[u].org = org}
FindByEmail(mail, org) == {u \in DOMAIN users : users[u].mail = mail /\ users[u].org = org}
FindByIdAndOrg(u, org) == u \in DOMAIN users /\ users[u].org = org
FindByJwtId(j) == {s \in DOMAIN sessions : sessions[s].jti = j}

\* Mutant: the count that was read is written back.
IncrementFailedLoginCountRead(u, read) ==
  users' = [users EXCEPT ![u].fails = read + 1, ![u].misses = @ + 1]
IncrementFailedLoginCount(u, read) ==
  users' = [users EXCEPT ![u].fails = @ + 1, ![u].misses = @ + 1]

RecordSuccessfulLogin(u) ==
  users' = [users EXCEPT ![u].fails = 0, ![u].locked = None, ![u].misses = 0]
LockUserUntil(u, t) == users' = [users EXCEPT ![u].locked = t]

\* Mutant: only the user name is unique.
UniqueNames(a, org) == FindByUsername(a.name, org) = {}
\* uq_users_username_org and uq_users_email_org.
Unique(a, org) == FindByUsername(a.name, org) = {} /\ FindByEmail(a.mail, org) = {}

CreateUser(a, org) ==
  users' = Append(users, Row(a.name, a.mail, "soc_analyst", org))

NextJti == Cardinality(tokens) + 1

CreateSession(u, j, expires) ==
  sessions' = Append(sessions,
    [jti |-> j, user |-> u, created |-> now, expires |-> expires, revoked |-> FALSE])

Live(s, t) == ~sessions[s].revoked /\ sessions[s].expires > t

RevokeByJwtId(j) ==
  sessions' = [s \in DOMAIN sessions |->
    IF sessions[s].jti = j THEN [sessions[s] EXCEPT !.revoked = TRUE] ELSE sessions[s]]

\* Mutant: the row that was read before, whatever its id is now.
RotatableRead(s, old, t) == Live(s, t)
\* rotateJwtId: the row that still has the old id and is active at t.
Rotatable(s, old, t) == sessions[s].jti = old /\ Live(s, t)

\* PostgresSessionValidator and the session check of authenticateRequest.
SessionOf(token) == {s \in FindByJwtId(token.jti) : Live(s, now)}
JwtValid(token) == token.exp > now

-----------------------------------------------------------------------------
(* Logging in.                                                             *)

Answer(r) == req' = [req EXCEPT ![r] = Idle]
Proceed(r, q) == req' = [req EXCEPT ![r] = q]

\* createRedisFixedWindowRateLimit: INCR, then EXPIRE for the first of a window.
\* If EXPIRE fails the caller is refused and the counter keeps no expiry.
Open == limiter.expires = None \/ limiter.expires > now
Count == IF Open THEN limiter.count + 1 ELSE 1
RateLimited(q) ==
  \E stored \in BOOLEAN :
    LET first == Count = 1
        expires == IF ~first THEN limiter.expires ELSE IF stored THEN now + RateWindow ELSE None
    IN /\ first \/ stored
       /\ limiter' = [count |-> IF Count > RateLimit THEN RateLimit + 1 ELSE Count,
                      expires |-> expires]
       /\ req' = [req EXCEPT ![q.slot] = IF stored /\ Count <= RateLimit THEN q.then ELSE Idle]

StartLogin(r) ==
  /\ req[r] = Idle /\ left > 0
  /\ left' = left - 1
  /\ \E n \in {users[u].name : u \in DOMAIN users}, w \in 1..2 :
       RateLimited([slot |-> r, then |-> [op |-> "login", stage |-> "find", name |-> n, w |-> w]])
  /\ UNCHANGED <<now, users, sessions, tokens>>

\* execute to the comparison of the password: an unknown, inactive or locked
\* account ends the request; the row is remembered across the comparison.
FindUser(r) ==
  /\ req[r].op = "login" /\ req[r].stage = "find"
  /\ LET found == {u \in FindByUsername(req[r].name, "here") :
                     users[u].active /\ users[u].locked <= now}
     IN IF found = {} THEN Answer(r)
        ELSE LET u == CHOOSE x \in found : TRUE IN
          Proceed(r, [op |-> "login", stage |-> "verify", w |-> req[r].w, user |-> u,
                      password |-> users[u].password, fails |-> users[u].fails])
  /\ UNCHANGED <<now, users, sessions, tokens, limiter, left>>

InvalidPassword(r) ==
  /\ req[r].op = "login" /\ req[r].stage = "verify" /\ req[r].w # req[r].password
  /\ IncrementFailedLoginCount(req[r].user, req[r].fails)
  /\ IF users'[req[r].user].fails >= LockAttempts
     THEN Proceed(r, [op |-> "login", stage |-> "lock", user |-> req[r].user, until |-> now + LockTime])
     ELSE Answer(r)
  /\ UNCHANGED <<now, sessions, tokens, limiter, left>>

Lock(r) ==
  /\ req[r].op = "login" /\ req[r].stage = "lock"
  /\ LockUserUntil(req[r].user, req[r].until)
  /\ Answer(r)
  /\ UNCHANGED <<now, sessions, tokens, limiter, left>>

\* handleSuccessfulLogin: the account and the session in one transaction.
SuccessfulLogin(r) ==
  /\ req[r].op = "login" /\ req[r].stage = "verify" /\ req[r].w = req[r].password
  /\ RecordSuccessfulLogin(req[r].user)
  /\ CreateSession(req[r].user, NextJti, now + Ttl)
  /\ tokens' = tokens \cup {[jti |-> NextJti, user |-> req[r].user, exp |-> now + Ttl, from |-> None]}
  /\ Answer(r)
  /\ UNCHANGED <<now, limiter, left>>

-----------------------------------------------------------------------------
(* Requests with a token: authenticateRequest reads the session, then the  *)
(* user; requirePermission compares the role of the row it read.           *)

Commands == [op : {"logout", "refresh"}, on : {None}] \cup [op : {"create"}, on : NewAccount]
            \cup [op : {"role", "reset", "deactivate"}, on : {2, 3}]
Managed(q) == q.op \in {"create", "role", "reset", "deactivate"}
RoleHasPermission(role, q) == Managed(q) => role = "admin"

Authenticate(r) ==
  /\ req[r] = Idle /\ left > 0
  /\ left' = left - 1
  /\ \E t \in tokens, q \in Commands :
       /\ JwtValid(t) /\ SessionOf(t) # {}
       /\ Proceed(r, [op |-> q.op, on |-> q.on, stage |-> "principal", token |-> t])
  /\ UNCHANGED <<now, users, sessions, tokens, limiter>>

Authorize(r) ==
  /\ req[r] # Idle /\ req[r].stage = "principal"
  /\ LET u == req[r].token.user IN
       IF users[u].active /\ RoleHasPermission(users[u].role, req[r])
       THEN Proceed(r, [req[r] EXCEPT !.stage = "handle"]) ELSE Answer(r)
  /\ UNCHANGED <<now, users, sessions, tokens, limiter, left>>

Handles(r, op) == req[r].op = op /\ req[r].stage = "handle"

\* A token that was rotated since revokes nothing, and the answer is the same.
Logout(r) ==
  /\ Handles(r, "logout")
  /\ RevokeByJwtId(req[r].token.jti)
  /\ Answer(r)
  /\ UNCHANGED <<now, users, tokens, limiter, left>>

\* RefreshTokenUseCase: the token and its session are checked again, then the
\* user is read, then the session once more for its age; a session revoked
\* between two of these reads is noticed by the rotation only.
ValidateSession(r) ==
  /\ Handles(r, "refresh")
  /\ IF JwtValid(req[r].token) /\ SessionOf(req[r].token) # {}
     THEN Proceed(r, [req[r] EXCEPT !.stage = "user"]) ELSE Answer(r)
  /\ UNCHANGED <<now, users, sessions, tokens, limiter, left>>

\* findById and assertRefreshWindow; the time of the refresh is taken here.
FindRefreshUser(r) ==
  /\ req[r].op = "refresh" /\ req[r].stage = "user"
  /\ LET t == req[r].token IN
       IF users[t.user].active /\ t.exp - now <= RefreshWindow
       THEN Proceed(r, [op |-> "refresh", stage |-> "session", token |-> t, at |-> now])
       ELSE Answer(r)
  /\ UNCHANGED <<now, users, sessions, tokens, limiter, left>>

RefreshExpiry(s, at) ==
  IF at + Ttl <= sessions[s].created + MaxSession
  THEN at + Ttl ELSE sessions[s].created + MaxSession

CalculateRefreshExpiry(r) ==
  /\ req[r].op = "refresh" /\ req[r].stage = "session"
  /\ LET q == req[r]
         found == {s \in FindByJwtId(q.token.jti) : RefreshExpiry(s, q.at) > q.at}
     IN IF found = {} THEN Answer(r)
        ELSE LET s == CHOOSE x \in found : TRUE IN
          Proceed(r, [op |-> "refresh", stage |-> "rotate", token |-> q.token, session |-> s,
                      at |-> q.at, exp |-> RefreshExpiry(s, q.at)])
  /\ UNCHANGED <<now, users, sessions, tokens, limiter, left>>

RotateJwtId(r) ==
  /\ req[r].op = "refresh" /\ req[r].stage = "rotate"
  /\ LET q == req[r] IN
       IF Rotatable(q.session, q.token.jti, q.at)
       THEN /\ sessions' = [sessions EXCEPT ![q.session].jti = NextJti,
                                            ![q.session].expires = q.exp]
            /\ tokens' = tokens \cup {[jti |-> NextJti, user |-> q.token.user,
                                       exp |-> q.exp, from |-> q.token.jti]}
       ELSE UNCHANGED <<sessions, tokens>>
  /\ Answer(r)
  /\ UNCHANGED <<now, users, limiter, left>>

\* CreateUserUseCase: the look-ups, the hash, then the row and its audit entry
\* in one transaction.
LookUpNewUser(r) ==
  /\ Handles(r, "create")
  /\ IF FindByUsername(req[r].on.name, "here") = {} /\ FindByEmail(req[r].on.mail, "here") = {}
     THEN Proceed(r, [req[r] EXCEPT !.stage = "insert"]) ELSE Answer(r)
  /\ UNCHANGED <<now, users, sessions, tokens, limiter, left>>

InsertUser(r) ==
  /\ req[r].op = "create" /\ req[r].stage = "insert"
  /\ IF Unique(req[r].on, "here") THEN CreateUser(req[r].on, "here") ELSE UNCHANGED users
  /\ Answer(r)
  /\ UNCHANGED <<now, sessions, tokens, limiter, left>>

\* UpdateUser, ResetUserPassword and DeactivateUserById: one update of a row of
\* the principal's organization.  A reset forgets the failures.
Changes(r, op, changed) ==
  /\ Handles(r, op)
  /\ IF FindByIdAndOrg(req[r].on, "here") THEN users' = changed ELSE UNCHANGED users
  /\ Answer(r)
  /\ UNCHANGED <<now, sessions, tokens, limiter, left>>

UpdateRole(r) == Changes(r, "role", [users EXCEPT ![req[r].on].role = "admin"])
ResetPassword(r) ==
  Changes(r, "reset", [users EXCEPT ![req[r].on].password = 2, ![req[r].on].fails = 0,
                                    ![req[r].on].locked = None, ![req[r].on].misses = 0])
Deactivate(r) == Changes(r, "deactivate", [users EXCEPT ![req[r].on].active = FALSE])

Tick == now < MaxTime /\ now' = now + 1 /\ UNCHANGED <<users, sessions, tokens, limiter, req, left>>

Next ==
  \/ Tick
  \/ \E r \in Request :
       \/ StartLogin(r) \/ FindUser(r) \/ InvalidPassword(r) \/ Lock(r) \/ SuccessfulLogin(r)
       \/ Authenticate(r) \/ Authorize(r) \/ Logout(r)
       \/ ValidateSession(r) \/ FindRefreshUser(r) \/ CalculateRefreshExpiry(r) \/ RotateJwtId(r)
       \/ LookUpNewUser(r) \/ InsertUser(r) \/ UpdateRole(r) \/ ResetPassword(r) \/ Deactivate(r)

Spec == Init /\ [][Next]_vars

-----------------------------------------------------------------------------
(* What the requests may rely on.                                          *)

\* A user name or a mail address names one account of an organization, although
\* two administrators look before either of them inserts.
UniqueAccounts ==
  \A u, v \in DOMAIN users :
    u # v /\ users[u].org = users[v].org =>
      users[u].name # users[v].name /\ users[u].mail # users[v].mail

\* A token is exchanged for at most one other, however many refreshes present it,
\* one session has one current token, and no chain of refreshes outlives the
\* maximal duration of the session, or the first token where that lives longer.
SessionsSound ==
  /\ \A t, u \in tokens : t.from = u.from /\ t.from # None => t = u
  /\ \A s, z \in DOMAIN sessions : sessions[s].jti = sessions[z].jti => s = z
  /\ \A s \in DOMAIN sessions :
       sessions[s].expires <= sessions[s].created + (IF Ttl > MaxSession THEN Ttl ELSE MaxSession)

\* After LockAttempts wrong passwords in a row the account is locked, or the
\* request that locks it is under way, although the attempts are concurrent and
\* each of them read the count before it compared the password.
LocksInTime ==
  \A u \in DOMAIN users :
    users[u].misses >= LockAttempts =>
      \/ users[u].locked # None
      \/ \E r \in Request : req[r].op = "login" /\ req[r].stage = "lock" /\ req[r].user = u
=============================================================================
