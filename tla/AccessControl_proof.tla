------------------------- MODULE AccessControl_proof -------------------------
(***************************************************************************)
(* Proofs about accounts and sessions, for any number of requests at a     *)
(* time, any durations and any limits.                                     *)
(***************************************************************************)
EXTENDS AccessControl, FiniteSetTheorems, TLAPS

Name == {"adm", "ana", "eve"} \cup {a.name : a \in NewAccount}
Mail == {"adm@", "ana@", "eve@"} \cup {a.mail : a \in NewAccount}
Role == {"admin", "soc_analyst"}
Org == {"here", "there"}

User == [name : Name, mail : Mail, role : Role, org : Org, active : BOOLEAN,
         fails : Nat, locked : Nat, password : 1..2, misses : Nat]
Session == [jti : Nat, user : Nat, created : Nat, expires : Nat, revoked : BOOLEAN]

\* What a request remembers across its awaited calls, with U the ids of the users,
\* S the sessions and T the tokens of now.
Finding == [op : {"login"}, stage : {"find"}, name : Name, w : 1..2]
Verifying(U) == [op : {"login"}, stage : {"verify"}, w : 1..2, user : U, password : 1..2, fails : Nat]
Locking(U) == [op : {"login"}, stage : {"lock"}, user : U, until : Nat \ {0}]
Reading(T) == [op : {"refresh"}, stage : {"session"}, token : T, at : Nat]
Rotating(S, T) == [op : {"refresh"}, stage : {"rotate"}, token : T, session : DOMAIN S,
                   at : Nat, exp : Nat]
Commanding(q, T) ==
  /\ q.op \in {"logout", "refresh", "create", "role", "reset", "deactivate"}
  /\ q.stage \in {"principal", "handle", "user", "insert"} /\ q.token \in T
  /\ q = [op |-> q.op, on |-> q.on, stage |-> q.stage, token |-> q.token]
  /\ q.op = "create" => q.on \in NewAccount

\* A rotated session ends in time, also when its row is still to be changed.
RequestOK(q, U, S, T) ==
  \/ q = Idle \/ q \in Finding \/ q \in Verifying(U) \/ q \in Locking(U) \/ q \in Reading(T)
  \/ q \in Rotating(S, T) /\ q.exp <= S[q.session].created + MaxSession
  \/ Commanding(q, T)

RequestsOK == \A r \in Request : RequestOK(req[r], DOMAIN users, sessions, tokens)

TypeOK ==
  /\ now \in Nat \ {0}
  /\ users \in Seq(User) /\ sessions \in Seq(Session)
  /\ IsFiniteSet(tokens) /\ DOMAIN req = Request /\ req = [r \in Request |-> req[r]]

\* Ids are handed out in order; an id that was exchanged is the id of no session.
Issued ==
  /\ \A t \in tokens : t.jti \in 1..Cardinality(tokens) /\ t.from \in 0..Cardinality(tokens)
                       /\ t.exp \in Nat
  /\ \A s \in DOMAIN sessions : sessions[s].jti \in 1..Cardinality(tokens)
  /\ \A t \in tokens, s \in DOMAIN sessions : t.from # sessions[s].jti

\* The counter in the row counts the wrong passwords in a row.
Counted == \A u \in DOMAIN users : users[u].fails = users[u].misses

AccessInv ==
  TypeOK /\ RequestsOK /\ Issued /\ Counted /\ UniqueAccounts /\ SessionsSound /\ LocksInTime
-----------------------------------------------------------------------------
Step(r) ==
  \/ StartLogin(r) \/ FindUser(r) \/ InvalidPassword(r) \/ Lock(r) \/ SuccessfulLogin(r)
  \/ Authenticate(r) \/ Authorize(r) \/ Logout(r)
  \/ ValidateSession(r) \/ FindRefreshUser(r) \/ CalculateRefreshExpiry(r) \/ RotateJwtId(r)
  \/ LookUpNewUser(r) \/ InsertUser(r) \/ UpdateRole(r) \/ ResetPassword(r) \/ Deactivate(r)

\* Which of its stages a request is in when one of its steps is taken.
LEMMA Stages ==
  ASSUME NEW q, NEW U, NEW S, NEW T, RequestOK(q, U, S, T)
  PROVE  /\ q.op = "login" /\ q.stage = "find" => q \in Finding
         /\ q.op = "login" /\ q.stage = "verify" => q \in Verifying(U)
         /\ q.op = "login" /\ q.stage = "lock" => q \in Locking(U)
         /\ q.op = "refresh" /\ q.stage = "rotate" =>
              q \in Rotating(S, T) /\ q.exp <= S[q.session].created + MaxSession
         /\ q.op = "refresh" /\ q.stage = "session" => q \in Reading(T)
         /\ q # Idle /\ q.stage \in {"principal", "handle", "user", "insert"} => Commanding(q, T)
BY DEF RequestOK, Idle, Finding, Verifying, Locking, Reading, Rotating, Commanding

LEMMA StillOK ==
  ASSUME NEW q, NEW U, NEW S, NEW T, RequestOK(q, U, S, T), NEW V, NEW R, NEW W,
         U \subseteq V, T \subseteq W, DOMAIN S \subseteq DOMAIN R,
         \A s \in DOMAIN S : R[s].created = S[s].created
  PROVE  RequestOK(q, V, R, W)
<1>1. q \in Verifying(U) => q \in Verifying(V)
  BY DEF Verifying
<1>2. q \in Locking(U) => q \in Locking(V)
  BY DEF Locking
<1>3. q \in Rotating(S, T) => q \in Rotating(R, W) /\ R[q.session].created = S[q.session].created
  BY DEF Rotating
<1>4. q \in Reading(T) => q \in Reading(W)
  BY DEF Reading
<1> QED  BY <1>1, <1>2, <1>3, <1>4 DEF RequestOK, Commanding

LEMMA RowTyped ==
  ASSUME NEW name \in Name, NEW mail \in Mail, NEW role \in Role, NEW org \in Org
  PROVE  Row(name, mail, role, org) \in User
<1>1. 0 \in Nat /\ 1 \in 1..2 /\ TRUE \in BOOLEAN
  OBVIOUS
<1> QED  BY ONLY <1>1, Zenon DEF Row, User, None

LEMMA Initially == Init => AccessInv
<1> SUFFICES ASSUME Init PROVE AccessInv
  OBVIOUS
<1> USE LimitsAssumption
<1>1. /\ Row("adm", "adm@", "admin", "here") \in User
      /\ Row("ana", "ana@", "soc_analyst", "here") \in User
      /\ Row("eve", "eve@", "soc_analyst", "there") \in User
  <2>1. /\ "adm" \in Name /\ "adm@" \in Mail /\ "admin" \in Role /\ "here" \in Org
        /\ "ana" \in Name /\ "ana@" \in Mail /\ "soc_analyst" \in Role
        /\ "eve" \in Name /\ "eve@" \in Mail /\ "there" \in Org
    BY DEF Name, Mail, Role, Org
  <2> QED  BY ONLY <2>1, RowTyped
<1>2. /\ users \in Seq(User) /\ DOMAIN users = 1..3
      /\ users[1] = Row("adm", "adm@", "admin", "here")
      /\ users[2] = Row("ana", "ana@", "soc_analyst", "here")
      /\ users[3] = Row("eve", "eve@", "soc_analyst", "there")
  BY <1>1 DEF Init
<1>3. /\ sessions \in Seq(Session) /\ DOMAIN sessions = 1..1
      /\ sessions[1] = [jti |-> 1, user |-> 1, created |-> 1, expires |-> 1 + Ttl, revoked |-> FALSE]
  BY DEF Init, Session
<1>4. tokens = {[jti |-> 1, user |-> 1, exp |-> 1 + Ttl, from |-> None]}
      /\ IsFiniteSet(tokens) /\ Cardinality(tokens) = 1
  BY FS_Singleton DEF Init
<1>5. TypeOK
  BY <1>2, <1>3, <1>4 DEF Init, TypeOK
<1>6. RequestsOK
  BY DEF Init, RequestsOK, RequestOK
<1>7. Issued
  BY <1>3, <1>4 DEF Issued, None
<1>8. Counted /\ LocksInTime
  BY <1>2 DEF Counted, LocksInTime, Row
<1>9. UniqueAccounts
  BY <1>2 DEF UniqueAccounts, Row
<1>10. SessionsSound
  BY <1>3, <1>4 DEF SessionsSound
<1> QED  BY <1>5, <1>6, <1>7, <1>8, <1>9, <1>10 DEF AccessInv
-----------------------------------------------------------------------------
(* What the steps do to accounts and sessions.                             *)

\* A row after an update of its counters, its lock and its other fields.
LEMMA Updated ==
  ASSUME users \in Seq(User), NEW u \in DOMAIN users, NEW row \in User,
         users' = [users EXCEPT ![u] = row]
  PROVE  /\ users' \in Seq(User) /\ DOMAIN users' = DOMAIN users /\ users'[u] = row
         /\ \A v \in DOMAIN users : v # u => users'[v] = users[v]
BY DEF User

LEMMA Counters ==
  ASSUME NEW row \in User, NEW f \in Nat, NEW m \in Nat, NEW t \in Nat, NEW p \in 1..2
  PROVE  /\ [row EXCEPT !.fails = f, !.misses = m] \in User
         /\ [row EXCEPT !.fails = f, !.locked = t, !.misses = m] \in User
         /\ [row EXCEPT !.locked = t] \in User
         /\ [row EXCEPT !.password = p, !.fails = f, !.locked = t, !.misses = m] \in User
BY DEF User

LEMMA Others ==
  ASSUME NEW row \in User
  PROVE  /\ [row EXCEPT !.role = "admin"] \in User
         /\ [row EXCEPT !.active = FALSE] \in User
BY DEF User, Role

LEMMA AsRow ==
  ASSUME users \in Seq(User), NEW u \in DOMAIN users, NEW t
  PROVE  /\ [users EXCEPT ![u].role = "admin"] = [users EXCEPT ![u] = [users[u] EXCEPT !.role = "admin"]]
         /\ [users EXCEPT ![u].active = FALSE] = [users EXCEPT ![u] = [users[u] EXCEPT !.active = FALSE]]
         /\ [users EXCEPT ![u].fails = @ + 1, ![u].misses = @ + 1]
              = [users EXCEPT ![u] = [users[u] EXCEPT !.fails = @ + 1, !.misses = @ + 1]]
         /\ [users EXCEPT ![u].fails = 0, ![u].locked = None, ![u].misses = 0]
              = [users EXCEPT ![u] = [users[u] EXCEPT !.fails = 0, !.locked = None, !.misses = 0]]
         /\ [users EXCEPT ![u].locked = t] = [users EXCEPT ![u] = [users[u] EXCEPT !.locked = t]]
         /\ [users EXCEPT ![u].password = 2, ![u].fails = 0, ![u].locked = None, ![u].misses = 0]
              = [users EXCEPT ![u] = [users[u] EXCEPT !.password = 2, !.fails = 0, !.locked = None, !.misses = 0]]
BY DEF User

\* The row of an account keeps what names it.
Same(row, old) == row.name = old.name /\ row.mail = old.mail /\ row.org = old.org

Rewritten ==
  \E u \in DOMAIN users, row \in User :
    users' = [users EXCEPT ![u] = row] /\ Same(row, users[u]) /\ row.fails = row.misses
Added ==
  \E a \in NewAccount :
    Unique(a, "here") /\ users' = Append(users, Row(a.name, a.mail, "soc_analyst", "here"))

LEMMA UsersStep ==
  ASSUME AccessInv, NEW r \in Request, Step(r)
  PROVE  users' = users \/ Rewritten \/ Added
<1> DEFINE q == req[r]
<1>1. users \in Seq(User) /\ RequestOK(q, DOMAIN users, sessions, tokens) /\ Counted
  BY DEF AccessInv, TypeOK, RequestsOK
<1> HIDE DEF q
<1>2. \A u \in DOMAIN users : users[u] \in User /\ users[u].fails = users[u].misses
  BY <1>1 DEF Counted
<1>3. CASE InvalidPassword(r)
  <2>1. q \in Verifying(DOMAIN users)
    BY <1>1, <1>3, Stages DEF InvalidPassword, q
  <2> DEFINE u == q.user
             row == [users[u] EXCEPT !.fails = @ + 1, !.misses = @ + 1]
  <2>2. u \in DOMAIN users
    BY <2>1 DEF Verifying
  <2>3. users' = [users EXCEPT ![u] = row]
    BY <1>1, <1>3, <2>2, AsRow DEF InvalidPassword, IncrementFailedLoginCount, q
  <2>4. row \in User /\ Same(row, users[u]) /\ row.fails = row.misses
    <3>1. users[u] \in User /\ users[u].fails + 1 \in Nat /\ users[u].misses + 1 \in Nat
          /\ users[u].fails = users[u].misses
      BY <1>2, <2>2 DEF User
    <3>2. row \in User
      <4>1. 2 \in 1..2
        OBVIOUS
      <4> QED  BY ONLY <3>1, <4>1, Counters
    <3>3. Same(row, users[u]) /\ row.fails = row.misses
      BY <3>1 DEF User, Same
    <3> QED  BY <3>2, <3>3
  <2> QED  BY <2>2, <2>3, <2>4 DEF Rewritten
<1>4. CASE Lock(r)
  <2>1. q \in Locking(DOMAIN users)
    BY <1>1, <1>4, Stages DEF Lock, q
  <2> DEFINE u == q.user
             row == [users[u] EXCEPT !.locked = q.until]
  <2>2. u \in DOMAIN users /\ q.until \in Nat
    BY <2>1 DEF Locking
  <2>3. users' = [users EXCEPT ![u] = row]
    BY <1>1, <1>4, <2>2, AsRow DEF Lock, LockUserUntil, q
  <2>4. row \in User /\ Same(row, users[u]) /\ row.fails = row.misses
    BY <1>2, <2>2 DEF User, Same
  <2> QED  BY <2>2, <2>3, <2>4 DEF Rewritten
<1>5. CASE SuccessfulLogin(r)
  <2>1. q \in Verifying(DOMAIN users)
    BY <1>1, <1>5, Stages DEF SuccessfulLogin, q
  <2> DEFINE u == q.user
             row == [users[u] EXCEPT !.fails = 0, !.locked = None, !.misses = 0]
  <2>2. u \in DOMAIN users
    BY <2>1 DEF Verifying
  <2>3. users' = [users EXCEPT ![u] = row]
    BY <1>1, <1>5, <2>2, AsRow DEF SuccessfulLogin, RecordSuccessfulLogin, q
  <2>4. row \in User /\ Same(row, users[u]) /\ row.fails = row.misses
    BY <1>2, <2>2 DEF User, Same, None
  <2> QED  BY <2>2, <2>3, <2>4 DEF Rewritten
<1>6. CASE UpdateRole(r) \/ ResetPassword(r) \/ Deactivate(r)
  <2> DEFINE u == q.on
  <2>1. u \in DOMAIN users \/ users' = users
    BY <1>6 DEF UpdateRole, ResetPassword, Deactivate, Changes, FindByIdAndOrg, q
  <2>2. users' = users
        \/ \E row \in {[users[u] EXCEPT !.role = "admin"], [users[u] EXCEPT !.active = FALSE],
                       [users[u] EXCEPT !.password = 2, !.fails = 0, !.locked = None, !.misses = 0]} :
             users' = [users EXCEPT ![u] = row]
    BY <1>1, <1>6, <2>1, AsRow DEF UpdateRole, ResetPassword, Deactivate, Changes, q
  <2>3. CASE u \in DOMAIN users
    <3>1. /\ [users[u] EXCEPT !.role = "admin"] \in User
          /\ [users[u] EXCEPT !.active = FALSE] \in User
      BY <1>2, <2>3, Others
    <3>2. [users[u] EXCEPT !.password = 2, !.fails = 0, !.locked = None, !.misses = 0] \in User
      <4>1. users[u] \in User /\ 2 \in 1..2 /\ 0 \in Nat /\ None \in Nat
        BY <1>2, <2>3 DEF None
      <4> QED  BY ONLY <4>1, Counters
    <3>3. ASSUME NEW row \in {[users[u] EXCEPT !.role = "admin"], [users[u] EXCEPT !.active = FALSE],
                       [users[u] EXCEPT !.password = 2, !.fails = 0, !.locked = None, !.misses = 0]}
          PROVE  row \in User /\ Same(row, users[u]) /\ row.fails = row.misses
      BY <1>2, <2>3, <3>1, <3>2 DEF User, Same
    <3> HIDE DEF u
    <3> QED  BY <2>2, <2>3, <3>3 DEF Rewritten
  <2> QED  BY <2>1, <2>3
<1>7. CASE InsertUser(r)
  <2>1. Commanding(q, tokens) /\ q.op = "create"
    BY <1>1, <1>7, Stages DEF InsertUser, q, Idle
  <2>2. q.on \in NewAccount
    BY <2>1 DEF Commanding
  <2>3. users' = users \/ (Unique(q.on, "here")
                           /\ users' = Append(users, Row(q.on.name, q.on.mail, "soc_analyst", "here")))
    BY <1>7 DEF InsertUser, CreateUser, q
  <2> QED  BY <2>2, <2>3 DEF Added
<1>8. CASE StartLogin(r) \/ FindUser(r) \/ Authenticate(r) \/ Authorize(r) \/ Logout(r)
           \/ ValidateSession(r) \/ FindRefreshUser(r) \/ CalculateRefreshExpiry(r)
           \/ RotateJwtId(r) \/ LookUpNewUser(r)
  BY <1>8 DEF StartLogin, FindUser, Authenticate, Authorize, Logout, ValidateSession, FindRefreshUser,
              CalculateRefreshExpiry, RotateJwtId, LookUpNewUser
<1> QED  BY <1>3, <1>4, <1>5, <1>6, <1>7, <1>8 DEF Step

\* Names and addresses stay unique, whoever inserts.
LEMMA UsersKept ==
  ASSUME AccessInv, users' = users \/ Rewritten \/ Added
  PROVE  /\ users' \in Seq(User) /\ DOMAIN users \subseteq DOMAIN users'
         /\ Counted' /\ UniqueAccounts'
<1>1. users \in Seq(User) /\ Counted /\ UniqueAccounts
  BY DEF AccessInv, TypeOK
<1>2. CASE users' = users
  BY <1>1, <1>2 DEF Counted, UniqueAccounts
<1>3. CASE Rewritten
  <2>1. PICK u \in DOMAIN users, row \in User :
          users' = [users EXCEPT ![u] = row] /\ Same(row, users[u]) /\ row.fails = row.misses
    BY <1>3 DEF Rewritten
  <2>2. /\ users' \in Seq(User) /\ DOMAIN users' = DOMAIN users /\ users'[u] = row
        /\ \A v \in DOMAIN users : v # u => users'[v] = users[v]
    BY ONLY <1>1, <2>1, Updated
  <2>3. \A v \in DOMAIN users : Same(users'[v], users[v]) /\ users'[v].fails = users'[v].misses
    BY <1>1, <2>1, <2>2 DEF Counted, Same
  <2> QED  BY <1>1, <2>2, <2>3 DEF Counted, UniqueAccounts, Same
<1>4. CASE Added
  <2>1. PICK a \in NewAccount :
          Unique(a, "here") /\ users' = Append(users, Row(a.name, a.mail, "soc_analyst", "here"))
    BY <1>4 DEF Added
  <2> DEFINE row == Row(a.name, a.mail, "soc_analyst", "here")
             n == Len(users)
  <2>2. row \in User
    <3>1. a.name \in Name /\ a.mail \in Mail /\ "soc_analyst" \in Role /\ "here" \in Org
      BY DEF Name, Mail, Role, Org
    <3> QED  BY ONLY <3>1, RowTyped
  <2>3. row.name = a.name /\ row.mail = a.mail /\ row.org = "here" /\ row.fails = 0 /\ row.misses = 0
    BY DEF Row
  <2>4. users' = Append(users, row)
    BY <2>1
  <2> HIDE DEF row
  <2>5. /\ users' \in Seq(User) /\ DOMAIN users = 1..n /\ DOMAIN users' = 1..(n+1) /\ n \in Nat
        /\ users'[n+1] = row /\ \A v \in DOMAIN users : users'[v] = users[v]
    BY <1>1, <2>2, <2>4
  <2> HIDE DEF n
  <2>6. \A v \in DOMAIN users' : v \in DOMAIN users \/ v = n+1
    BY <2>5
  <2>7. \A v \in DOMAIN users : users[v].org = "here" => users[v].name # a.name /\ users[v].mail # a.mail
    BY <2>1 DEF Unique, FindByUsername, FindByEmail
  <2>8. Counted'
    BY <1>1, <2>3, <2>5, <2>6 DEF Counted
  <2>9. UniqueAccounts'
    <3> SUFFICES ASSUME NEW u \in DOMAIN users', NEW v \in DOMAIN users', u # v,
                        users'[u].org = users'[v].org
                 PROVE  users'[u].name # users'[v].name /\ users'[u].mail # users'[v].mail
      BY DEF UniqueAccounts
    <3>1. CASE u \in DOMAIN users /\ v \in DOMAIN users
      BY <1>1, <2>5, <3>1 DEF UniqueAccounts
    <3>2. CASE u = n+1 /\ v \in DOMAIN users
      BY <2>3, <2>5, <2>7, <3>2
    <3>3. CASE u \in DOMAIN users /\ v = n+1
      BY <2>3, <2>5, <2>7, <3>3
    <3> QED  BY <2>6, <3>1, <3>2, <3>3
  <2> QED  BY <2>5, <2>8, <2>9
<1> QED  BY <1>2, <1>3, <1>4

Revoked ==
  /\ tokens' = tokens
  /\ \E j : sessions' = [s \in DOMAIN sessions |->
       IF sessions[s].jti = j THEN [sessions[s] EXCEPT !.revoked = TRUE] ELSE sessions[s]]
Opened ==
  \E u \in DOMAIN users :
    /\ sessions' = Append(sessions, [jti |-> NextJti, user |-> u, created |-> now,
                                     expires |-> now + Ttl, revoked |-> FALSE])
    /\ tokens' = tokens \cup {[jti |-> NextJti, user |-> u, exp |-> now + Ttl, from |-> None]}
Rotated ==
  \E s \in DOMAIN sessions, e \in Nat : \E u :
    /\ e <= sessions[s].created + MaxSession
    /\ sessions' = [sessions EXCEPT ![s].jti = NextJti, ![s].expires = e]
    /\ tokens' = tokens \cup {[jti |-> NextJti, user |-> u, exp |-> e, from |-> sessions[s].jti]}

LEMMA SessionsStep ==
  ASSUME AccessInv, NEW r \in Request, Step(r)
  PROVE  \/ sessions' = sessions /\ tokens' = tokens
         \/ Revoked \/ Opened \/ Rotated
<1> DEFINE q == req[r]
<1>1. sessions \in Seq(Session) /\ RequestOK(q, DOMAIN users, sessions, tokens)
  BY DEF AccessInv, TypeOK, RequestsOK
<1> HIDE DEF q
<1>2. CASE Logout(r)
  BY <1>2 DEF Logout, RevokeByJwtId, Revoked
<1>3. CASE SuccessfulLogin(r)
  <2>1. q.user \in DOMAIN users
    BY <1>1, <1>3, Stages DEF SuccessfulLogin, q, Verifying
  <2> QED  BY <1>3, <2>1 DEF SuccessfulLogin, CreateSession, Opened, q
<1>4. CASE RotateJwtId(r)
  <2>1. q \in Rotating(sessions, tokens) /\ q.exp <= sessions[q.session].created + MaxSession
    BY <1>1, <1>4, Stages DEF RotateJwtId, q
  <2>2. q.session \in DOMAIN sessions /\ q.exp \in Nat
    BY <2>1 DEF Rotating
  <2>3. \/ sessions' = sessions /\ tokens' = tokens
        \/ /\ sessions[q.session].jti = q.token.jti
           /\ sessions' = [sessions EXCEPT ![q.session].jti = NextJti, ![q.session].expires = q.exp]
           /\ tokens' = tokens \cup {[jti |-> NextJti, user |-> q.token.user,
                                      exp |-> q.exp, from |-> q.token.jti]}
    BY <1>4 DEF RotateJwtId, Rotatable, q
  <2> QED  BY <2>1, <2>2, <2>3 DEF Rotated
<1>5. CASE ~(Logout(r) \/ SuccessfulLogin(r) \/ RotateJwtId(r))
  BY <1>5 DEF Step, StartLogin, FindUser, InvalidPassword, Lock, Authenticate, Authorize,
              ValidateSession, FindRefreshUser, CalculateRefreshExpiry, LookUpNewUser, InsertUser, UpdateRole, ResetPassword, Deactivate, Changes
<1> QED  BY <1>2, <1>3, <1>4, <1>5

\* A new id was handed out to nobody.
LEMMA FreshId ==
  ASSUME IsFiniteSet(tokens), Issued, NEW t, t.jti = NextJti, tokens' = tokens \cup {t}
  PROVE  /\ IsFiniteSet(tokens') /\ Cardinality(tokens') = Cardinality(tokens) + 1
         /\ Cardinality(tokens) \in Nat /\ NextJti = Cardinality(tokens) + 1
<1>1. Cardinality(tokens) \in Nat
  BY FS_CardinalityType
<1>2. t \notin tokens
  BY <1>1 DEF Issued, NextJti
<1> QED  BY <1>1, <1>2, FS_AddElement DEF NextJti

\* The sessions only grow, and none changes the time it was created.
Grown == /\ tokens \subseteq tokens' /\ DOMAIN sessions \subseteq DOMAIN sessions'
         /\ \A s \in DOMAIN sessions : sessions'[s].created = sessions[s].created

LEMMA RevokedKeeps ==
  ASSUME AccessInv, Revoked
  PROVE  sessions' \in Seq(Session) /\ IsFiniteSet(tokens') /\ Issued' /\ SessionsSound' /\ Grown
<1>1. /\ sessions \in Seq(Session) /\ IsFiniteSet(tokens) /\ Issued /\ SessionsSound /\ tokens' = tokens
  BY DEF AccessInv, TypeOK, Revoked
<1>2. PICK j : sessions' = [s \in DOMAIN sessions |->
          IF sessions[s].jti = j THEN [sessions[s] EXCEPT !.revoked = TRUE] ELSE sessions[s]]
  BY DEF Revoked
<1>3. \A s \in DOMAIN sessions : sessions[s] \in Session
  BY <1>1
<1>4. DOMAIN sessions' = DOMAIN sessions /\ \A s \in DOMAIN sessions :
        /\ sessions'[s] \in Session /\ sessions'[s].jti = sessions[s].jti
        /\ sessions'[s].created = sessions[s].created /\ sessions'[s].expires = sessions[s].expires
  BY <1>2, <1>3 DEF Session
<1>5. sessions' \in Seq(Session)
  <2> DEFINE n == Len(sessions)
  <2>1. n \in Nat /\ DOMAIN sessions = 1..n
    BY <1>1
  <2> HIDE DEF n
  <2>2. sessions' = [s \in 1..n |-> sessions'[s]]
    BY <1>2, <2>1
  <2>3. sessions' \in [1..n -> Session]
    BY ONLY <1>4, <2>1, <2>2
  <2> QED  BY ONLY <2>1, <2>3
<1>6. Issued'
  BY ONLY <1>1, <1>4 DEF Issued
<1>7. SessionsSound'
  BY ONLY <1>1, <1>4 DEF SessionsSound
<1> QED  BY <1>1, <1>4, <1>5, <1>6, <1>7 DEF Grown

LEMMA OpenedKeeps ==
  ASSUME AccessInv, Opened
  PROVE  sessions' \in Seq(Session) /\ IsFiniteSet(tokens') /\ Issued' /\ SessionsSound' /\ Grown
<1>1. /\ sessions \in Seq(Session) /\ IsFiniteSet(tokens) /\ Issued /\ SessionsSound
      /\ now \in Nat /\ users \in Seq(User)
  BY DEF AccessInv, TypeOK
<1>2. PICK u \in DOMAIN users :
    /\ sessions' = Append(sessions, [jti |-> NextJti, user |-> u, created |-> now,
                                     expires |-> now + Ttl, revoked |-> FALSE])
    /\ tokens' = tokens \cup {[jti |-> NextJti, user |-> u, exp |-> now + Ttl, from |-> None]}
  BY DEF Opened
<1> DEFINE t == [jti |-> NextJti, user |-> u, exp |-> now + Ttl, from |-> None]
           z == [jti |-> NextJti, user |-> u, created |-> now, expires |-> now + Ttl, revoked |-> FALSE]
           c == Cardinality(tokens)
           n == Len(sessions)
<1>3. /\ t.jti = NextJti /\ t.from = 0 /\ t.exp \in Nat /\ tokens' = tokens \cup {t}
  BY <1>1, <1>2, LimitsAssumption DEF None
<1>4. z.jti = NextJti /\ z.created = now /\ z.expires = now + Ttl /\ sessions' = Append(sessions, z)
  BY <1>2
<1> HIDE DEF t
<1>5. IsFiniteSet(tokens') /\ Cardinality(tokens') = c + 1 /\ c \in Nat /\ NextJti = c + 1
  BY ONLY <1>1, <1>3, FreshId
<1>6. z \in Session
  BY <1>1, <1>5, LimitsAssumption DEF Session
<1> HIDE DEF z, c
<1>7. /\ sessions' \in Seq(Session) /\ n \in Nat /\ DOMAIN sessions = 1..n /\ DOMAIN sessions' = 1..(n+1)
      /\ sessions'[n+1] = z /\ \A s \in DOMAIN sessions : sessions'[s] = sessions[s]
  BY <1>1, <1>4, <1>6
<1> HIDE DEF n
<1>8. \A s \in DOMAIN sessions' : s \in DOMAIN sessions \/ s = n+1
  BY <1>7
<1>9. /\ \A x \in tokens : x.jti \in 1..c /\ x.from \in 0..c /\ x.exp \in Nat
      /\ \A s \in DOMAIN sessions : sessions[s].jti \in 1..c
      /\ \A x \in tokens, s \in DOMAIN sessions : x.from # sessions[s].jti
  BY <1>1 DEF Issued, c
<1>10. Issued'
  <2>1. \A x \in tokens' : x.jti \in 1..(c+1) /\ x.from \in 0..(c+1) /\ x.exp \in Nat
    BY <1>3, <1>5, <1>9
  <2>2. \A s \in DOMAIN sessions' : sessions'[s].jti \in 1..(c+1)
    BY <1>4, <1>5, <1>7, <1>8, <1>9
  <2>3. ASSUME NEW x \in tokens', NEW s \in DOMAIN sessions' PROVE x.from # sessions'[s].jti
    BY <1>3, <1>4, <1>5, <1>7, <1>8, <1>9
  <2> QED  BY <1>5, <2>1, <2>2, <2>3 DEF Issued
<1>11. SessionsSound'
  <2>1. ASSUME NEW x \in tokens', NEW y \in tokens', x.from = y.from, x.from # None PROVE x = y
    BY <1>1, <1>3, <2>1 DEF SessionsSound, None
  <2>2. ASSUME NEW s \in DOMAIN sessions', NEW y \in DOMAIN sessions', sessions'[s].jti = sessions'[y].jti
        PROVE  s = y
    <3>1. CASE s \in DOMAIN sessions /\ y \in DOMAIN sessions
      BY <1>1, <1>7, <2>2, <3>1 DEF SessionsSound
    <3>2. CASE s = n+1 \/ y = n+1
      BY <1>4, <1>5, <1>7, <1>8, <1>9, <2>2, <3>2
    <3> QED  BY <1>8, <3>1, <3>2
  <2>3. ASSUME NEW s \in DOMAIN sessions'
        PROVE  sessions'[s].expires <= sessions'[s].created + (IF Ttl > MaxSession THEN Ttl ELSE MaxSession)
    <3>1. CASE s \in DOMAIN sessions
      BY <1>1, <1>7, <3>1 DEF SessionsSound
    <3>2. CASE s = n+1
      BY <1>1, <1>4, <1>7, <3>2, LimitsAssumption
    <3> QED  BY <1>8, <3>1, <3>2
  <2> QED  BY <2>1, <2>2, <2>3 DEF SessionsSound
<1> QED  BY <1>3, <1>5, <1>7, <1>10, <1>11 DEF Grown

\* The exchanged id is no session's any more: it is exchanged once.
LEMMA RotatedKeeps ==
  ASSUME AccessInv, Rotated
  PROVE  sessions' \in Seq(Session) /\ IsFiniteSet(tokens') /\ Issued' /\ SessionsSound' /\ Grown
<1>1. sessions \in Seq(Session) /\ IsFiniteSet(tokens) /\ Issued /\ SessionsSound
  BY DEF AccessInv, TypeOK
<1> DEFINE Rotates(z, e, u) ==
      /\ e <= sessions[z].created + MaxSession
      /\ sessions' = [sessions EXCEPT ![z].jti = NextJti, ![z].expires = e]
      /\ tokens' = tokens \cup {[jti |-> NextJti, user |-> u, exp |-> e, from |-> sessions[z].jti]}
<1>0. PICK z \in DOMAIN sessions, e \in Nat : \E u : Rotates(z, e, u)
  BY DEF Rotated
<1>2. PICK u : Rotates(z, e, u)
  BY <1>0
<1> DEFINE t == [jti |-> NextJti, user |-> u, exp |-> e, from |-> sessions[z].jti]
           c == Cardinality(tokens)
<1>3. t.jti = NextJti /\ t.from = sessions[z].jti /\ t.exp \in Nat /\ tokens' = tokens \cup {t}
  BY <1>2
<1> HIDE DEF t
<1>4. IsFiniteSet(tokens') /\ Cardinality(tokens') = c + 1 /\ c \in Nat /\ NextJti = c + 1
  BY ONLY <1>1, <1>3, FreshId
<1> HIDE DEF c
<1>5. \A s \in DOMAIN sessions : sessions[s] \in Session
  BY <1>1
<1>6. /\ sessions' \in Seq(Session) /\ DOMAIN sessions' = DOMAIN sessions
      /\ sessions'[z].jti = c + 1 /\ sessions'[z].expires = e
      /\ \A s \in DOMAIN sessions : sessions'[s].created = sessions[s].created
      /\ \A s \in DOMAIN sessions : s # z => sessions'[s] = sessions[s]
  <2> DEFINE row == [sessions[z] EXCEPT !.jti = NextJti, !.expires = e]
  <2>1. row \in Session /\ row.jti = NextJti /\ row.expires = e /\ row.created = sessions[z].created
    <3>1. sessions[z] \in Session /\ NextJti \in Nat
      BY <1>4, <1>5
    <3> QED  BY ONLY <3>1, e \in Nat DEF Session
  <2>2. sessions' = [sessions EXCEPT ![z] = row]
    BY <1>2, <1>5 DEF Session
  <2> HIDE DEF row
  <2>3. /\ sessions' \in Seq(Session) /\ DOMAIN sessions' = DOMAIN sessions /\ sessions'[z] = row
        /\ \A s \in DOMAIN sessions : s # z => sessions'[s] = sessions[s]
    BY <1>1, <2>1, <2>2
  <2> QED  BY <1>4, <2>1, <2>3
<1>7. /\ \A x \in tokens : x.jti \in 1..c /\ x.from \in 0..c /\ x.exp \in Nat
      /\ \A s \in DOMAIN sessions : sessions[s].jti \in 1..c
      /\ \A x \in tokens, s \in DOMAIN sessions : x.from # sessions[s].jti
  BY <1>1 DEF Issued, c
<1>8. \A s, y \in DOMAIN sessions : sessions[s].jti = sessions[y].jti => s = y
  BY <1>1 DEF SessionsSound
<1>9. Issued'
  <2>1. \A x \in tokens' : x.jti \in 1..(c+1) /\ x.from \in 0..(c+1) /\ x.exp \in Nat
    BY <1>3, <1>4, <1>7
  <2>2. \A s \in DOMAIN sessions' : sessions'[s].jti \in 1..(c+1)
    BY <1>4, <1>6, <1>7
  <2>3. ASSUME NEW x \in tokens', NEW s \in DOMAIN sessions' PROVE x.from # sessions'[s].jti
    <3>1. CASE s = z
      BY <1>3, <1>4, <1>6, <1>7, <3>1
    <3>2. CASE s # z
      BY <1>3, <1>6, <1>7, <1>8, <3>2
    <3> QED  BY <3>1, <3>2
  <2> QED  BY <1>4, <2>1, <2>2, <2>3 DEF Issued
<1>10. SessionsSound'
  <2>1. ASSUME NEW x \in tokens', NEW y \in tokens', x.from = y.from, x.from # None PROVE x = y
    BY <1>1, <1>3, <1>7, <2>1 DEF SessionsSound
  <2>2. ASSUME NEW s \in DOMAIN sessions', NEW y \in DOMAIN sessions', sessions'[s].jti = sessions'[y].jti
        PROVE  s = y
    BY <1>4, <1>6, <1>7, <1>8, <2>2
  <2>3. ASSUME NEW s \in DOMAIN sessions'
        PROVE  sessions'[s].expires <= sessions'[s].created + (IF Ttl > MaxSession THEN Ttl ELSE MaxSession)
    <3>1. CASE s = z
      <4>1. sessions[z].created \in Nat
        BY <1>5 DEF Session
      <4>2. sessions'[s].expires = e /\ sessions'[s].created = sessions[z].created
        BY <1>6, <3>1
      <4>3. e <= sessions[z].created + MaxSession
        BY <1>2
      <4> QED  BY <4>1, <4>2, <4>3, LimitsAssumption
    <3>2. CASE s # z
      BY <1>1, <1>6, <3>2 DEF SessionsSound
    <3> QED  BY <3>1, <3>2
  <2> QED  BY <2>1, <2>2, <2>3 DEF SessionsSound
<1> QED  BY <1>3, <1>4, <1>6, <1>9, <1>10 DEF Grown

LEMMA SessionsKept ==
  ASSUME AccessInv, NEW r \in Request, Step(r)
  PROVE  sessions' \in Seq(Session) /\ IsFiniteSet(tokens') /\ Issued' /\ SessionsSound' /\ Grown
<1>1. CASE sessions' = sessions /\ tokens' = tokens
  BY <1>1 DEF AccessInv, TypeOK, Issued, SessionsSound, Grown
<1> QED  BY <1>1, SessionsStep, RevokedKeeps, OpenedKeeps, RotatedKeeps
-----------------------------------------------------------------------------
(* What the steps do to the requests.                                      *)

\* One request goes on; what the others remember stays true.
LEMMA RequestChanged ==
  ASSUME AccessInv, NEW r \in Request, NEW q, req' = [req EXCEPT ![r] = q],
         RequestOK(q, DOMAIN users', sessions', tokens'),
         DOMAIN users \subseteq DOMAIN users', Grown
  PROVE  RequestsOK' /\ DOMAIN req' = Request /\ req' = [x \in Request |-> req'[x]]
<1>1. DOMAIN req = Request /\ req = [x \in Request |-> req[x]] /\ RequestsOK
  BY DEF AccessInv, TypeOK
<1>2. ASSUME NEW x \in Request PROVE RequestOK(req'[x], DOMAIN users', sessions', tokens')
  <2>1. CASE x = r
    BY <1>1, <2>1
  <2>2. CASE x # r
    <3>1. req'[x] = req[x] /\ RequestOK(req[x], DOMAIN users, sessions, tokens)
      BY <1>1, <2>2 DEF RequestsOK
    <3>2. RequestOK(req[x], DOMAIN users', sessions', tokens')
      BY <3>1, StillOK DEF Grown
    <3> QED  BY <3>1, <3>2
  <2> QED  BY <2>1, <2>2
<1> QED  BY <1>1, <1>2 DEF RequestsOK

LEMMA RequestsStep ==
  ASSUME AccessInv, NEW r \in Request, Step(r)
  PROVE  \E q : /\ req' = [req EXCEPT ![r] = q]
                /\ RequestOK(q, DOMAIN users, sessions, tokens)
<1> DEFINE p == req[r]
           OK(q) == RequestOK(q, DOMAIN users, sessions, tokens)
<1>1. /\ OK(p) /\ OK(Idle) /\ users \in Seq(User) /\ sessions \in Seq(Session) /\ now \in Nat \ {0}
  BY DEF AccessInv, TypeOK, RequestsOK, RequestOK
<1> HIDE DEF p
<1>9. /\ \A u \in DOMAIN users : users[u] \in User
      /\ \A s \in DOMAIN sessions : sessions[s] \in Session
  BY <1>1
<1>2. CASE StartLogin(r)
  <2>1. PICK name \in {users[u].name : u \in DOMAIN users}, w \in 1..2 :
          RateLimited([slot |-> r, then |-> [op |-> "login", stage |-> "find", name |-> name, w |-> w]])
    BY <1>2 DEF StartLogin
  <2> DEFINE q == [op |-> "login", stage |-> "find", name |-> name, w |-> w]
  <2>2. name \in Name
    BY <1>9 DEF User
  <2>3. q \in Finding
    BY <2>2 DEF Finding
  <2>4. OK(q)
    BY <2>3 DEF RequestOK
  <2>5. req' = [req EXCEPT ![r] = q] \/ req' = [req EXCEPT ![r] = Idle]
    BY <2>1 DEF RateLimited
  <2> HIDE DEF q, OK
  <2> QED  BY <1>1, <2>4, <2>5 DEF OK
<1>3. CASE FindUser(r)
  <2> DEFINE found == {u \in FindByUsername(p.name, "here") : users[u].active /\ users[u].locked <= now}
             u == CHOOSE x \in found : TRUE
             q == [op |-> "login", stage |-> "verify", w |-> p.w, user |-> u,
                   password |-> users[u].password, fails |-> users[u].fails]
  <2>1. p \in Finding
    BY <1>1, <1>3, Stages DEF FindUser, p
  <2>2. CASE found = {}
    BY <1>1, <1>3, <2>2 DEF FindUser, Answer, p
  <2>3. CASE found # {}
    <3>1. u \in DOMAIN users
      BY <2>3 DEF FindByUsername
    <3>2. req' = [req EXCEPT ![r] = q]
      BY <1>3, <2>3 DEF FindUser, Proceed, p
    <3>3. p.w \in 1..2
      BY <2>1 DEF Finding
    <3> HIDE DEF u
    <3>4. users[u].password \in 1..2 /\ users[u].fails \in Nat
      BY <1>9, <3>1 DEF User
    <3>5. q \in Verifying(DOMAIN users)
      BY <3>1, <3>3, <3>4 DEF Verifying
    <3> QED  BY <3>2, <3>5 DEF RequestOK
  <2> QED  BY <2>2, <2>3
<1>4. CASE InvalidPassword(r)
  <2> DEFINE q == [op |-> "login", stage |-> "lock", user |-> p.user, until |-> now + LockTime]
  <2>1. p.user \in DOMAIN users
    BY <1>1, <1>4, Stages DEF InvalidPassword, p, Verifying
  <2>2. q \in Locking(DOMAIN users)
    BY <1>1, <2>1, LimitsAssumption DEF Locking
  <2>3. OK(q)
    BY <2>2 DEF RequestOK
  <2>4. req' = [req EXCEPT ![r] = q] \/ req' = [req EXCEPT ![r] = Idle]
    BY <1>4 DEF InvalidPassword, Proceed, Answer, p
  <2> HIDE DEF q, OK
  <2> QED  BY <1>1, <2>3, <2>4 DEF OK
<1>5. CASE Authenticate(r)
  <2>1. PICK t \in tokens, c \in Commands :
          req' = [req EXCEPT ![r] = [op |-> c.op, on |-> c.on, stage |-> "principal", token |-> t]]
    BY <1>5 DEF Authenticate, Proceed
  <2> DEFINE q == [op |-> c.op, on |-> c.on, stage |-> "principal", token |-> t]
  <2>2. /\ c.op \in {"logout", "refresh", "create", "role", "reset", "deactivate"}
        /\ c.op = "create" => c.on \in NewAccount
    BY DEF Commands
  <2>3. /\ q.op = c.op /\ q.on = c.on /\ q.stage = "principal" /\ q.token = t
        /\ q = [op |-> q.op, on |-> q.on, stage |-> q.stage, token |-> q.token]
    OBVIOUS
  <2>4. req' = [req EXCEPT ![r] = q]
    BY <2>1
  <2> HIDE DEF q
  <2>5. Commanding(q, tokens)
    BY <2>2, <2>3 DEF Commanding
  <2> QED  BY <2>4, <2>5 DEF RequestOK
<1>6. CASE Authorize(r) \/ LookUpNewUser(r) \/ ValidateSession(r)
  <2>1. Commanding(p, tokens)
    BY <1>1, <1>6, Stages DEF Authorize, LookUpNewUser, ValidateSession, Handles, p, Idle
  <2>2. \/ req' = [req EXCEPT ![r] = [p EXCEPT !.stage = "handle"]]
        \/ req' = [req EXCEPT ![r] = [p EXCEPT !.stage = "insert"]]
        \/ req' = [req EXCEPT ![r] = [p EXCEPT !.stage = "user"]]
        \/ req' = [req EXCEPT ![r] = Idle]
    BY <1>6 DEF Authorize, LookUpNewUser, ValidateSession, Proceed, Answer, p
  <2>3. ASSUME NEW s \in {"handle", "user", "insert"} PROVE Commanding([p EXCEPT !.stage = s], tokens)
    <3> DEFINE q == [p EXCEPT !.stage = s]
    <3>1. /\ q.op = p.op /\ q.on = p.on /\ q.stage = s /\ q.token = p.token
          /\ q = [op |-> q.op, on |-> q.on, stage |-> q.stage, token |-> q.token]
      BY <2>1 DEF Commanding
    <3> HIDE DEF q
    <3>2. Commanding(q, tokens)
      BY <2>1, <3>1 DEF Commanding
    <3> QED  BY <3>2 DEF q
  <2>4. /\ OK([p EXCEPT !.stage = "handle"]) /\ OK([p EXCEPT !.stage = "insert"])
        /\ OK([p EXCEPT !.stage = "user"])
    BY <2>3 DEF RequestOK
  <2> HIDE DEF OK
  <2> QED  BY <1>1, <2>2, <2>4 DEF OK
<1>7. CASE FindRefreshUser(r)
  <2> DEFINE q == [op |-> "refresh", stage |-> "session", token |-> p.token, at |-> now]
  <2>1. p # Idle /\ p.stage = "user"
    BY <1>7 DEF FindRefreshUser, p, Idle
  <2>2. Commanding(p, tokens)
    BY <1>1, <2>1, Stages
  <2>3. q \in Reading(tokens)
    BY <1>1, <2>2 DEF Commanding, Reading
  <2>4. OK(q)
    BY <2>3 DEF RequestOK
  <2>5. req' = [req EXCEPT ![r] = q] \/ req' = [req EXCEPT ![r] = Idle]
    BY <1>7 DEF FindRefreshUser, Proceed, Answer, p
  <2> HIDE DEF q, OK
  <2> QED  BY <1>1, <2>4, <2>5 DEF OK
<1>10. CASE CalculateRefreshExpiry(r)
  <2> DEFINE found == {x \in FindByJwtId(p.token.jti) : RefreshExpiry(x, p.at) > p.at}
             s == CHOOSE x \in found : TRUE
             q == [op |-> "refresh", stage |-> "rotate", token |-> p.token, session |-> s,
                   at |-> p.at, exp |-> RefreshExpiry(s, p.at)]
  <2>1. p \in Reading(tokens)
    BY <1>1, <1>10, Stages DEF CalculateRefreshExpiry, p
  <2>2. p.token \in tokens /\ p.at \in Nat
    BY <2>1 DEF Reading
  <2>3. \/ req' = [req EXCEPT ![r] = q] /\ found # {}
        \/ req' = [req EXCEPT ![r] = Idle]
    BY <1>10 DEF CalculateRefreshExpiry, Proceed, Answer, p
  <2>4. CASE found # {}
    <3>1. s \in DOMAIN sessions
      BY <2>4 DEF FindByJwtId
    <3> HIDE DEF s
    <3>2. sessions[s].created \in Nat
      BY <1>9, <3>1 DEF Session
    <3>3. RefreshExpiry(s, p.at) \in Nat /\ RefreshExpiry(s, p.at) <= sessions[s].created + MaxSession
      BY <2>2, <3>2, LimitsAssumption DEF RefreshExpiry
    <3>4. q \in Rotating(sessions, tokens)
      BY <2>2, <3>1, <3>3 DEF Rotating
    <3>5. q.session = s /\ q.exp = RefreshExpiry(s, p.at)
      OBVIOUS
    <3> HIDE DEF q
    <3>6. OK(q)
      BY <3>3, <3>4, <3>5 DEF RequestOK
    <3> HIDE DEF OK, found
    <3> QED  BY <1>1, <2>3, <3>6 DEF OK
  <2>5. CASE found = {}
    BY <1>1, <2>3, <2>5
  <2> QED  BY <2>4, <2>5
<1>8. CASE Lock(r) \/ SuccessfulLogin(r) \/ Logout(r) \/ RotateJwtId(r) \/ InsertUser(r)
           \/ UpdateRole(r) \/ ResetPassword(r) \/ Deactivate(r)
  <2>1. req' = [req EXCEPT ![r] = Idle]
    BY <1>8 DEF Lock, SuccessfulLogin, Logout, RotateJwtId, InsertUser, UpdateRole, ResetPassword,
                Deactivate, Changes, Answer
  <2> QED  BY <1>1, <2>1
<1> QED  BY <1>2, <1>3, <1>4, <1>5, <1>6, <1>7, <1>8, <1>10 DEF Step
-----------------------------------------------------------------------------
(* The lock.                                                               *)

\* An account whose wrong passwords reached the limit is locked or being locked.
LockedOr(u) ==
  users[u].misses >= LockAttempts =>
    \/ users[u].locked # None
    \/ \E r \in Request : req[r].op = "login" /\ req[r].stage = "lock" /\ req[r].user = u

\* Whatever leaves the counters alone and is not the locking request.
LEMMA LocksUntouched ==
  ASSUME NEW u \in DOMAIN users, LockedOr(u), NEW r \in Request,
         users'[u].misses = users[u].misses, users'[u].locked = users[u].locked,
         \A x \in Request : x # r => req'[x] = req[x],
         ~(req[r].op = "login" /\ req[r].stage = "lock" /\ req[r].user = u)
  PROVE  LockedOr(u)'
BY DEF LockedOr

LEMMA LocksKept ==
  ASSUME AccessInv, NEW r \in Request, Step(r), users' \in Seq(User)
  PROVE  LocksInTime'
<1> DEFINE q == req[r]
<1>1. /\ users \in Seq(User) /\ RequestOK(q, DOMAIN users, sessions, tokens) /\ Counted
      /\ now \in Nat \ {0} /\ \A u \in DOMAIN users : LockedOr(u)
      /\ DOMAIN req = Request
  BY DEF AccessInv, TypeOK, RequestsOK, LocksInTime, LockedOr
<1>2. \A u \in DOMAIN users : users[u] \in User
  BY <1>1
<1>3. \A x \in Request : x # r => req'[x] = req[x]
  <2>1. PICK p : req' = [req EXCEPT ![r] = p]
    BY RequestsStep
  <2> QED  BY <1>1, <2>1
<1> HIDE DEF q
<1>4. SUFFICES ASSUME NEW u \in DOMAIN users' PROVE LockedOr(u)'
  BY DEF LocksInTime, LockedOr
<1>5. CASE InvalidPassword(r)
  <2>1. q \in Verifying(DOMAIN users) /\ q.stage = "verify"
    BY <1>1, <1>5, Stages DEF InvalidPassword, q
  <2> DEFINE v == q.user
             row == [users[v] EXCEPT !.fails = @ + 1, !.misses = @ + 1]
  <2>2. v \in DOMAIN users
    BY <2>1 DEF Verifying
  <2>3. users' = [users EXCEPT ![v] = row]
    BY <1>1, <1>5, <2>2, AsRow DEF InvalidPassword, IncrementFailedLoginCount, q
  <2>4. row.fails = row.misses
    BY <1>1, <1>2, <2>2 DEF User, Counted
  <2>5. /\ DOMAIN users' = DOMAIN users /\ users'[v] = row
        /\ \A x \in DOMAIN users : x # v => users'[x] = users[x]
    BY <1>1, <2>2, <2>3
  <2>6. CASE u = v
    <3>1. row.misses >= LockAttempts =>
            req' = [req EXCEPT ![r] = [op |-> "login", stage |-> "lock", user |-> v,
                                       until |-> now + LockTime]]
      BY <1>5, <2>4, <2>5 DEF InvalidPassword, Proceed, q
    <3>2. row.misses >= LockAttempts =>
            req'[r].op = "login" /\ req'[r].stage = "lock" /\ req'[r].user = v
      BY <1>1, <3>1
    <3> HIDE DEF row, v
    <3> QED  BY <2>5, <2>6, <3>2 DEF LockedOr
  <2>7. CASE u # v
    BY <1>1, <1>3, <2>1, <2>5, <2>7, LocksUntouched DEF q
  <2> QED  BY <2>6, <2>7
<1>6. CASE Lock(r)
  <2>1. q \in Locking(DOMAIN users)
    BY <1>1, <1>6, Stages DEF Lock, q
  <2> DEFINE v == q.user
             row == [users[v] EXCEPT !.locked = q.until]
  <2>2. v \in DOMAIN users /\ q.until \in Nat \ {0}
    BY <2>1 DEF Locking
  <2>3. users' = [users EXCEPT ![v] = row]
    BY <1>1, <1>6, <2>2, AsRow DEF Lock, LockUserUntil, q
  <2>4. row.locked # None
    BY <1>2, <2>2 DEF User, None
  <2>5. /\ DOMAIN users' = DOMAIN users /\ users'[v] = row
        /\ \A x \in DOMAIN users : x # v => users'[x] = users[x]
    BY <1>1, <2>2, <2>3
  <2> HIDE DEF row
  <2>6. CASE u = v
    BY <2>4, <2>5, <2>6 DEF LockedOr
  <2>7. CASE u # v
    BY <1>1, <1>3, <2>5, <2>7, LocksUntouched DEF q
  <2> QED  BY <2>6, <2>7
<1>7. CASE SuccessfulLogin(r)
  <2>1. q \in Verifying(DOMAIN users) /\ q.stage = "verify"
    BY <1>1, <1>7, Stages DEF SuccessfulLogin, q
  <2> DEFINE v == q.user
             row == [users[v] EXCEPT !.fails = 0, !.locked = None, !.misses = 0]
  <2>2. v \in DOMAIN users
    BY <2>1 DEF Verifying
  <2>3. users' = [users EXCEPT ![v] = row]
    BY <1>1, <1>7, <2>2, AsRow DEF SuccessfulLogin, RecordSuccessfulLogin, q
  <2>4. row.misses = 0
    BY <1>2, <2>2 DEF User
  <2>5. /\ DOMAIN users' = DOMAIN users /\ users'[v] = row
        /\ \A x \in DOMAIN users : x # v => users'[x] = users[x]
    BY <1>1, <2>2, <2>3
  <2> HIDE DEF row
  <2>6. CASE u = v
    BY <2>4, <2>5, <2>6, LimitsAssumption DEF LockedOr
  <2>7. CASE u # v
    BY <1>1, <1>3, <2>1, <2>5, <2>7, LocksUntouched DEF q
  <2> QED  BY <2>6, <2>7
<1>8. CASE ResetPassword(r) /\ users' # users
  <2> DEFINE v == q.on
             row == [users[v] EXCEPT !.password = 2, !.fails = 0, !.locked = None, !.misses = 0]
  <2>1. v \in DOMAIN users /\ Handles(r, "reset")
    BY <1>8 DEF ResetPassword, Changes, FindByIdAndOrg, q
  <2>2. users' = [users EXCEPT ![v] = row]
    BY <1>1, <1>8, <2>1, AsRow DEF ResetPassword, Changes, q
  <2>3. row.misses = 0
    BY <1>2, <2>1 DEF User
  <2>4. /\ DOMAIN users' = DOMAIN users /\ users'[v] = row
        /\ \A x \in DOMAIN users : x # v => users'[x] = users[x]
    BY <1>1, <2>1, <2>2
  <2> HIDE DEF row
  <2>5. CASE u = v
    BY <2>3, <2>4, <2>5, LimitsAssumption DEF LockedOr
  <2>6. CASE u # v
    BY <1>1, <1>3, <2>1, <2>4, <2>6, LocksUntouched DEF Handles
  <2> QED  BY <2>5, <2>6
<1>9. CASE /\ StartLogin(r) \/ FindUser(r) \/ Authenticate(r) \/ Authorize(r) \/ Logout(r)
              \/ ValidateSession(r) \/ FindRefreshUser(r) \/ CalculateRefreshExpiry(r)
              \/ RotateJwtId(r) \/ LookUpNewUser(r) \/ InsertUser(r)
              \/ UpdateRole(r) \/ ResetPassword(r) \/ Deactivate(r)
           /\ ~(ResetPassword(r) /\ users' # users)
  <2>1. ~(req[r].op = "login" /\ req[r].stage = "lock")
    <3>1. CASE StartLogin(r) \/ Authenticate(r)
      <4>1. req[r] = Idle
        BY <3>1 DEF StartLogin, Authenticate
      <4> QED  BY <4>1 DEF Idle
    <3>2. CASE \/ FindUser(r) \/ Authorize(r) \/ FindRefreshUser(r) \/ CalculateRefreshExpiry(r)
               \/ RotateJwtId(r) \/ InsertUser(r)
      <4>1. req[r].stage \in {"find", "principal", "user", "session", "rotate", "insert"}
        BY <3>2 DEF FindUser, Authorize, FindRefreshUser, CalculateRefreshExpiry, RotateJwtId,
                    InsertUser
      <4> QED  BY <4>1
    <3>3. CASE \/ Logout(r) \/ ValidateSession(r) \/ LookUpNewUser(r) \/ UpdateRole(r)
               \/ ResetPassword(r) \/ Deactivate(r)
      <4>1. req[r].stage = "handle"
        BY <3>3 DEF Logout, ValidateSession, LookUpNewUser, UpdateRole, ResetPassword, Deactivate,
                    Changes, Handles
      <4> QED  BY <4>1
    <3> QED  BY <1>9, <3>1, <3>2, <3>3
  <2>2. CASE users' = users
    BY <1>1, <1>3, <2>1, <2>2, LocksUntouched
  <2>3. CASE UpdateRole(r) /\ users' # users
    <3> DEFINE v == q.on
    <3>1. v \in DOMAIN users
      BY <2>3 DEF UpdateRole, Changes, FindByIdAndOrg, q
    <3>2. users' = [users EXCEPT ![v].role = "admin"]
      BY <2>3 DEF UpdateRole, Changes, q
    <3>3. /\ DOMAIN users' = DOMAIN users
          /\ users'[u].misses = users[u].misses /\ users'[u].locked = users[u].locked
      BY <1>1, <1>2, <3>1, <3>2 DEF User
    <3> QED  BY <1>1, <1>3, <2>1, <3>3, LocksUntouched
  <2>4. CASE Deactivate(r) /\ users' # users
    <3> DEFINE v == q.on
    <3>1. v \in DOMAIN users
      BY <2>4 DEF Deactivate, Changes, FindByIdAndOrg, q
    <3>2. users' = [users EXCEPT ![v].active = FALSE]
      BY <2>4 DEF Deactivate, Changes, q
    <3>3. /\ DOMAIN users' = DOMAIN users
          /\ users'[u].misses = users[u].misses /\ users'[u].locked = users[u].locked
      BY <1>1, <1>2, <3>1, <3>2 DEF User
    <3> QED  BY <1>1, <1>3, <2>1, <3>3, LocksUntouched
  <2>5. CASE InsertUser(r) /\ users' # users
    <3> DEFINE a == req[r].on
               row == Row(a.name, a.mail, "soc_analyst", "here")
    <3>1. users' = Append(users, row)
      BY <2>5 DEF InsertUser, CreateUser
    <3>2. row.misses = 0
      BY DEF Row
    <3> HIDE DEF row
    <3>3. (u \in DOMAIN users /\ users'[u] = users[u]) \/ users'[u] = row
      BY <1>1, <3>1
    <3>4. CASE users'[u] = row
      BY <3>2, <3>4, LimitsAssumption DEF LockedOr
    <3>5. CASE u \in DOMAIN users /\ users'[u] = users[u]
      BY <1>1, <1>3, <2>1, <3>5, LocksUntouched
    <3> QED  BY <3>3, <3>4, <3>5
  <2>6. users' = users \/ UpdateRole(r) \/ Deactivate(r) \/ InsertUser(r)
    BY <1>9 DEF StartLogin, FindUser, Authenticate, Authorize, Logout, ValidateSession,
                FindRefreshUser, CalculateRefreshExpiry, RotateJwtId, LookUpNewUser
  <2> QED  BY <2>2, <2>3, <2>4, <2>5, <2>6
<1> QED  BY <1>5, <1>6, <1>7, <1>8, <1>9 DEF Step
-----------------------------------------------------------------------------
LEMMA ClockKept == AccessInv /\ (Tick \/ UNCHANGED vars) => AccessInv'
<1> SUFFICES ASSUME AccessInv, Tick \/ UNCHANGED vars PROVE AccessInv'
  OBVIOUS
<1>1. UNCHANGED <<users, sessions, tokens, req>> /\ now' \in Nat \ {0}
  BY DEF Tick, vars, AccessInv, TypeOK
<1> QED  BY <1>1 DEF AccessInv, TypeOK, RequestsOK, Issued, Counted, UniqueAccounts, SessionsSound,
                     LocksInTime

LEMMA StepKept ==
  ASSUME AccessInv, NEW r \in Request, Step(r)
  PROVE  AccessInv'
<1>1. /\ users' \in Seq(User) /\ DOMAIN users \subseteq DOMAIN users' /\ Counted' /\ UniqueAccounts'
  BY UsersStep, UsersKept
<1>2. sessions' \in Seq(Session) /\ IsFiniteSet(tokens') /\ Issued' /\ SessionsSound' /\ Grown
  BY SessionsKept
<1>3. RequestsOK' /\ DOMAIN req' = Request /\ req' = [x \in Request |-> req'[x]]
  <2>1. PICK q : /\ req' = [req EXCEPT ![r] = q]
                 /\ RequestOK(q, DOMAIN users, sessions, tokens)
    BY RequestsStep
  <2>2. RequestOK(q, DOMAIN users', sessions', tokens')
    BY <1>1, <1>2, <2>1, StillOK DEF Grown
  <2> QED  BY <1>1, <1>2, <2>1, <2>2, RequestChanged
<1>4. LocksInTime'
  BY <1>1, LocksKept
<1>5. now' = now
  BY DEF Step, StartLogin, FindUser, InvalidPassword, Lock, SuccessfulLogin, Authenticate, Authorize,
         Logout, ValidateSession, FindRefreshUser, CalculateRefreshExpiry, RotateJwtId, LookUpNewUser,
         InsertUser, UpdateRole, ResetPassword, Deactivate, Changes
<1> QED  BY <1>1, <1>2, <1>3, <1>4, <1>5 DEF AccessInv, TypeOK

\* The inductive invariant holds in every reachable state.
THEOREM AccessSound == Spec => []AccessInv
<1>1. Init => AccessInv
  BY Initially
<1>2. AccessInv /\ [Next]_vars => AccessInv'
  BY ClockKept, StepKept DEF Next, Step
<1> QED  BY <1>1, <1>2, PTL DEF Spec

\* However many administrators look before they insert, a name or an address
\* names one account of an organization.
THEOREM AccountsAlwaysUnique == Spec => []UniqueAccounts
BY AccessSound, PTL DEF AccessInv

\* However many requests present a token, it is exchanged at most once, a session
\* has one current token, and it ends in time.
THEOREM SessionsAlwaysSound == Spec => []SessionsSound
BY AccessSound, PTL DEF AccessInv

\* However the wrong passwords interleave, the account is locked in time.
THEOREM LocksAlwaysInTime == Spec => []LocksInTime
BY AccessSound, PTL DEF AccessInv
=============================================================================
