-------------------------------- MODULE Auth --------------------------------
(***************************************************************************)
(* Accounts and sessions: src/api/auth.py behind the login, logout,        *)
(* password and session-checked endpoints, run by several API replicas     *)
(* over the tables users and sessions.  A request is a process; each of    *)
(* its statements is a step of its own, and it may end between any two of  *)
(* them, when the statement fails or the replica dies.                     *)
(*                                                                         *)
(* A row of users stands for its password: two hashes with one salt are    *)
(* equal when the passwords are.  A definition D_X is D with the slip X in *)
(* it, for the mutation tests.                                             *)
(***************************************************************************)
EXTENDS Naturals

CONSTANTS
    None,
    Replica,          \* API pods
    Request,          \* requests that may be under way at once
    User, DefaultUser,
    Password, DefaultPassword,
    Short,            \* passwords below MIN_PASSWORD_LEN
    SessionTTL,       \* SESSION_TTL
    MaxTokens,        \* bound on the sessions created
    MaxTime           \* bound on the clock

ASSUME AccountAssumption ==
    /\ DefaultUser \in User
    /\ DefaultPassword \in Password
    /\ Short \subseteq Password
    /\ None \notin Password \cup User
ASSUME BoundAssumption == SessionTTL \in Nat /\ MaxTokens \in Nat /\ MaxTime \in Nat

Token == 1 .. MaxTokens
SessionRow == [username : User, expires_at : Nat]

ASSUME NoneAssumption == None \notin SessionRow

VARIABLES
    users,     \* user -> password, None without a row
    sessions,  \* token -> row, None without one
    issued,    \* tokens drawn so far
    replica,   \* replica -> how far its startup is
    request,   \* request -> where it stands
    revoked,   \* history: sessions an acknowledged password change has ended
    now        \* clock

vars == <<users, sessions, issued, replica, request, revoked, now>>

-----------------------------------------------------------------------------
\* A request between two of its statements: the step it takes next, the user
\* and token it works for, the passwords it was sent, and, once it changed the
\* password, the user's sessions at that time.
Pending == [step : {"create", "verify", "update", "delete", "expire"},
            at : Replica, user : User, token : Token \cup {None},
            current : Password, new : Password, older : SUBSET Token]

\* The request goes on to a further statement, or is answered.
Continue(q, p) == request' = [request EXCEPT ![q] = p]
Answer(q) == request' = [request EXCEPT ![q] = None]

At(q, step) == request[q] # None /\ request[q].step = step

Expired(s) == s.expires_at < now
SessionsOf(u) == {t \in Token : sessions[t] # None /\ sessions[t].username = u}

Init ==
    /\ users = [u \in User |-> None]
    /\ sessions = [t \in Token |-> None]
    /\ issued = 0
    /\ replica = [r \in Replica |-> "down"]
    /\ request = [q \in Request |-> None]
    /\ revoked = {}
    /\ now = 0

-----------------------------------------------------------------------------
\* ensure_seed: SELECT count(*) FROM users
CountUsers_Serve(r) ==  \* serving starts before the seed is inserted
    /\ replica[r] = "down"
    /\ replica' = [replica EXCEPT ![r] = "up"]
    /\ UNCHANGED <<users, sessions, issued, request, revoked, now>>
CountUsers(r) ==
    /\ replica[r] = "down"
    /\ replica' = [replica EXCEPT
          ![r] = IF \E u \in User : users[u] # None THEN "up" ELSE "seeding"]
    /\ UNCHANGED <<users, sessions, issued, request, revoked, now>>

\* INSERT INTO users ... ON CONFLICT DO NOTHING; then the replica serves.
Seed_DoUpdate(r) ==  \* ON CONFLICT DO UPDATE
    /\ replica[r] = "seeding"
    /\ users' = [users EXCEPT ![DefaultUser] = DefaultPassword]
    /\ replica' = [replica EXCEPT ![r] = "up"]
    /\ UNCHANGED <<sessions, issued, request, revoked, now>>
Seed(r) ==
    /\ replica[r] = "seeding"
    /\ users' = [users EXCEPT ![DefaultUser] = IF @ = None THEN DefaultPassword ELSE @]
    /\ replica' = [replica EXCEPT ![r] = "up"]
    /\ UNCHANGED <<sessions, issued, request, revoked, now>>

\* A replica dies, and with it the requests it was working on.
Die(r) ==
    /\ replica[r] # "down"
    /\ replica' = [replica EXCEPT ![r] = "down"]
    /\ request' = [q \in Request |->
          IF request[q] # None /\ request[q].at = r THEN None ELSE request[q]]
    /\ UNCHANGED <<users, sessions, issued, revoked, now>>

-----------------------------------------------------------------------------
Arrives(q, r) == request[q] = None /\ replica[r] = "up"

\* login: verify_user.  A wrong password or an unknown user is answered 401.
Login(q, r, u, password) ==
    /\ Arrives(q, r)
    /\ users[u] = password
    /\ Continue(q, [step |-> "create", at |-> r, user |-> u, token |-> None,
                    current |-> password, new |-> password, older |-> {}])
    /\ UNCHANGED <<users, sessions, issued, replica, revoked, now>>

\* create_session, and the answer with the token.
CreateSession_NoExpiry(q) ==  \* expires_at left NULL
    /\ At(q, "create")
    /\ issued < MaxTokens
    /\ issued' = issued + 1
    /\ sessions' = [sessions EXCEPT
          ![issued + 1] = [username |-> request[q].user, expires_at |-> None]]
    /\ Answer(q)
    /\ UNCHANGED <<users, replica, revoked, now>>
CreateSession(q) ==
    /\ At(q, "create")
    /\ issued < MaxTokens
    /\ issued' = issued + 1
    /\ sessions' = [sessions EXCEPT
          ![issued + 1] = [username |-> request[q].user, expires_at |-> now + SessionTTL]]
    /\ Answer(q)
    /\ UNCHANGED <<users, replica, revoked, now>>

\* logout: delete_session without a look at the session.
Logout(t) ==
    /\ \E r \in Replica : replica[r] = "up"
    /\ sessions' = [sessions EXCEPT ![t] = None]
    /\ UNCHANGED <<users, issued, replica, request, revoked, now>>

\* verify_session of any endpoint finds an expired session: session_user is
\* about to delete it and answer 401.
FindExpired(q, r, t) ==
    /\ Arrives(q, r)
    /\ sessions[t] # None
    /\ Expired(sessions[t])
    /\ Continue(q, [step |-> "expire", at |-> r, user |-> sessions[t].username,
                    token |-> t, current |-> DefaultPassword,
                    new |-> DefaultPassword, older |-> {}])
    /\ UNCHANGED <<users, sessions, issued, replica, revoked, now>>

DeleteExpired_OfUser(q) ==  \* DELETE ... WHERE username = $1
    /\ At(q, "expire")
    /\ sessions' = [t \in Token |->
          IF t \in SessionsOf(request[q].user) THEN None ELSE sessions[t]]
    /\ Answer(q)
    /\ UNCHANGED <<users, issued, replica, revoked, now>>
DeleteExpired(q) ==
    /\ At(q, "expire")
    /\ sessions' = [sessions EXCEPT ![request[q].token] = None]
    /\ Answer(q)
    /\ UNCHANGED <<users, issued, replica, revoked, now>>

\* change-password: verify_session finds a live session.
ChangePassword(q, r, t, current, new) ==
    /\ Arrives(q, r)
    /\ sessions[t] # None
    /\ ~Expired(sessions[t])
    /\ Continue(q, [step |-> "verify", at |-> r, user |-> sessions[t].username,
                    token |-> t, current |-> current, new |-> new, older |-> {}])
    /\ UNCHANGED <<users, sessions, issued, replica, revoked, now>>

\* change_password: verify_user, 401 for a wrong current password, 400 for a
\* short new one.
VerifyCurrent(q) ==
    /\ At(q, "verify")
    /\ IF users[request[q].user] = request[q].current /\ request[q].new \notin Short
       THEN Continue(q, [request[q] EXCEPT !.step = "update"])
       ELSE Answer(q)
    /\ UNCHANGED <<users, sessions, issued, replica, revoked, now>>

\* UPDATE users
UpdatePassword(q) ==
    /\ At(q, "update")
    /\ users' = [users EXCEPT
          ![request[q].user] = IF @ = None THEN None ELSE request[q].new]
    /\ Continue(q, [request[q] EXCEPT !.step = "delete",
                                      !.older = SessionsOf(request[q].user)])
    /\ UNCHANGED <<sessions, issued, replica, revoked, now>>

\* DELETE FROM sessions WHERE username = $1, and the answer 200.
DeleteSessions_OwnToken(q) ==  \* WHERE token = $1
    /\ At(q, "delete")
    /\ sessions' = [sessions EXCEPT ![request[q].token] = None]
    /\ revoked' = revoked \cup request[q].older
    /\ Answer(q)
    /\ UNCHANGED <<users, issued, replica, now>>
DeleteSessions(q) ==
    /\ At(q, "delete")
    /\ sessions' = [t \in Token |->
          IF t \in SessionsOf(request[q].user) THEN None ELSE sessions[t]]
    /\ revoked' = revoked \cup request[q].older
    /\ Answer(q)
    /\ UNCHANGED <<users, issued, replica, now>>

\* The next statement of a request fails before it commits: 500.
Fail(q) ==
    /\ request[q] # None
    /\ Answer(q)
    /\ UNCHANGED <<users, sessions, issued, replica, revoked, now>>

Tick ==
    /\ now < MaxTime
    /\ now' = now + 1
    /\ UNCHANGED <<users, sessions, issued, replica, request, revoked>>

Next ==
    \/ \E r \in Replica : CountUsers(r) \/ Seed(r) \/ Die(r)
    \/ \E q \in Request, r \in Replica :
          \/ \E u \in User, p \in Password : Login(q, r, u, p)
          \/ \E t \in Token : FindExpired(q, r, t)
          \/ \E t \in Token, c, n \in Password : ChangePassword(q, r, t, c, n)
    \/ \E q \in Request :
          \/ CreateSession(q)
          \/ DeleteExpired(q)
          \/ VerifyCurrent(q)
          \/ UpdatePassword(q)
          \/ DeleteSessions(q)
          \/ Fail(q)
    \/ \E t \in Token : Logout(t)
    \/ Tick

Spec == Init /\ [][Next]_vars

-----------------------------------------------------------------------------
\* The type of the tables, of the replicas and of the requests under way.
TypeOK ==
    /\ users \in [User -> Password \cup {None}]
    /\ sessions \in [Token -> SessionRow \cup {None}]
    /\ issued \in 0 .. MaxTokens
    /\ replica \in [Replica -> {"down", "seeding", "up"}]
    /\ request \in [Request -> Pending \cup {None}]
    /\ revoked \subseteq Token
    /\ now \in 0 .. MaxTime

\* A replica that serves has an account to log in to, though replicas start
\* and die at any time and any of them may be the one that seeds it
\* (dependencies.py:13-20, auth.py:28-38).
ServingReplicaHasUser ==
    \A r \in Replica : replica[r] = "up" => users[DefaultUser] # None

\* A starting replica never sets back a password that was changed while it was
\* counting users: ON CONFLICT DO NOTHING (auth.py:31-38).
OnlyChangesReplacePasswords ==
    [][\A u \in User : users[u] # None /\ users'[u] # users[u] =>
          \E q \in Request : At(q, "update") /\ request[q].user = u
                             /\ users'[u] = request[q].new]_vars

\* "변경 시 기존 세션 전부 무효화" (auth.py:90): when a password change is
\* acknowledged, every session of its user that was there when the password
\* changed has ended, and none comes back.
AcknowledgedChangeEndsSessions ==
    \A t \in revoked : sessions[t] = None

\* A session ends by its logout, by a password change of its user or because it
\* expired: requests that find it expired end no session that is still good,
\* however late their DELETE (auth.py:61-77).
SessionEndsForAReason ==
    [][\A t \in Token : sessions[t] # None /\ sessions'[t] = None =>
          \/ Expired(sessions[t])
          \/ Logout(t)
          \/ \E q \in Request : At(q, "delete") /\ request[q].user = sessions[t].username]_vars

\* Every password but the seeded one has passed the length check of
\* change_password, with whatever the request was interleaved.
StoredPasswordsAreLong ==
    \A u \in User : users[u] \in Short => users[u] = DefaultPassword

-----------------------------------------------------------------------------
\* What a request still knows when its next statement runs, and what a starting
\* replica may conclude from a count: the rest of the inductive invariant.

\* The first account is the default one, so any account means it is there.
SeedComesFirst ==
    \A u \in User : users[u] # None => users[DefaultUser] # None

\* No token is drawn twice.
TokensAreFresh ==
    /\ \A t \in Token : sessions[t] # None => t <= issued
    /\ \A t \in revoked : t <= issued

\* A request about to write still holds what it checked: the new password is
\* long, the sessions it will end are its user's, the expired one has expired.
ChecksStillHold ==
    \A q \in Request :
        /\ At(q, "update") => request[q].new \notin Short
        /\ At(q, "delete") =>
              \A t \in request[q].older :
                 /\ t <= issued
                 /\ sessions[t] # None => sessions[t].username = request[q].user
        /\ At(q, "expire") =>
              /\ request[q].token \in 1 .. issued
              /\ LET s == sessions[request[q].token] IN s # None => Expired(s)

IInv ==
    /\ TypeOK
    /\ SeedComesFirst
    /\ TokensAreFresh
    /\ ChecksStillHold
    /\ ServingReplicaHasUser
    /\ AcknowledgedChangeEndsSessions
    /\ StoredPasswordsAreLong
=============================================================================
