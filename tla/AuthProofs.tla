----------------------------- MODULE AuthProofs -----------------------------
(***************************************************************************)
(* Proofs about Auth for any replicas, concurrent requests, users and      *)
(* passwords, and any bound on tokens and time.                            *)
(***************************************************************************)
EXTENDS Auth, TLAPS

\* A request under way that moves to another step stays well formed.
LEMMA PendingStep ==
    ASSUME NEW p \in Pending,
           NEW s \in {"create", "verify", "update", "delete", "expire"},
           NEW o \in SUBSET Token
    PROVE  /\ [p EXCEPT !.step = s] \in Pending
           /\ [p EXCEPT !.step = s].step = s
           /\ [p EXCEPT !.step = s].new = p.new
           /\ [p EXCEPT !.step = s, !.older = o] \in Pending
           /\ [p EXCEPT !.step = s, !.older = o].step = s
           /\ [p EXCEPT !.step = s, !.older = o].user = p.user
           /\ [p EXCEPT !.step = s, !.older = o].older = o
BY DEF Pending

LEMMA SessionsOfTokens == \A u : SessionsOf(u) \subseteq Token
BY DEF SessionsOf

-----------------------------------------------------------------------------
THEOREM TypeInit == Init => TypeOK
BY BoundAssumption DEF Init, TypeOK

LEMMA TypeStep == TypeOK /\ [Next]_vars => TypeOK'
<1> SUFFICES ASSUME TypeOK, [Next]_vars PROVE TypeOK'
  OBVIOUS
<1> USE DEF TypeOK
<1>0. ASSUME NEW q \in Request, Answer(q)
      PROVE  request' \in [Request -> Pending \cup {None}]
  BY <1>0 DEF Answer
<1>c. ASSUME NEW q \in Request, NEW p \in Pending, Continue(q, p)
      PROVE  request' \in [Request -> Pending \cup {None}]
  BY <1>c DEF Continue
<1>p. \A q \in Request : request[q] # None => request[q] \in Pending
  OBVIOUS
<1>1. ASSUME NEW r \in Replica, CountUsers(r) \/ Seed(r) PROVE TypeOK'
  <2>1. users' \in [User -> Password \cup {None}]
    BY <1>1, AccountAssumption DEF CountUsers, Seed
  <2>2. replica' \in [Replica -> {"down", "seeding", "up"}]
    BY <1>1 DEF CountUsers, Seed
  <2> QED
    BY <1>1, <2>1, <2>2 DEF CountUsers, Seed
<1>2. ASSUME NEW r \in Replica, Die(r) PROVE TypeOK'
  <2>1. replica' \in [Replica -> {"down", "seeding", "up"}]
    BY <1>2 DEF Die
  <2>2. request' \in [Request -> Pending \cup {None}]
    BY <1>2 DEF Die
  <2> QED
    BY <1>2, <2>1, <2>2 DEF Die
<1>3. ASSUME NEW q \in Request, NEW r \in Replica, NEW u \in User, NEW p \in Password,
             Login(q, r, u, p)
      PROVE  TypeOK'
  <2> DEFINE n == [step |-> "create", at |-> r, user |-> u, token |-> None,
                   current |-> p, new |-> p, older |-> {}]
  <2>1. n \in Pending
    BY DEF Pending
  <2> QED
    BY <1>3, <1>c, <2>1 DEF Login
<1>4. ASSUME NEW q \in Request, NEW r \in Replica, NEW t \in Token, FindExpired(q, r, t)
      PROVE  TypeOK'
  <2> DEFINE n == [step |-> "expire", at |-> r, user |-> sessions[t].username,
                   token |-> t, current |-> DefaultPassword,
                   new |-> DefaultPassword, older |-> {}]
  <2>1. sessions[t] \in SessionRow
    BY <1>4 DEF FindExpired
  <2>2. n \in Pending
    BY <2>1, AccountAssumption DEF Pending, SessionRow
  <2> QED
    BY <1>4, <1>c, <2>2 DEF FindExpired
<1>5. ASSUME NEW q \in Request, NEW r \in Replica, NEW t \in Token,
             NEW c \in Password, NEW w \in Password, ChangePassword(q, r, t, c, w)
      PROVE  TypeOK'
  <2> DEFINE n == [step |-> "verify", at |-> r, user |-> sessions[t].username,
                   token |-> t, current |-> c, new |-> w, older |-> {}]
  <2>1. sessions[t] \in SessionRow
    BY <1>5 DEF ChangePassword
  <2>2. n \in Pending
    BY <2>1 DEF Pending, SessionRow
  <2> QED
    BY <1>5, <1>c, <2>2 DEF ChangePassword
<1>6. ASSUME NEW q \in Request, CreateSession(q) PROVE TypeOK'
  <2>1. request[q] \in Pending
    BY <1>6, <1>p DEF CreateSession, At
  <2>2. [username |-> request[q].user, expires_at |-> now + SessionTTL] \in SessionRow
    BY <2>1, BoundAssumption DEF Pending, SessionRow
  <2>3. sessions' \in [Token -> SessionRow \cup {None}]
    BY <1>6, <2>2 DEF CreateSession
  <2>4. issued' \in 0 .. MaxTokens
    BY <1>6, BoundAssumption DEF CreateSession
  <2> QED
    BY <1>6, <1>0, <2>3, <2>4 DEF CreateSession
<1>7. ASSUME NEW q \in Request, DeleteExpired(q) PROVE TypeOK'
  BY <1>7, <1>0 DEF DeleteExpired
<1>8. ASSUME NEW q \in Request, VerifyCurrent(q) PROVE TypeOK'
  <2>1. request[q] \in Pending
    BY <1>8, <1>p DEF VerifyCurrent, At
  <2>2. [request[q] EXCEPT !.step = "update"] \in Pending
    BY <2>1, PendingStep
  <2> QED
    BY <1>8, <1>0, <1>c, <2>2 DEF VerifyCurrent
<1>9. ASSUME NEW q \in Request, UpdatePassword(q) PROVE TypeOK'
  <2>1. request[q] \in Pending
    BY <1>9, <1>p DEF UpdatePassword, At
  <2>2. [request[q] EXCEPT !.step = "delete", !.older = SessionsOf(request[q].user)] \in Pending
    BY ZenonT(40), <2>1, PendingStep, SessionsOfTokens
  <2>3. request[q].new \in Password
    BY <2>1 DEF Pending
  <2>4. users' \in [User -> Password \cup {None}]
    BY <1>9, <2>3 DEF UpdatePassword
  <2>5. request' \in [Request -> Pending \cup {None}]
    BY <1>9, <1>c, <2>2 DEF UpdatePassword
  <2> QED
    BY <1>9, <2>4, <2>5 DEF UpdatePassword
<1>10. ASSUME NEW q \in Request, DeleteSessions(q) PROVE TypeOK'
  <2>1. request[q] \in Pending
    BY <1>10, <1>p DEF DeleteSessions, At
  <2>2. revoked' \subseteq Token
    BY <1>10, <2>1 DEF DeleteSessions, Pending
  <2>3. sessions' \in [Token -> SessionRow \cup {None}]
    BY <1>10 DEF DeleteSessions
  <2> QED
    BY <1>10, <1>0, <2>2, <2>3 DEF DeleteSessions
<1>11. ASSUME NEW q \in Request, Fail(q) PROVE TypeOK'
  BY <1>11, <1>0 DEF Fail
<1>12. ASSUME NEW t \in Token, Logout(t) PROVE TypeOK'
  BY <1>12 DEF Logout
<1>13. CASE Tick
  BY <1>13, BoundAssumption DEF Tick
<1>14. CASE UNCHANGED vars
  BY <1>14 DEF vars
<1> QED
  BY <1>1, <1>2, <1>3, <1>4, <1>5, <1>6, <1>7, <1>8, <1>9, <1>10, <1>11, <1>12,
     <1>13, <1>14 DEF Next

\* The tables and the requests keep their types, whatever is interleaved.
THEOREM TypeCorrect == Spec => []TypeOK
BY TypeInit, TypeStep, PTL DEF Spec

-----------------------------------------------------------------------------
(***************************************************************************)
(* The safety invariants.  A request acts on what it read some statements  *)
(* ago, while others write the same tables; ChecksStillHold says that what *)
(* it checked cannot have become false in between: passwords it carries do *)
(* not change, tokens are never drawn twice (TokensAreFresh), an expired   *)
(* session stays expired.  SeedComesFirst lets a replica that counted any  *)
(* user serve without looking for the default one.                         *)
(***************************************************************************)

\* The three parts of IInv by the tables they speak of.
AccountsOK == SeedComesFirst /\ ServingReplicaHasUser /\ StoredPasswordsAreLong
SessionsOK == TokensAreFresh /\ AcknowledgedChangeEndsSessions

LEMMA Parts == IInv <=> TypeOK /\ AccountsOK /\ SessionsOK /\ ChecksStillHold
BY DEF IInv, AccountsOK, SessionsOK

\* A step that writes neither users nor replica leaves the accounts as good.
LEMMA AccountsUntouched ==
    ASSUME AccountsOK, users' = users, replica' = replica
    PROVE  AccountsOK'
BY DEF AccountsOK, SeedComesFirst, ServingReplicaHasUser, StoredPasswordsAreLong

\* Sessions may only end while no token is drawn and none is revoked.
LEMMA SessionsAfterEnding ==
    ASSUME TypeOK, SessionsOK, \A t \in Token : sessions'[t] \in {sessions[t], None},
           issued' = issued, revoked' = revoked
    PROVE  SessionsOK'
BY DEF TypeOK, SessionsOK, TokensAreFresh, AcknowledgedChangeEndsSessions

\* What a request checked survives the end of sessions, the clock and the
\* requests that were answered or replaced, if what replaces them is sound.
SoundPending(q) ==
    /\ At(q, "update") => request[q].new \notin Short
    /\ At(q, "delete") =>
          \A t \in request[q].older :
             /\ t <= issued
             /\ sessions[t] # None => sessions[t].username = request[q].user
    /\ At(q, "expire") =>
          /\ request[q].token \in 1 .. issued
          /\ LET s == sessions[request[q].token] IN s # None => Expired(s)

LEMMA ChecksAreSound == ChecksStillHold <=> \A q \in Request : SoundPending(q)
BY DEF ChecksStillHold, SoundPending

LEMMA SoundPendingStays ==
    ASSUME TypeOK, TypeOK', NEW q \in Request, SoundPending(q), request'[q] = request[q],
           issued <= issued', now <= now',
           \A t \in Token : t <= issued => sessions'[t] \in {sessions[t], None}
    PROVE  SoundPending(q)'
<1>1. CASE request[q] = None
  BY <1>1 DEF SoundPending, At
<1>2. CASE request[q] # None
  <2>1. request[q] \in Pending /\ issued \in 0 .. MaxTokens /\ issued' \in 0 .. MaxTokens
    BY <1>2 DEF TypeOK
  <2>2. request[q].older \subseteq Token
    BY <2>1 DEF Pending
  <2>3. At(q, "delete")' =>
          \A t \in request[q].older :
             /\ t <= issued'
             /\ sessions'[t] # None => sessions'[t].username = request[q].user
    <3> SUFFICES ASSUME At(q, "delete"), NEW t \in request[q].older
                 PROVE  /\ t <= issued'
                        /\ sessions'[t] # None => sessions'[t].username = request[q].user
      BY DEF At
    <3>1. t \in Token /\ t <= issued
      BY <2>2 DEF SoundPending
    <3>2. sessions[t] # None => sessions[t].username = request[q].user
      BY DEF SoundPending
    <3> QED
      BY <2>1, <3>1, <3>2, BoundAssumption DEF Token
  <2>4. At(q, "expire")' =>
          /\ request[q].token \in 1 .. issued'
          /\ LET s == sessions'[request[q].token] IN s # None => s.expires_at < now'
    <3> SUFFICES ASSUME At(q, "expire")
                 PROVE  /\ request[q].token \in 1 .. issued'
                        /\ LET s == sessions'[request[q].token] IN s # None => s.expires_at < now'
      BY DEF At
    <3> DEFINE t == request[q].token
    <3>1. t \in 1 .. issued /\ (sessions[t] # None => sessions[t].expires_at < now)
      BY DEF SoundPending, Expired
    <3>2. t \in Token /\ t <= issued /\ t \in 1 .. issued'
      BY <2>1, <3>1, BoundAssumption DEF Token
    <3>3. sessions[t] \in SessionRow \cup {None} /\ now \in Nat /\ now' \in Nat
      BY <3>2, BoundAssumption DEF TypeOK
    <3>4. \A r \in SessionRow : r.expires_at < now => r.expires_at < now'
      BY <3>3 DEF SessionRow
    <3> HIDE DEF t
    <3>5. sessions'[t] # None => sessions'[t].expires_at < now'
      BY <3>1, <3>2, <3>3, <3>4
    <3> QED
      BY <3>2, <3>5 DEF t
  <2>5. At(q, "update")' => request'[q].new \notin Short
    BY DEF SoundPending, At
  <2> QED
    BY <2>3, <2>4, <2>5 DEF SoundPending, Expired
<1> QED
  BY <1>1, <1>2

\* A request that is answered, or goes on to a step that checks nothing, is sound.
LEMMA SoundWhenAnswered ==
    ASSUME NEW q \in Request, request'[q] = None \/ request'[q].step \in {"create", "verify"}
    PROVE  SoundPending(q)'
BY DEF SoundPending, At

LEMMA SafetyStep == IInv /\ [Next]_vars => AccountsOK' /\ SessionsOK' /\ ChecksStillHold'
<1> SUFFICES ASSUME IInv, [Next]_vars
             PROVE  AccountsOK' /\ SessionsOK' /\ ChecksStillHold'
  OBVIOUS
<1>a. TypeOK /\ AccountsOK /\ SessionsOK /\ \A q \in Request : SoundPending(q)
  BY Parts, ChecksAreSound
<1>b. TypeOK'
  BY <1>a, TypeStep
<1>c. /\ issued \in Nat /\ now \in Nat /\ request \in [Request -> Pending \cup {None}]
      /\ sessions \in [Token -> SessionRow \cup {None}]
      /\ users \in [User -> Password \cup {None}]
  BY <1>a, BoundAssumption DEF TypeOK
\* Other requests than the one that moves only see sessions end.
<1>d. ASSUME NEW q \in Request, \A k \in Request \ {q} : request'[k] = request[k],
             SoundPending(q)',
             issued <= issued', now' = now,
             \A t \in Token : t <= issued => sessions'[t] \in {sessions[t], None}
      PROVE  ChecksStillHold'
  <2>1. now <= now'
    BY <1>c, <1>d
  <2>2. \A k \in Request \ {q} : SoundPending(k)'
    BY <1>a, <1>b, <1>d, <2>1, SoundPendingStays
  <2> QED
    BY <1>d, <2>2 DEF ChecksStillHold, SoundPending
<1>e. ASSUME request' = request, issued' = issued, now <= now',
             \A t \in Token : sessions'[t] \in {sessions[t], None}
      PROVE  ChecksStillHold'
  <2>1. \A k \in Request : SoundPending(k)'
    BY <1>a, <1>b, <1>c, <1>e, SoundPendingStays
  <2> QED
    BY <2>1 DEF ChecksStillHold, SoundPending
<1>1. ASSUME NEW r \in Replica, CountUsers(r) PROVE AccountsOK' /\ SessionsOK' /\ ChecksStillHold'
  <2>1. AccountsOK'
    BY <1>1, <1>a DEF CountUsers, AccountsOK, SeedComesFirst, ServingReplicaHasUser,
         StoredPasswordsAreLong, TypeOK
  <2>2. UNCHANGED <<sessions, issued, request, revoked, now>>
    BY <1>1 DEF CountUsers
  <2> QED
    BY <1>a, <1>c, <1>e, <2>1, <2>2, SessionsAfterEnding
<1>2. ASSUME NEW r \in Replica, Seed(r) PROVE AccountsOK' /\ SessionsOK' /\ ChecksStillHold'
  <2>1. /\ users'[DefaultUser] # None
        /\ \A u \in User \ {DefaultUser} : users'[u] = users[u]
        /\ users'[DefaultUser] \in {users[DefaultUser], DefaultPassword}
    BY <1>2, <1>c, AccountAssumption DEF Seed
  <2>2. AccountsOK'
    BY <1>a, <2>1 DEF AccountsOK, SeedComesFirst, ServingReplicaHasUser, StoredPasswordsAreLong
  <2>3. UNCHANGED <<sessions, issued, request, revoked, now>>
    BY <1>2 DEF Seed
  <2> QED
    BY <1>a, <1>c, <1>e, <2>2, <2>3, SessionsAfterEnding
<1>3. ASSUME NEW r \in Replica, Die(r) PROVE AccountsOK' /\ SessionsOK' /\ ChecksStillHold'
  <2>1. AccountsOK'
    BY <1>3, <1>a DEF Die, AccountsOK, SeedComesFirst, ServingReplicaHasUser,
         StoredPasswordsAreLong, TypeOK
  <2>2. UNCHANGED <<sessions, issued, revoked, now>>
    BY <1>3 DEF Die
  <2>3. \A k \in Request : request'[k] = None \/ request'[k] = request[k]
    BY <1>3 DEF Die
  <2>4. \A k \in Request : SoundPending(k)'
    BY <1>a, <1>b, <1>c, <2>2, <2>3, SoundPendingStays, SoundWhenAnswered
  <2>5. ChecksStillHold'
    BY <2>4 DEF ChecksStillHold, SoundPending
  <2> QED
    BY <1>a, <2>1, <2>2, <2>5, SessionsAfterEnding
<1>4. ASSUME NEW q \in Request, NEW r \in Replica, NEW u \in User, NEW p \in Password,
             Login(q, r, u, p)
      PROVE  AccountsOK' /\ SessionsOK' /\ ChecksStillHold'
  <2>1. UNCHANGED <<users, sessions, issued, replica, revoked, now>>
    BY <1>4 DEF Login
  <2>2. /\ \A k \in Request \ {q} : request'[k] = request[k]
        /\ request'[q].step = "create"
    BY <1>4, <1>c DEF Login, Continue
  <2> QED
    BY <1>a, <1>c, <1>d, <2>1, <2>2, AccountsUntouched, SessionsAfterEnding, SoundWhenAnswered
<1>5. ASSUME NEW q \in Request, NEW r \in Replica, NEW t \in Token, FindExpired(q, r, t)
      PROVE  AccountsOK' /\ SessionsOK' /\ ChecksStillHold'
  <2>1. UNCHANGED <<users, sessions, issued, replica, revoked, now>>
    BY <1>5 DEF FindExpired
  <2>2. /\ \A k \in Request \ {q} : request'[k] = request[k]
        /\ request'[q].step = "expire" /\ request'[q].token = t
    BY <1>5, <1>c DEF FindExpired, Continue
  <2>3. t \in 1 .. issued /\ Expired(sessions[t])
    BY <1>5, <1>a, <1>c DEF FindExpired, SessionsOK, TokensAreFresh, Token
  <2>4. SoundPending(q)'
    BY <2>1, <2>2, <2>3 DEF SoundPending, At, Expired
  <2> QED
    BY <1>a, <1>c, <1>d, <2>1, <2>2, <2>4, AccountsUntouched, SessionsAfterEnding
<1>6. ASSUME NEW q \in Request, NEW r \in Replica, NEW t \in Token,
             NEW c \in Password, NEW w \in Password, ChangePassword(q, r, t, c, w)
      PROVE  AccountsOK' /\ SessionsOK' /\ ChecksStillHold'
  <2>1. UNCHANGED <<users, sessions, issued, replica, revoked, now>>
    BY <1>6 DEF ChangePassword
  <2>2. /\ \A k \in Request \ {q} : request'[k] = request[k]
        /\ request'[q].step = "verify"
    BY <1>6, <1>c DEF ChangePassword, Continue
  <2> QED
    BY <1>a, <1>c, <1>d, <2>1, <2>2, AccountsUntouched, SessionsAfterEnding, SoundWhenAnswered
<1>7. ASSUME NEW q \in Request, CreateSession(q)
      PROVE  AccountsOK' /\ SessionsOK' /\ ChecksStillHold'
  <2>1. /\ issued' = issued + 1 /\ issued + 1 \in Token
        /\ UNCHANGED <<users, replica, revoked, now>>
        /\ \A t \in Token \ {issued + 1} : sessions'[t] = sessions[t]
    BY <1>7, <1>c, BoundAssumption DEF CreateSession, Token
  <2>2. /\ \A k \in Request \ {q} : request'[k] = request[k]
        /\ request'[q] = None
    BY <1>7, <1>c DEF CreateSession, Answer
  <2>3. SessionsOK'
    BY <1>a, <1>c, <2>1 DEF SessionsOK, TokensAreFresh, AcknowledgedChangeEndsSessions,
         TypeOK, Token
  <2>4. \A t \in Token : t <= issued => sessions'[t] = sessions[t]
    BY <1>c, <2>1 DEF Token
  <2> QED
    BY <1>a, <1>c, <1>d, <2>1, <2>2, <2>3, <2>4, AccountsUntouched, SoundWhenAnswered
<1>8. ASSUME NEW q \in Request, DeleteExpired(q)
      PROVE  AccountsOK' /\ SessionsOK' /\ ChecksStillHold'
  <2>1. UNCHANGED <<users, issued, replica, revoked, now>>
    BY <1>8 DEF DeleteExpired
  <2>2. /\ \A k \in Request \ {q} : request'[k] = request[k]
        /\ request'[q] = None
    BY <1>8, <1>c DEF DeleteExpired, Answer
  <2>3. \A t \in Token : sessions'[t] \in {sessions[t], None}
    BY <1>8, <1>c DEF DeleteExpired
  <2> QED
    BY <1>a, <1>c, <1>d, <2>1, <2>2, <2>3, AccountsUntouched, SessionsAfterEnding, SoundWhenAnswered
<1>9. ASSUME NEW q \in Request, VerifyCurrent(q)
      PROVE  AccountsOK' /\ SessionsOK' /\ ChecksStillHold'
  <2>1. UNCHANGED <<users, sessions, issued, replica, revoked, now>>
    BY <1>9 DEF VerifyCurrent
  <2>2. request[q] \in Pending
    BY <1>9, <1>c DEF VerifyCurrent, At
  <2>3. /\ \A k \in Request \ {q} : request'[k] = request[k]
        /\ \/ request'[q] = None
           \/ /\ request'[q] = [request[q] EXCEPT !.step = "update"]
              /\ request[q].new \notin Short
    BY <1>9, <1>c DEF VerifyCurrent, Continue, Answer
  <2>4. SoundPending(q)'
    <3>1. CASE request'[q] = None
      BY <3>1, SoundWhenAnswered
    <3>2. CASE request'[q] = [request[q] EXCEPT !.step = "update"] /\ request[q].new \notin Short
      <4>1. request'[q].step = "update" /\ request'[q].new = request[q].new
        BY <2>2, <3>2 DEF Pending
      <4> QED
        BY <3>2, <4>1 DEF SoundPending, At
    <3> QED
      BY <2>3, <3>1, <3>2
  <2> QED
    BY <1>a, <1>c, <1>d, <2>1, <2>3, <2>4, AccountsUntouched, SessionsAfterEnding
<1>10. ASSUME NEW q \in Request, UpdatePassword(q)
       PROVE  AccountsOK' /\ SessionsOK' /\ ChecksStillHold'
  <2> DEFINE u == request[q].user
             old == SessionsOf(u)
  <2>1. UNCHANGED <<sessions, issued, replica, revoked, now>>
    BY <1>10 DEF UpdatePassword
  <2>2. request[q] \in Pending /\ request[q].new \notin Short /\ request[q].new \in Password
    BY <1>10, <1>a, <1>c DEF UpdatePassword, At, SoundPending, Pending
  <2>3. /\ \A v \in User \ {u} : users'[v] = users[v]
        /\ users[u] = None => users'[u] = None
        /\ users[u] # None => users'[u] = request[q].new
    BY <1>10, <1>c, <2>2 DEF UpdatePassword, Pending
  <2>4. /\ \A k \in Request \ {q} : request'[k] = request[k]
        /\ request'[q] = [request[q] EXCEPT !.step = "delete", !.older = old]
    BY <1>10, <1>c DEF UpdatePassword, Continue
  <2>5. /\ request'[q].step = "delete" /\ request'[q].user = u /\ request'[q].older = old
    <3> HIDE DEF old
    <3> QED
      BY <2>2, <2>4 DEF Pending
  <2>6. \A t \in old : t <= issued /\ sessions[t].username = u
    BY <1>a DEF SessionsOf, SessionsOK, TokensAreFresh
  <2> HIDE DEF u, old
  <2>7. SoundPending(q)'
    BY <2>1, <2>5, <2>6 DEF SoundPending, At
  <2>8. AccountsOK'
    <3>1. request[q].new # None
      BY <2>2, AccountAssumption
    <3> QED
      BY <1>a, <2>1, <2>2, <2>3, <3>1, AccountAssumption DEF AccountsOK, SeedComesFirst,
           ServingReplicaHasUser, StoredPasswordsAreLong
  <2> QED
    BY <1>a, <1>c, <1>d, <2>1, <2>4, <2>7, <2>8, SessionsAfterEnding
<1>11. ASSUME NEW q \in Request, DeleteSessions(q)
       PROVE  AccountsOK' /\ SessionsOK' /\ ChecksStillHold'
  <2>1. UNCHANGED <<users, issued, replica, now>>
    BY <1>11 DEF DeleteSessions
  <2>2. /\ \A k \in Request \ {q} : request'[k] = request[k]
        /\ request'[q] = None
    BY <1>11, <1>c DEF DeleteSessions, Answer
  <2>3. /\ \A t \in Token : sessions'[t] \in {sessions[t], None}
        /\ \A t \in Token : sessions[t] # None /\ sessions[t].username = request[q].user
                            => sessions'[t] = None
    BY <1>11, <1>c DEF DeleteSessions, SessionsOf
  <2>4. request[q].older \subseteq Token
    BY <1>11, <1>c DEF DeleteSessions, At, Pending
  <2>5. \A t \in request[q].older :
          /\ t <= issued
          /\ sessions[t] # None => sessions[t].username = request[q].user
    BY <1>11, <1>a DEF DeleteSessions, SoundPending
  <2>6. revoked' = revoked \cup request[q].older /\ revoked \subseteq Token
    BY <1>11, <1>a DEF DeleteSessions, TypeOK
  <2>7. SessionsOK'
    BY <1>a, <2>1, <2>3, <2>4, <2>5, <2>6 DEF SessionsOK, TokensAreFresh,
         AcknowledgedChangeEndsSessions
  <2> QED
    BY <1>a, <1>c, <1>d, <2>1, <2>2, <2>3, <2>7, AccountsUntouched, SoundWhenAnswered
<1>12. ASSUME NEW q \in Request, Fail(q)
       PROVE  AccountsOK' /\ SessionsOK' /\ ChecksStillHold'
  <2>1. UNCHANGED <<users, sessions, issued, replica, revoked, now>>
    BY <1>12 DEF Fail
  <2>2. /\ \A k \in Request \ {q} : request'[k] = request[k]
        /\ request'[q] = None
    BY <1>12, <1>c DEF Fail, Answer
  <2> QED
    BY <1>a, <1>c, <1>d, <2>1, <2>2, AccountsUntouched, SessionsAfterEnding, SoundWhenAnswered
<1>13. ASSUME NEW t \in Token, Logout(t)
       PROVE  AccountsOK' /\ SessionsOK' /\ ChecksStillHold'
  <2>1. UNCHANGED <<users, issued, replica, request, revoked, now>>
    BY <1>13 DEF Logout
  <2>2. \A k \in Token : sessions'[k] \in {sessions[k], None}
    BY <1>13, <1>c DEF Logout
  <2> QED
    BY <1>a, <1>c, <1>e, <2>1, <2>2, AccountsUntouched, SessionsAfterEnding
<1>14. CASE Tick
  BY <1>14, <1>a, <1>c, <1>e, AccountsUntouched, SessionsAfterEnding DEF Tick
<1>15. CASE UNCHANGED vars
  BY <1>15, <1>a, <1>c, <1>e, AccountsUntouched, SessionsAfterEnding DEF vars
<1> QED
  BY <1>1, <1>2, <1>3, <1>4, <1>5, <1>6, <1>7, <1>8, <1>9, <1>10, <1>11, <1>12,
     <1>13, <1>14, <1>15 DEF Next

-----------------------------------------------------------------------------
\* IInv is inductive.
THEOREM Safety == Spec => []IInv
<1>1. Init => IInv
  <2> SUFFICES ASSUME Init PROVE IInv
    OBVIOUS
  <2>1. /\ \A u \in User : users[u] = None
        /\ \A t \in Token : sessions[t] = None
        /\ \A q \in Request : request[q] = None
        /\ \A r \in Replica : replica[r] = "down"
        /\ revoked = {}
    BY DEF Init
  <2>2. SeedComesFirst /\ TokensAreFresh /\ AcknowledgedChangeEndsSessions
    BY <2>1 DEF SeedComesFirst, TokensAreFresh, AcknowledgedChangeEndsSessions
  <2>3. ChecksStillHold
    BY <2>1 DEF ChecksStillHold, At
  <2>4. ServingReplicaHasUser
    BY <2>1 DEF ServingReplicaHasUser
  <2>5. StoredPasswordsAreLong
    BY <2>1, AccountAssumption DEF StoredPasswordsAreLong
  <2> QED
    BY <2>2, <2>3, <2>4, <2>5, TypeInit DEF IInv
<1>2. IInv /\ [Next]_vars => IInv'
  <2> SUFFICES ASSUME IInv, [Next]_vars PROVE IInv'
    OBVIOUS
  <2>1. TypeOK'
    BY TypeStep DEF IInv
  <2>2. AccountsOK' /\ SessionsOK' /\ ChecksStillHold'
    BY SafetyStep
  <2> QED
    BY <2>1, <2>2 DEF IInv, AccountsOK, SessionsOK
<1> QED
  BY <1>1, <1>2, PTL DEF Spec

\* A replica that serves has the default account (dependencies.py:13-20).
THEOREM ReplicasHaveUsers == Spec => []ServingReplicaHasUser
<1>1. IInv => ServingReplicaHasUser
  BY DEF IInv
<1> QED
  BY Safety, <1>1, PTL

\* An acknowledged password change has ended every older session of its user,
\* for good (auth.py:86-91).
THEOREM ChangesEndSessions == Spec => []AcknowledgedChangeEndsSessions
<1>1. IInv => AcknowledgedChangeEndsSessions
  BY DEF IInv
<1> QED
  BY Safety, <1>1, PTL

\* No short password but the seeded one is ever stored (auth.py:81-89).
THEOREM PasswordsAreLong == Spec => []StoredPasswordsAreLong
<1>1. IInv => StoredPasswordsAreLong
  BY DEF IInv
<1> QED
  BY Safety, <1>1, PTL

-----------------------------------------------------------------------------
\* Only a password change replaces a password: no replica seeds over it
\* (auth.py:28-38).
THEOREM SeedingIsHarmless == Spec => OnlyChangesReplacePasswords
<1> DEFINE Kept ==
      \A u \in User : users[u] # None /\ users'[u] # users[u] =>
          \E q \in Request : At(q, "update") /\ request[q].user = u
                             /\ users'[u] = request[q].new
<1>1. TypeOK /\ [Next]_vars => Kept
  <2> SUFFICES ASSUME TypeOK, [Next]_vars, NEW u \in User,
                      users[u] # None, users'[u] # users[u]
               PROVE  \E q \in Request : At(q, "update") /\ request[q].user = u
                                         /\ users'[u] = request[q].new
    OBVIOUS
  <2>1. users \in [User -> Password \cup {None}]
    BY DEF TypeOK
  <2>2. ASSUME NEW r \in Replica, Seed(r) PROVE FALSE
    BY <2>1, <2>2 DEF Seed
  <2>3. PICK q \in Request : UpdatePassword(q)
    BY <2>2 DEF Next, CountUsers, Die, Login, FindExpired, ChangePassword,
         CreateSession, DeleteExpired, VerifyCurrent, DeleteSessions, Fail,
         Logout, Tick, vars
  <2> QED
    BY <2>1, <2>3 DEF UpdatePassword
<1>2. TypeOK /\ [Next]_vars => [Kept]_vars
  BY <1>1
<1> QED
  BY TypeCorrect, <1>2, PTL DEF Spec, OnlyChangesReplacePasswords

\* A session ends by its logout, by a password change of its user, or expired:
\* a late DELETE of an expired session hits nothing else (auth.py:61-77).
THEOREM SessionsEndForAReason == Spec => SessionEndsForAReason
<1> DEFINE Reason ==
      \A t \in Token : sessions[t] # None /\ sessions'[t] = None =>
          \/ Expired(sessions[t])
          \/ Logout(t)
          \/ \E q \in Request : At(q, "delete") /\ request[q].user = sessions[t].username
<1>1. IInv /\ [Next]_vars => Reason
  <2> SUFFICES ASSUME IInv, [Next]_vars, NEW t \in Token,
                      sessions[t] # None, sessions'[t] = None
               PROVE  \/ Expired(sessions[t])
                      \/ Logout(t)
                      \/ \E q \in Request : /\ At(q, "delete")
                                            /\ request[q].user = sessions[t].username
    OBVIOUS
  <2>1. /\ sessions \in [Token -> SessionRow \cup {None}]
        /\ \A q \in Request : SoundPending(q)
    BY Parts, ChecksAreSound DEF TypeOK
  <2>2. ASSUME NEW q \in Request, CreateSession(q) PROVE FALSE
    <3>1. request[q] \in Pending
      BY <2>2 DEF IInv, TypeOK, CreateSession, At
    <3>2. [username |-> request[q].user, expires_at |-> now + SessionTTL] \in SessionRow
      BY <3>1, BoundAssumption DEF IInv, TypeOK, Pending, SessionRow
    <3> QED
      BY <2>1, <2>2, <3>2, NoneAssumption DEF CreateSession
  <2>3. ASSUME NEW q \in Request, DeleteExpired(q) PROVE Expired(sessions[t])
    <3>1. request[q].token = t
      BY <2>1, <2>3 DEF DeleteExpired
    <3> QED
      BY <2>1, <2>3, <3>1 DEF DeleteExpired, SoundPending
  <2>4. ASSUME NEW q \in Request, DeleteSessions(q)
        PROVE  At(q, "delete") /\ request[q].user = sessions[t].username
    BY <2>1, <2>4 DEF DeleteSessions, SessionsOf
  <2>5. ASSUME NEW k \in Token, Logout(k) PROVE Logout(t)
    BY <2>1, <2>5 DEF Logout
  <2>6. \/ \E q \in Request : CreateSession(q) \/ DeleteExpired(q) \/ DeleteSessions(q)
        \/ \E k \in Token : Logout(k)
    BY DEF Next, CountUsers, Seed, Die, Login, FindExpired, ChangePassword,
         VerifyCurrent, UpdatePassword, Fail, Tick, vars
  <2> QED
    BY <2>2, <2>3, <2>4, <2>5, <2>6
<1>2. IInv /\ [Next]_vars => [Reason]_vars
  BY <1>1
<1> QED
  BY Safety, <1>2, PTL DEF Spec, SessionEndsForAReason
=============================================================================
