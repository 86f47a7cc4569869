------------------------- MODULE RefreshTokensProofs -------------------------
(***************************************************************************)
(* Proofs about RefreshTokens for any number of handlers, tokens and        *)
(* subjects, any time-to-live and any clock bound.                          *)
(***************************************************************************)
EXTENDS RefreshTokens, TLAPS

\* What a handler carries across an await is still true of the table: rows
\* are never removed and never change owner.
HandlersAgree ==
  \A r \in Req :
    /\ req[r].pc = "login" => req[r].kind = KindOf[req[r].subj]
    /\ req[r].pc = "refresh" =>
         /\ Issued(req[r].tok)
         /\ req[r].kind = rows[req[r].tok].kind
         /\ req[r].subj = rows[req[r].tok].subj

\* Only issued rows have a parent, and some handler inserted them.
OnlyIssuedHaveParents ==
  \A t \in Token : parent[t] # NoToken => Issued(t) /\ issuer[t] \in Req

\* A handler between lookup and rotation has not redeemed that token before.
PendingIsFirst ==
  \A r \in Req, c \in Token :
    req[r].pc = "refresh" /\ parent[c] = req[r].tok => issuer[c] # r

\* The inductive invariant.  RedeemedIsRevoked and LineageKeepsIdentity alone
\* are not inductive: a rotation writes what an earlier step read.
IInv ==
  /\ TypeOK
  /\ RedeemedIsRevoked
  /\ LineageKeepsIdentity
  /\ RedeemersAreDistinct
  /\ HandlersAgree
  /\ OnlyIssuedHaveParents
  /\ PendingIsFirst

Revoked(row) == [status |-> "revoked", kind |-> row.kind, subj |-> row.subj,
                 exp |-> row.exp]

USE RefreshAssumption DEF Revoked

\* The initial state satisfies the inductive invariant.
LEMMA InitIInv == Init => IInv
BY DEF Init, IInv, TypeOK, Row, Absent, Handler, Idle, RedeemedIsRevoked,
       LineageKeepsIdentity, RedeemersAreDistinct, HandlersAgree,
       OnlyIssuedHaveParents, PendingIsFirst, Issued

\* What the row and handler sets say field by field.
LEMMA RowFields ==
  ASSUME TypeOK, NEW t \in Token
  PROVE  /\ rows[t].status \in {"absent", "live", "revoked"}
         /\ Issued(t) => /\ rows[t].kind \in SubjectKind
                         /\ rows[t].subj \in Subject
                         /\ rows[t].exp \in Nat
         /\ Issued(t) => rows[t] \in [status : {"live", "revoked"},
                             kind : SubjectKind, subj : Subject, exp : Nat]
         /\ ~Issued(t) => rows[t] = Absent
BY DEF TypeOK, Row, Absent, Issued

\* What the handler set says field by field, per program counter.
LEMMA HandlerFields ==
  ASSUME TypeOK, NEW r \in Req
  PROVE  /\ req[r].pc \in {"idle", "login", "refresh"}
         /\ req[r].pc = "idle" => req[r] = Idle
         /\ req[r].pc = "login" => /\ req[r].kind \in SubjectKind
                                   /\ req[r].subj \in Subject
         /\ req[r].pc = "refresh" => /\ req[r].kind \in SubjectKind
                                     /\ req[r].subj \in Subject
                                     /\ req[r].tok \in Token
BY DEF TypeOK, Handler, Idle

\* Starting a login keeps the inductive invariant.
LEMMA LoginVerifiedIInv ==
  ASSUME IInv, NEW r \in Req, NEW s \in Subject, NEW k \in SubjectKind,
         LoginVerified(r, s, k)
  PROVE  IInv'
<1>1. TypeOK'
  BY DEF IInv, LoginVerified, TypeOK, Handler, Idle
<1>2. HandlersAgree' /\ PendingIsFirst'
  BY DEF IInv, LoginVerified, TypeOK, HandlersAgree, PendingIsFirst, Idle, Issued
<1>3. RedeemedIsRevoked' /\ LineageKeepsIdentity' /\ RedeemersAreDistinct' /\ OnlyIssuedHaveParents'
  BY DEF IInv, LoginVerified, RedeemedIsRevoked, LineageKeepsIdentity,
         RedeemersAreDistinct, OnlyIssuedHaveParents, Issued
<1> QED BY <1>1, <1>2, <1>3 DEF IInv

\* Looking a token up keeps it: a live token has no children yet.
LEMMA RefreshFoundIInv ==
  ASSUME IInv, NEW r \in Req, NEW t \in Token, NEW k \in SubjectKind,
         RefreshFound(r, t, k)
  PROVE  IInv'
<1>0. rows[t].status = "live" /\ rows[t].kind = k /\ rows[t].subj \in Subject
  BY RowFields DEF IInv, RefreshFound, find_active_refresh_token, Issued
<1>1. TypeOK'
  BY <1>0 DEF IInv, RefreshFound, TypeOK, Handler, Idle
<1>2. HandlersAgree'
  BY <1>0 DEF IInv, RefreshFound, TypeOK, HandlersAgree, Idle, Issued
<1>3. PendingIsFirst'
  <2>1. \A c \in Token : parent[c] # t
    BY <1>0 DEF IInv, RedeemedIsRevoked
  <2> QED BY <2>1 DEF IInv, RefreshFound, TypeOK, PendingIsFirst
<1>4. RedeemedIsRevoked' /\ LineageKeepsIdentity' /\ RedeemersAreDistinct' /\ OnlyIssuedHaveParents'
  BY DEF IInv, RefreshFound, RedeemedIsRevoked, LineageKeepsIdentity,
         RedeemersAreDistinct, OnlyIssuedHaveParents, Issued
<1> QED BY <1>1, <1>2, <1>3, <1>4 DEF IInv

\* Ending a handler early keeps it.
LEMMA AbandonIInv ==
  ASSUME IInv, NEW r \in Req, Abandon(r)
  PROVE  IInv'
<1>1. TypeOK'
  BY DEF IInv, Abandon, TypeOK, Handler, Idle
<1>2. HandlersAgree' /\ PendingIsFirst'
  BY DEF IInv, Abandon, TypeOK, HandlersAgree, PendingIsFirst, Idle, Issued
<1>3. RedeemedIsRevoked' /\ LineageKeepsIdentity' /\ RedeemersAreDistinct' /\ OnlyIssuedHaveParents'
  BY DEF IInv, Abandon, RedeemedIsRevoked, LineageKeepsIdentity,
         RedeemersAreDistinct, OnlyIssuedHaveParents, Issued
<1> QED BY <1>1, <1>2, <1>3 DEF IInv

\* A login inserts a row without a parent under the subject it verified.
LEMMA LoginCommitIInv ==
  ASSUME IInv, NEW r \in Req, NEW n \in Token, LoginCommit(r, n)
  PROVE  IInv'
<1> DEFINE s == req[r].subj
           k == req[r].kind
<1>0. /\ s \in Subject /\ k \in SubjectKind /\ k = KindOf[s]
      /\ ~Issued(n) /\ now + Ttl \in Nat
  BY HandlerFields DEF IInv, HandlersAgree, LoginCommit, commit_user_login, Draw, TypeOK
<1>1. /\ rows' = [rows EXCEPT ![n] = [status |-> "live", kind |-> k, subj |-> s,
                                     exp |-> now + Ttl]]
      /\ parent' = [parent EXCEPT ![n] = NoToken]
      /\ issuer' = [issuer EXCEPT ![n] = r]
      /\ req' = [req EXCEPT ![r] = Idle]
      /\ users' = users /\ now' = now
  BY DEF LoginCommit, commit_user_login, Draw, insert_refresh_token
<1>2. TypeOK'
  BY <1>0, <1>1 DEF IInv, TypeOK, Row, Handler
<1>3. parent[n] = NoToken /\ \A c \in Token : parent[c] # n
  BY <1>0, RowFields DEF IInv, OnlyIssuedHaveParents, RedeemedIsRevoked, Issued
<1>4. RedeemedIsRevoked' /\ RedeemersAreDistinct' /\ OnlyIssuedHaveParents'
  BY <1>1, <1>3 DEF IInv, TypeOK, RedeemedIsRevoked, RedeemersAreDistinct,
                    OnlyIssuedHaveParents, Issued
<1>5. LineageKeepsIdentity'
  BY <1>0, <1>1, <1>3 DEF IInv, TypeOK, LineageKeepsIdentity, Issued
<1>6. HandlersAgree'
  BY <1>0, <1>1 DEF IInv, TypeOK, HandlersAgree, Issued, Idle
<1>7. PendingIsFirst'
  BY <1>1, HandlerFields DEF IInv, TypeOK, PendingIsFirst, Idle
<1> QED BY <1>2, <1>4, <1>5, <1>6, <1>7 DEF IInv

\* A rotation inserts a child of the token it looked up, under the same
\* subject, and revokes that token; the handler is done with it.
LEMMA RefreshRotateIInv ==
  ASSUME IInv, NEW r \in Req, NEW n \in Token, RefreshRotate(r, n)
  PROVE  IInv'
<1> DEFINE o == req[r].tok
           s == req[r].subj
           k == req[r].kind
<1>0. /\ s \in Subject /\ k \in SubjectKind /\ o \in Token
      /\ Issued(o) /\ k = rows[o].kind /\ s = rows[o].subj /\ k = KindOf[s]
      /\ ~Issued(n) /\ n # o /\ now + Ttl \in Nat
      /\ req[r].pc = "refresh"
  BY HandlerFields DEF IInv, HandlersAgree, LineageKeepsIdentity, RefreshRotate,
                       rotate_refresh_token, Draw, TypeOK
<1>a. rows[o] \in [status : {"live", "revoked"}, kind : SubjectKind, subj : Subject, exp : Nat]
  BY <1>0, RowFields DEF IInv
<1>1. /\ rows' = [rows EXCEPT ![o] = Revoked(rows[o]),
                              ![n] = [status |-> "live", kind |-> k, subj |-> s,
                                      exp |-> now + Ttl]]
      /\ parent' = [parent EXCEPT ![n] = o]
      /\ issuer' = [issuer EXCEPT ![n] = r]
      /\ req' = [req EXCEPT ![r] = Idle]
      /\ users' = users /\ now' = now
  BY <1>0 DEF RefreshRotate, rotate_refresh_token, Draw, insert_refresh_token,
              revoke_refresh_token
<1> HIDE DEF o, s, k
<1>b. /\ DOMAIN rows' = Token /\ \A t \in Token \ {n, o} : rows'[t] = rows[t]
      /\ rows'[n] = [status |-> "live", kind |-> k, subj |-> s, exp |-> now + Ttl]
      /\ rows'[o] = Revoked(rows[o])
  <2>1. rows \in [Token -> Row]
    BY DEF IInv, TypeOK
  <2> QED BY <2>1, <1>0, <1>1
<1>d. rows'[o].status = "revoked" /\ rows'[o].kind = k /\ rows'[o].subj = s
  <2>1. /\ rows'[o].status = "revoked"
        /\ rows'[o].kind = rows[o].kind
        /\ rows'[o].subj = rows[o].subj
    BY <1>b
  <2> QED BY <1>0, <2>1
<1>2. TypeOK'
  <2>1. rows' \in [Token -> Row]
    <3>1. rows'[n] \in Row
      BY <1>0, <1>b DEF Row
    <3>2. rows'[o] \in Row
      BY <1>a, <1>b DEF Row
    <3>3. \A t \in Token : rows'[t] \in Row
      BY <1>b, <3>1, <3>2 DEF IInv, TypeOK
    <3>4. rows' = [t \in Token |-> rows'[t]]
      BY <1>1 DEF IInv, TypeOK
    <3> QED BY <3>3, <3>4
  <2>2. req' \in [Req -> Handler]
    BY <1>1 DEF IInv, TypeOK, Handler
  <2> QED BY <1>0, <1>1, <2>1, <2>2 DEF IInv, TypeOK
<1>3. parent[n] = NoToken /\ \A c \in Token : parent[c] # n
  BY <1>0, RowFields DEF IInv, OnlyIssuedHaveParents, RedeemedIsRevoked, Issued
<1>c. /\ parent'[n] = o /\ issuer'[n] = r
      /\ \A t \in Token : t # n => parent'[t] = parent[t] /\ issuer'[t] = issuer[t]
      /\ \A t \in Token : parent[t] \in Token \cup {NoToken}
  BY <1>0, <1>1 DEF IInv, TypeOK
<1>4. RedeemedIsRevoked' /\ OnlyIssuedHaveParents'
  <2>1. \A c \in Token : parent'[c] # NoToken => rows'[parent'[c]].status = "revoked"
    BY <1>0, <1>b, <1>d, <1>c, <1>3 DEF IInv, RedeemedIsRevoked
  <2>2. \A t \in Token : parent'[t] # NoToken =>
          rows'[t].status # "absent" /\ issuer'[t] \in Req
    BY <1>0, <1>b, <1>d, <1>c DEF IInv, OnlyIssuedHaveParents, Issued
  <2> QED BY <2>1, <2>2 DEF RedeemedIsRevoked, OnlyIssuedHaveParents, Issued
<1>5. RedeemersAreDistinct'
  <2>1. \A c \in Token : parent[c] = o => issuer[c] # r
    BY <1>0 DEF IInv, PendingIsFirst, o
  <2> QED BY <1>0, <1>1, <1>3, <2>1 DEF IInv, TypeOK, RedeemersAreDistinct
<1>6. LineageKeepsIdentity'
  <2> SUFFICES ASSUME NEW t \in Token, Issued(t)'
               PROVE  /\ rows'[t].kind = KindOf[rows'[t].subj]
                      /\ parent'[t] # NoToken => rows'[t].subj = rows'[parent'[t]].subj
    BY DEF LineageKeepsIdentity
  <2>1. CASE t = n
    BY <2>1, <1>0, <1>1, <1>b, <1>d DEF IInv, TypeOK
  <2>2. CASE t # n
    <3>1. Issued(t) /\ parent'[t] = parent[t] /\ parent[t] # n
      BY <2>2, <1>0, <1>1, <1>b, <1>d, <1>3 DEF IInv, TypeOK, Issued
    <3>2. rows'[t].kind = rows[t].kind /\ rows'[t].subj = rows[t].subj
      BY <2>2, <1>0, <1>b, <1>d
    <3>3. parent[t] # NoToken => rows'[parent[t]].subj = rows[parent[t]].subj
      BY <1>0, <1>b, <1>d, <3>1 DEF IInv, TypeOK
    <3> QED BY <3>1, <3>2, <3>3 DEF IInv, LineageKeepsIdentity
  <2> QED BY <2>1, <2>2
<1>7. HandlersAgree'
  <2> SUFFICES ASSUME NEW q \in Req
               PROVE  /\ req'[q].pc = "login" => req'[q].kind = KindOf[req'[q].subj]
                      /\ req'[q].pc = "refresh" =>
                           /\ Issued(req[q].tok)' \/ req'[q] # req[q]
                           /\ rows'[req'[q].tok].status # "absent"
                           /\ req'[q].kind = rows'[req'[q].tok].kind
                           /\ req'[q].subj = rows'[req'[q].tok].subj
    BY DEF HandlersAgree, Issued
  <2>1. CASE q = r
    BY <2>1, <1>1 DEF IInv, TypeOK, Idle
  <2>2. CASE q # r
    <3>1. req'[q] = req[q]
      BY <2>2, <1>1 DEF IInv, TypeOK
    <3>2. req[q].pc = "refresh" => req[q].tok \in Token /\ req[q].tok # n
      BY HandlerFields, <1>0 DEF IInv, HandlersAgree
    <3> QED BY <3>1, <3>2, <1>0, <1>b, <1>d DEF IInv, HandlersAgree, Issued
  <2> QED BY <2>1, <2>2
<1>8. PendingIsFirst'
  BY <1>1, HandlerFields DEF IInv, TypeOK, PendingIsFirst, Idle
<1> QED BY <1>2, <1>4, <1>5, <1>6, <1>7, <1>8 DEF IInv

\* Revoking on logout only turns a row's status to "revoked".
LEMMA LogoutIInv ==
  ASSUME IInv, NEW t \in Token, logout(t)
  PROVE  IInv'
<1>1. rows[t] \in [status : {"live", "revoked"}, kind : SubjectKind, subj : Subject, exp : Nat]
  BY RowFields DEF IInv, logout
<1>2. /\ rows' = [rows EXCEPT ![t] = Revoked(rows[t])]
      /\ UNCHANGED <<users, req, now, parent, issuer>>
  BY DEF logout, revoke_refresh_token
<1>3. /\ \A x \in Token \ {t} : rows'[x] = rows[x]
      /\ rows'[t].status = "revoked" /\ rows'[t].kind = rows[t].kind
      /\ rows'[t].subj = rows[t].subj
      /\ Issued(t)
  BY <1>1, <1>2 DEF IInv, TypeOK, Issued
<1>4. TypeOK'
  BY <1>1, <1>2 DEF IInv, TypeOK, Row
<1>5. RedeemedIsRevoked' /\ OnlyIssuedHaveParents' /\ RedeemersAreDistinct' /\ PendingIsFirst'
  BY <1>2, <1>3 DEF IInv, TypeOK, RedeemedIsRevoked, OnlyIssuedHaveParents,
                    RedeemersAreDistinct, PendingIsFirst, Issued
<1>6. LineageKeepsIdentity'
  BY <1>2, <1>3 DEF IInv, TypeOK, LineageKeepsIdentity, Issued
<1>7. HandlersAgree'
  BY <1>2, <1>3, HandlerFields DEF IInv, HandlersAgree, Issued
<1> QED BY <1>4, <1>5, <1>6, <1>7 DEF IInv

\* Deleting a user and the passing of time touch neither rows nor handlers.
LEMMA OthersIInv ==
  ASSUME IInv, (\E s \in Subject : delete_user(s)) \/ Tick \/ UNCHANGED vars
  PROVE  IInv'
<1>1. /\ UNCHANGED <<rows, req, parent, issuer>>
      /\ users' \subseteq Subject /\ now' \in Nat
  BY DEF IInv, TypeOK, delete_user, Tick, vars
<1> QED BY <1>1 DEF IInv, TypeOK, RedeemedIsRevoked, LineageKeepsIdentity,
          RedeemersAreDistinct, HandlersAgree, OnlyIssuedHaveParents,
          PendingIsFirst, Issued

\* The three kinds are subject kinds.
LEMMA Kinds == /\ "master_admin" \in SubjectKind
               /\ "workspace_admin" \in SubjectKind
               /\ "user" \in SubjectKind
BY DEF SubjectKind

\* Every step keeps the inductive invariant.
LEMMA NextIInv == IInv /\ [Next]_vars => IInv'
<1> SUFFICES ASSUME IInv, [Next]_vars PROVE IInv'
  OBVIOUS
<1>1. CASE \E r \in Req, s \in Subject :
             \/ master_admin_login(r, s)
             \/ workspace_admin_login(r, s)
             \/ user_login(r, s)
  BY <1>1, Kinds, LoginVerifiedIInv
     DEF master_admin_login, workspace_admin_login, user_login
<1>2. CASE \E r \in Req, t \in Token :
             \/ master_admin_refresh_inner(r, t)
             \/ workspace_admin_refresh_inner(r, t)
             \/ user_refresh_inner(r, t)
  BY <1>2, Kinds, RefreshFoundIInv
     DEF master_admin_refresh_inner, workspace_admin_refresh_inner, user_refresh_inner
<1>3. CASE \E r \in Req, n \in Token : LoginCommit(r, n) \/ RefreshRotate(r, n)
  BY <1>3, LoginCommitIInv, RefreshRotateIInv
<1>4. CASE \E r \in Req : Abandon(r)
  BY <1>4, AbandonIInv
<1>5. CASE \E t \in Token : logout(t)
  BY <1>5, LogoutIInv
<1>6. CASE (\E s \in Subject : delete_user(s)) \/ Tick \/ UNCHANGED vars
  BY <1>6, OthersIInv
<1> QED BY <1>1, <1>2, <1>3, <1>4, <1>5, <1>6 DEF Next

\* The inductive invariant holds in every reachable state.
THEOREM Invariance == Spec => []IInv
BY InitIInv, NextIInv, PTL DEF Spec

\* Rows, handlers and history keep their types.
THEOREM TypeCorrect == Spec => []TypeOK
<1>1. IInv => TypeOK
  BY DEF IInv
<1> QED BY <1>1, Invariance, PTL

\* A redeemed refresh token is revoked, for any number of racing refreshes.
THEOREM RedeemedTokensAreRevoked == Spec => []RedeemedIsRevoked
<1>1. IInv => RedeemedIsRevoked
  BY DEF IInv
<1> QED BY <1>1, Invariance, PTL

\* A rotation chain keeps the subject and the rank of the login it started at.
THEOREM LineageIdentity == Spec => []LineageKeepsIdentity
<1>1. IInv => LineageKeepsIdentity
  BY DEF IInv
<1> QED BY <1>1, Invariance, PTL

\* A token redeemed twice was redeemed by two handlers.
THEOREM DistinctRedeemers == Spec => []RedeemersAreDistinct
<1>1. IInv => RedeemersAreDistinct
  BY DEF IInv
<1> QED BY <1>1, Invariance, PTL

\* The promise of refresh.rs, a token is redeemed at most once, holds as long
\* as requests are served one at a time.
THEOREM RedeemedOnceIfSequential ==
  ASSUME NEW q, Req = {q}
  PROVE  Spec => []RedeemedOnce
<1>1. IInv => RedeemedOnce
  <2> SUFFICES ASSUME IInv, NEW c \in Token, NEW d \in Token,
                      parent[c] # NoToken, parent[c] = parent[d]
               PROVE  c = d
    BY DEF RedeemedOnce
  <2>1. issuer[c] = q /\ issuer[d] = q
    BY DEF IInv, OnlyIssuedHaveParents
  <2> QED BY <2>1 DEF IInv, RedeemersAreDistinct
<1> QED BY <1>1, Invariance, PTL

\* No step takes a revocation back.
THEOREM RevocationIsFinal == Spec => RevokedForever
<1>1. IInv /\ [Next]_vars =>
        [\A t \in Token : rows[t].status = "revoked" => rows'[t].status = "revoked"]_vars
  <2> SUFFICES ASSUME IInv, Next, NEW t \in Token, rows[t].status = "revoked"
               PROVE  rows'[t].status = "revoked"
    OBVIOUS
  <2>0. TypeOK /\ Issued(t)
    BY DEF IInv, Issued
  <2>1. CASE \E r \in Req, n \in Token : LoginCommit(r, n)
    <3>1. PICK r \in Req, n \in Token : LoginCommit(r, n)
      BY <2>1
    <3>2. n # t /\ rows' = [rows EXCEPT ![n] = rows'[n]]
      BY <3>1, <2>0 DEF LoginCommit, commit_user_login, Draw, TypeOK
    <3> QED BY <3>2, <2>0 DEF TypeOK
  <2>2. CASE \E r \in Req, n \in Token : RefreshRotate(r, n)
    <3>1. PICK r \in Req, n \in Token : RefreshRotate(r, n)
      BY <2>2
    <3>2. n # t /\ rows' = [rows EXCEPT ![req[r].tok] = revoke_refresh_token(req[r].tok),
                                       ![n] = insert_refresh_token(req[r].kind, req[r].subj)]
      BY <3>1, <2>0 DEF RefreshRotate, rotate_refresh_token, Draw
    <3> QED BY <3>2, <2>0 DEF TypeOK, revoke_refresh_token
  <2>3. CASE \E x \in Token : logout(x)
    BY <2>3, <2>0 DEF logout, revoke_refresh_token, TypeOK
  <2>4. CASE ~ \/ \E r \in Req, n \in Token : LoginCommit(r, n) \/ RefreshRotate(r, n)
               \/ \E x \in Token : logout(x)
    <3>1. rows' = rows
      BY <2>4 DEF Next, master_admin_login, workspace_admin_login, user_login,
             LoginVerified, master_admin_refresh_inner, workspace_admin_refresh_inner,
             user_refresh_inner, RefreshFound, Abandon, delete_user, Tick
    <3> QED BY <3>1
  <2> QED BY <2>1, <2>2, <2>3, <2>4
<1> QED BY <1>1, Invariance, PTL DEF Spec, RevokedForever

\* A subject with nothing live and nothing in flight comes back only through a
\* login, which a deleted user no longer has.
THEOREM SessionsEnd == Spec => DeadUntilLogin
<1>1. IInv /\ [Next]_vars =>
        [\A s \in Subject : Dead(s) =>
           \/ Dead(s)'
           \/ s \in users /\ \E r \in Req : LoginVerified(r, s, KindOf[s])]_vars
  <2> SUFFICES ASSUME IInv, Next, NEW s \in Subject, Dead(s),
                      ~(s \in users /\ \E r \in Req : LoginVerified(r, s, KindOf[s]))
               PROVE  Dead(s)'
    OBVIOUS
  <2>0. /\ TypeOK
        /\ \A r \in Req : req[r].subj # s
        /\ \A t \in Token : ~(rows[t].subj = s /\ rows[t].status = "live" /\ rows[t].exp > now)
    BY DEF IInv, Dead, Working, Live
  <2> SUFFICES /\ \A r \in Req : req'[r].subj # s
               /\ \A t \in Token : ~(rows'[t].subj = s /\ rows'[t].status = "live"
                                      /\ rows'[t].exp > now')
    BY DEF Dead, Working, Live
  <2>1. ASSUME NEW r \in Req, NEW x \in Subject, NEW k \in SubjectKind, LoginVerified(r, x, k)
        PROVE  req'[r].subj # s /\ UNCHANGED <<rows, now>> /\ \A p \in Req \ {r} : req'[p] = req[p]
    <3>1. x # s
      BY <2>1 DEF LoginVerified
    <3> QED BY <3>1, <2>1, <2>0 DEF LoginVerified, TypeOK
  <2>2. ASSUME NEW r \in Req, NEW x \in Token, NEW k \in SubjectKind, RefreshFound(r, x, k)
        PROVE  req'[r].subj # s /\ UNCHANGED <<rows, now>> /\ \A p \in Req \ {r} : req'[p] = req[p]
    BY <2>2, <2>0 DEF RefreshFound, find_active_refresh_token, TypeOK
  <2>3. CASE \E r \in Req, x \in Subject :
               \/ master_admin_login(r, x) \/ workspace_admin_login(r, x) \/ user_login(r, x)
    BY <2>3, <2>1, <2>0, Kinds DEF master_admin_login, workspace_admin_login, user_login
  <2>4. CASE \E r \in Req, x \in Token :
               \/ master_admin_refresh_inner(r, x) \/ workspace_admin_refresh_inner(r, x)
               \/ user_refresh_inner(r, x)
    BY <2>4, <2>2, <2>0, Kinds
       DEF master_admin_refresh_inner, workspace_admin_refresh_inner, user_refresh_inner
  <2>5. CASE \E r \in Req, n \in Token : LoginCommit(r, n)
    <3>1. PICK r \in Req, n \in Token : LoginCommit(r, n)
      BY <2>5
    <3>2. /\ rows' = [rows EXCEPT ![n] = insert_refresh_token(req[r].kind, req[r].subj)]
          /\ req' = [req EXCEPT ![r] = Idle] /\ now' = now
      BY <3>1 DEF LoginCommit, commit_user_login
    <3> QED BY <3>2, <2>0 DEF TypeOK, insert_refresh_token, Idle
  <2>6. CASE \E r \in Req, n \in Token : RefreshRotate(r, n)
    <3>1. PICK r \in Req, n \in Token : RefreshRotate(r, n)
      BY <2>6
    <3>2. /\ rows' = [rows EXCEPT ![req[r].tok] = revoke_refresh_token(req[r].tok),
                                  ![n] = insert_refresh_token(req[r].kind, req[r].subj)]
          /\ req' = [req EXCEPT ![r] = Idle] /\ now' = now
      BY <3>1 DEF RefreshRotate, rotate_refresh_token
    <3> QED BY <3>2, <2>0 DEF TypeOK, insert_refresh_token, revoke_refresh_token, Idle, Issued
  <2>7. CASE \E r \in Req : Abandon(r)
    BY <2>7, <2>0 DEF Abandon, TypeOK, Idle
  <2>8. CASE \E x \in Token : logout(x)
    BY <2>8, <2>0 DEF logout, revoke_refresh_token, TypeOK
  <2>9. CASE \E x \in Subject : delete_user(x)
    BY <2>9, <2>0 DEF delete_user
  <2>10. CASE Tick
    <3>1. \A t \in Token : rows[t].exp \in Nat
      BY <2>0 DEF TypeOK, Row, Absent
    <3> QED BY <3>1, <2>10, <2>0 DEF Tick, TypeOK
  <2> QED BY <2>3, <2>4, <2>5, <2>6, <2>7, <2>8, <2>9, <2>10 DEF Next
<1> QED BY <1>1, Invariance, PTL DEF Spec, DeadUntilLogin
=============================================================================
