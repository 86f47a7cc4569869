---------------------------- MODULE RefreshTokens ----------------------------
(***************************************************************************)
(* Refresh tokens: the `_refresh_tokens` tables (rustbase-db/tokens.rs)     *)
(* and the HTTP handlers that write them (rustbase-api/auth: login.rs,      *)
(* refresh.rs, logout.rs; users.rs for the admin delete).                   *)
(*                                                                         *)
(* A handler is an async task; every SQL statement or transaction it awaits *)
(* is one atomic step of the model, and steps of different handlers         *)
(* interleave.  Refresh is the interesting one: the row is looked up in one *)
(* statement and rotated in a later transaction.  A dropped connection      *)
(* drops the handler's future at an await point (Abandon).                  *)
(*                                                                         *)
(* A clear token and its SHA-256 digest are the same model value: the only  *)
(* thing the code does with the digest is compare it for equality.          *)
(***************************************************************************)
EXTENDS Naturals

CONSTANTS
  Req,        \* concurrently running request handlers
  Token,      \* the random strings new_refresh_token can draw
  Subject,    \* subject ids: master admins, workspace admins, users
  KindOf,     \* what kind of subject an id denotes
  NoToken,    \* "no token": parent of a login token, token of an idle handler
  NoSubject,  \* subject of an idle handler and of an absent row
  NoReq,      \* issuer of an absent row
  Ttl,        \* default_refresh_ttl, in clock ticks
  MaxTime     \* bound: the clock stops here

\* SubjectKind::AppAdmin exists in the code but no endpoint issues such a token.
SubjectKind == {"master_admin", "workspace_admin", "user"}

ASSUME RefreshAssumption ==
  /\ KindOf \in [Subject -> SubjectKind]
  /\ NoToken \notin Token
  /\ NoSubject \notin Subject
  /\ NoReq \notin Req
  /\ Ttl \in Nat \ {0}
  /\ MaxTime \in Nat

VARIABLES
  rows,    \* rows[t]: the row whose token_hash is t's digest
  users,   \* ids present in `users` / the admin tables
  req,     \* what each handler remembers across its awaits
  now,     \* Utc::now()
  parent,  \* history: the token a row was rotated from (NoToken: a login)
  issuer   \* history: the handler that inserted a row

vars == <<rows, users, req, now, parent, issuer>>

Absent == [status |-> "absent", kind |-> "none", subj |-> NoSubject, exp |-> 0]

Row == {Absent} \cup
       [status : {"live", "revoked"}, kind : SubjectKind, subj : Subject, exp : Nat]

Idle == [pc |-> "idle", kind |-> "none", tok |-> NoToken, subj |-> NoSubject]

Handler == {Idle} \cup
           [pc : {"login"}, kind : SubjectKind, tok : {NoToken}, subj : Subject] \cup
           [pc : {"refresh"}, kind : SubjectKind, tok : Token, subj : Subject]

TypeOK ==
  /\ rows \in [Token -> Row]
  /\ users \subseteq Subject
  /\ req \in [Req -> Handler]
  /\ now \in Nat
  /\ parent \in [Token -> Token \cup {NoToken}]
  /\ issuer \in [Token -> Req \cup {NoReq}]

Issued(t) == rows[t].status # "absent"

Init ==
  /\ rows = [t \in Token |-> Absent]
  /\ users = Subject
  /\ req = [r \in Req |-> Idle]
  /\ now = 0
  /\ parent = [t \in Token |-> NoToken]
  /\ issuer = [t \in Token |-> NoReq]

-----------------------------------------------------------------------------
(* rustbase-db/tokens.rs *)

\* The row a login or a rotation inserts.
insert_refresh_token(kind, s) ==
  [status |-> "live", kind |-> kind, subj |-> s, exp |-> now + Ttl]

\* new_refresh_token draws 256 random bits; the digest is the primary key, so a
\* drawn token is one that was never issued.  The rest is history.
Draw(r, n, from) ==
  /\ ~Issued(n)
  /\ parent' = [parent EXCEPT ![n] = from]
  /\ issuer' = [issuer EXCEPT ![n] = r]

\* Faulty variant: the subject_kind column is not part of the lookup.
FindIgnoringKind(t, kind) ==
  /\ rows[t].status = "live"
  /\ rows[t].exp > now

\* Faulty variant: the expires_at column is not part of the lookup.
FindIgnoringExpiry(t, kind) ==
  /\ rows[t].status = "live"
  /\ rows[t].kind = kind

\* WHERE token_hash = ? AND subject_kind = ? AND revoked = 0 AND expires_at > now
find_active_refresh_token(t, kind) ==
  /\ rows[t].status = "live"
  /\ rows[t].kind = kind
  /\ rows[t].exp > now

\* UPDATE ... SET revoked = 1 WHERE token_hash = ?: unconditional, a second
\* revocation is a no-op, a missing row is a no-op.
revoke_refresh_token(t) ==
  IF Issued(t)
    THEN [status |-> "revoked", kind |-> rows[t].kind, subj |-> rows[t].subj,
          exp |-> rows[t].exp]
    ELSE rows[t]

\* Faulty variant: the new token is inserted and the old one left alone.
RotateWithoutRevoke(r, old, n, kind, s) ==
  /\ Draw(r, n, old)
  /\ rows' = [rows EXCEPT ![n] = insert_refresh_token(kind, s)]

\* One transaction: revoke the old row, insert the new one.  The UPDATE has no
\* "AND revoked = 0" and its row count is not looked at.
rotate_refresh_token(r, old, n, kind, s) ==
  /\ Draw(r, n, old)
  /\ rows' = [rows EXCEPT ![old] = revoke_refresh_token(old),
                          ![n] = insert_refresh_token(kind, s)]

\* One transaction: bump last_login (zero rows if the user is gone, which is
\* not an error) and insert the refresh row.
commit_user_login(r, n, kind, s) ==
  /\ Draw(r, n, NoToken)
  /\ rows' = [rows EXCEPT ![n] = insert_refresh_token(kind, s)]

-----------------------------------------------------------------------------
(* rustbase-api/auth/login.rs: the credential check reads the subject's row  *)
(* and the token is inserted in a later transaction.  The checks in between  *)
(* (lockout, password, hooks, the TOTP gate) only decide whether the handler *)
(* gets as far as that transaction; giving up is Abandon.                    *)

LoginVerified(r, s, kind) ==
  /\ req[r] = Idle
  /\ s \in users
  /\ KindOf[s] = kind
  /\ req' = [req EXCEPT ![r] =
               [pc |-> "login", kind |-> kind, tok |-> NoToken, subj |-> s]]
  /\ UNCHANGED <<rows, users, now, parent, issuer>>

master_admin_login(r, s) == LoginVerified(r, s, "master_admin")

workspace_admin_login(r, s) == LoginVerified(r, s, "workspace_admin")

user_login(r, s) == LoginVerified(r, s, "user")

LoginCommit(r, n) ==
  /\ req[r].pc = "login"
  /\ commit_user_login(r, n, req[r].kind, req[r].subj)
  /\ req' = [req EXCEPT ![r] = Idle]
  /\ UNCHANGED <<users, now>>

-----------------------------------------------------------------------------
(* rustbase-api/auth/refresh.rs.  A lookup that finds nothing answers 401    *)
(* and changes nothing.  None of the three endpoints looks at `users`.       *)

RefreshFound(r, t, kind) ==
  /\ req[r] = Idle
  /\ find_active_refresh_token(t, kind)
  /\ req' = [req EXCEPT ![r] = [pc |-> "refresh", kind |-> kind,
                                tok |-> t, subj |-> rows[t].subj]]
  /\ UNCHANGED <<rows, users, now, parent, issuer>>

master_admin_refresh_inner(r, t) == RefreshFound(r, t, "master_admin")

user_refresh_inner(r, t) == RefreshFound(r, t, "user")

workspace_admin_refresh_inner(r, t) == RefreshFound(r, t, "workspace_admin")

RefreshRotate(r, n) ==
  /\ req[r].pc = "refresh"
  /\ rotate_refresh_token(r, req[r].tok, n, req[r].kind, req[r].subj)
  /\ req' = [req EXCEPT ![r] = Idle]
  /\ UNCHANGED <<users, now>>

-----------------------------------------------------------------------------
\* logout: best-effort revoke against system.db only, so it reaches the
\* tokens of master admins; any other presented token updates no row.
logout(t) ==
  /\ Issued(t)
  /\ rows[t].kind = "master_admin"
  /\ rows' = [rows EXCEPT ![t] = revoke_refresh_token(t)]
  /\ UNCHANGED <<users, req, now, parent, issuer>>

\* DELETE .../users/:id: the users row and, by foreign key, the rows that
\* reference it.  `_refresh_tokens` has no foreign key.
delete_user(s) ==
  /\ s \in users
  /\ KindOf[s] = "user"
  /\ users' = users \ {s}
  /\ UNCHANGED <<rows, req, now, parent, issuer>>

\* The client goes away, a hook vetoes or a later check fails: the handler
\* ends between two awaits.
Abandon(r) ==
  /\ req[r] # Idle
  /\ req' = [req EXCEPT ![r] = Idle]
  /\ UNCHANGED <<rows, users, now, parent, issuer>>

Tick ==
  /\ now < MaxTime
  /\ now' = now + 1
  /\ UNCHANGED <<rows, users, req, parent, issuer>>

Next ==
  \/ \E r \in Req, s \in Subject :
       \/ master_admin_login(r, s)
       \/ workspace_admin_login(r, s)
       \/ user_login(r, s)
  \/ \E r \in Req, t \in Token :
       \/ master_admin_refresh_inner(r, t)
       \/ workspace_admin_refresh_inner(r, t)
       \/ user_refresh_inner(r, t)
  \/ \E r \in Req, n \in Token : LoginCommit(r, n) \/ RefreshRotate(r, n)
  \/ \E r \in Req : Abandon(r)
  \/ \E t \in Token : logout(t)
  \/ \E s \in Subject : delete_user(s)
  \/ Tick

Spec == Init /\ [][Next]_vars

-----------------------------------------------------------------------------
(* Properties *)

\* A token that has been redeemed is dead, whatever raced with the rotation:
\* the row a new row was rotated from is revoked.
RedeemedIsRevoked ==
  \A c \in Token : parent[c] # NoToken => rows[parent[c]].status = "revoked"

\* A rotation chain never changes owner or rank: user and workspace-admin
\* tokens share one table, the kind written is the endpoint's and the subject
\* is the one read before the await, and still every row's kind is its
\* subject's kind and every child belongs to its parent's subject.
LineageKeepsIdentity ==
  \A t \in Token : Issued(t) =>
    /\ rows[t].kind = KindOf[rows[t].subj]
    /\ parent[t] # NoToken => rows[t].subj = rows[parent[t]].subj

\* What rotation without a guarded UPDATE still gives: if one token was
\* redeemed twice, two different handlers did it.  A second redemption is only
\* open to a handler that had looked the token up before the first one.
RedeemersAreDistinct ==
  \A c, d \in Token :
    parent[c] # NoToken /\ parent[c] = parent[d] /\ issuer[c] = issuer[d] => c = d

\* Revoking a row is final.
RevokedForever ==
  [][\A t \in Token : rows[t].status = "revoked" => rows'[t].status = "revoked"]_vars

Working(s) == \E r \in Req : req[r].subj = s

Live(s) == \E t \in Token :
  rows[t].subj = s /\ rows[t].status = "live" /\ rows[t].exp > now

Dead(s) == ~Working(s) /\ ~Live(s)

\* Once nothing of a subject is live and no handler is in the middle of one of
\* its requests, only a fresh login brings the subject back: no refresh
\* endpoint can revive a logged-out or expired session.  For a deleted user
\* there is no login any more, so the session is over for good.
DeadUntilLogin ==
  [][\A s \in Subject : Dead(s) =>
       \/ Dead(s)'
       \/ s \in users /\ \E r \in Req : LoginVerified(r, s, KindOf[s])]_vars

\* refresh.rs: "each refresh revokes the presented token and issues a fresh
\* one.  Reusing a refresh that's already been redeemed fails."
RedeemedOnce ==
  \A c, d \in Token : parent[c] # NoToken /\ parent[c] = parent[d] => c = d

\* users.rs: the admin delete "cascade-deletes the user and every auth-side
\* row referencing them", so no refresh row of a deleted user is left.
NoTokenOfDeletedUser ==
  \A t \in Token : Issued(t) => rows[t].subj \in users
=============================================================================
