------------------------------ MODULE Accounts ------------------------------
(***************************************************************************)
(* The end users of one workspace and the two ways an address gets proven: *)
(* the e-mail verification link and OAuth sign-in.  Registration, admin    *)
(* verify and delete, and provider administration run beside them.  Every  *)
(* SQL statement is one step; the calls to the OAuth provider are answered *)
(* by the environment.                                                     *)
(***************************************************************************)
EXTENDS Naturals, FiniteSets

CONSTANTS
  Req,        \* concurrent requests
  User,       \* user ids the id generator can hand out
  Email,      \* addresses
  Account,    \* accounts at the OAuth provider (provider_user_id)
  Nonce,      \* state nonces of /authorize
  Token,      \* verification tokens
  Key,        \* values of RUSTBASE_KEK
  MaxRestart, \* bound: restarts
  MaxReq      \* bound: requests

NoKey == "nokey"
None == "none"

\* The marks for "no value" are not values, and a nonce is not a token.
ASSUME AccountConstants ==
  /\ MaxRestart \in Nat /\ MaxReq \in Nat
  /\ None \notin Account /\ {None, "gone"} \cap Email = {} /\ Nonce \cap Token = {}

Fresh == [email |-> None, verified |-> FALSE]
Gone == [email |-> "gone", verified |-> FALSE]

VARIABLES
  user,     \* users: [email, verified], Fresh before and Gone after
  link,     \* user_oauth_links of the provider: Account or None, per user
  nonce,    \* _oauth_states: [st, verifier], st as in SingleUse
  token,    \* _email_verifications: [st, user]
  stale,    \* nonces and tokens past their expires_at
  provider, \* oauth_providers: None, or the key its secret is encrypted under
  kek,      \* AppState.oauth_kek
  req,      \* handlers in flight
  restarts, requests,
  wins,     \* history: successful redemptions, per nonce and token
  proven,   \* history: users whose address was proven or vouched for
  session,  \* history: was the user verified when an OAuth login was committed
  raced     \* history: accounts with two callbacks in flight at once

tables == <<user, link, nonce, token, stale, provider>>
hist == <<restarts, requests, wins, proven, session, raced>>
vars == <<tables, kek, req, hist>>

Idle == [pc |-> "idle", u |-> None, e |-> None, x |-> None, n |-> None, t |-> None, seen |-> FALSE]

Init ==
  /\ user = [u \in User |-> Fresh] /\ link = [u \in User |-> None]
  /\ nonce = [n \in Nonce |-> [st |-> "absent", verifier |-> NoKey]]
  /\ token = [t \in Token |-> [st |-> "absent", user |-> None]]
  /\ stale = {} /\ provider = None
  /\ kek \in Key \cup {NoKey}
  /\ req = [r \in Req |-> Idle]
  /\ restarts = 0 /\ requests = 0
  /\ wins = [i \in Nonce \cup Token |-> 0]
  /\ proven = {} /\ session = {} /\ raced = {}

-----------------------------------------------------------------------------
(* Statements on users and links. *)

\* find_user_by_id returns a row.
Exists(u) == u \in User /\ user[u].email \in Email
find_user_by_email(e) == {u \in User : Exists(u) /\ user[u].email = e}

\* Faulty variant: the caller supplies the flag, and OAuth signups are born verified.
InsertVerified(u, e) == user' = [user EXCEPT ![u] = [email |-> e, verified |-> TRUE]]

\* INSERT with a fresh id; the UNIQUE address refuses a second row.
insert_user(u, e) == user' = [user EXCEPT ![u] = [email |-> e, verified |-> FALSE]]

mark_verified(u) ==
  user' = [v \in User |-> IF v = u /\ Exists(v) THEN [user[v] EXCEPT !.verified = TRUE] ELSE user[v]]

\* ON DELETE CASCADE takes the links and verification tokens along.
delete_user(u) ==
  /\ user' = [user EXCEPT ![u] = Gone]
  /\ link' = [link EXCEPT ![u] = None]
  /\ token' = [t \in Token |-> IF token[t].user = u /\ token[t].st # "absent"
                               THEN [token[t] EXCEPT !.st = "gone"] ELSE token[t]]

\* Faulty variant: the link table is not consulted.
FindNoLink(x) == {}

find_by_provider_user(x) == {u \in User : Exists(u) /\ link[u] = x}

\* ON CONFLICT(user_id, provider) DO UPDATE.
upsert_link(u, x) == link' = [link EXCEPT ![u] = x]

-----------------------------------------------------------------------------
(* Request plumbing. *)

At(r, pc) == req[r].pc = pc
Go(r, pc) == req' = [req EXCEPT ![r].pc = pc]
End(r) == req' = [req EXCEPT ![r] = Idle]
Begin(r, q) ==
  /\ At(r, "idle") /\ requests < MaxReq
  /\ requests' = requests + 1 /\ req' = [req EXCEPT ![r] = q]
  /\ UNCHANGED <<restarts, wins, proven, session, raced>>

Quiet == UNCHANGED hist

-----------------------------------------------------------------------------
(* Registration and the admin endpoints. *)

\* user_register looks the address up,
RegisterFind(r, e) ==
  /\ find_user_by_email(e) = {}
  /\ Begin(r, [Idle EXCEPT !.pc = "register", !.e = e])
  /\ UNCHANGED <<tables, kek>>

\* and inserts after hashing the password; somebody may have been faster.
RegisterInsert(r) ==
  LET e == req[r].e IN
  /\ At(r, "register") /\ End(r)
  /\ \/ find_user_by_email(e) # {} /\ UNCHANGED user
     \/ /\ find_user_by_email(e) = {}
        /\ \E u \in User : user[u] = Fresh /\ insert_user(u, e)
  /\ UNCHANGED <<link, nonce, token, stale, provider, kek>> /\ Quiet

\* PATCH users/:id/verify: found, then marked.
AdminVerifyFind(r, u) ==
  /\ Exists(u) /\ Begin(r, [Idle EXCEPT !.pc = "force", !.u = u])
  /\ UNCHANGED <<tables, kek>>

AdminVerify(r) ==
  /\ At(r, "force") /\ End(r) /\ mark_verified(req[r].u)
  /\ proven' = proven \cup {req[r].u}
  /\ UNCHANGED <<link, nonce, token, stale, provider, kek, restarts, requests, wins, session, raced>>

\* DELETE users/:id is one statement.  Ids are random and never come back.
AdminDelete(u) ==
  /\ Exists(u) /\ delete_user(u)
  /\ UNCHANGED <<nonce, stale, provider, kek, req>> /\ Quiet

\* secret_box.rs: a ciphertext is known by the key that made it and opens with no other.
encrypt(k) == k
decrypt(ct, k) == ct = k

find_provider == provider # None
upsert_provider(k) == provider' = k
delete_provider == provider' = None

\* PUT provider: a new secret needs the key; without one the stored ciphertext stays.
ProviderPut(keep) ==
  /\ IF keep THEN find_provider /\ upsert_provider(provider)
             ELSE kek # NoKey /\ upsert_provider(encrypt(kek))
  /\ UNCHANGED <<user, link, nonce, token, stale, kek, req>> /\ Quiet

ProviderDelete ==
  /\ find_provider /\ delete_provider
  /\ UNCHANGED <<user, link, nonce, token, stale, kek, req>> /\ Quiet

-----------------------------------------------------------------------------
(* E-mail verification. *)

issue(t, u) == token' = [token EXCEPT ![t] = [st |-> "pending", user |-> u]]

\* consume()'s read: the row is there, unused and not expired.
find(t) == token[t].st = "pending" /\ t \notin stale

\* request: an existing, not yet verified user gets a token, which is mailed; the row
\* stays when the mail fails.
VerifyRequest(u, t) ==
  /\ Exists(u) /\ ~user[u].verified /\ token[t].st = "absent"
  /\ issue(t, u)
  /\ UNCHANGED <<user, link, nonce, stale, provider, kek, req>> /\ Quiet

\* confirm: unknown, used or expired tokens are refused.
ConfirmFind(r, t) ==
  /\ find(t)
  /\ Begin(r, [Idle EXCEPT !.pc = "confirm", !.t = t, !.u = token[t].user])
  /\ UNCHANGED <<tables, kek>>

\* Faulty variant: the UPDATE does not look at consumed_at again.
ConfirmUnguarded(r) ==
  LET t == req[r].t IN
  /\ At(r, "confirm")
  /\ token' = [token EXCEPT ![t].st = "spent"]
  /\ wins' = [wins EXCEPT ![t] = @ + 1]
  /\ proven' = proven \cup {req[r].u} /\ Go(r, "mark")
  /\ UNCHANGED <<user, link, nonce, stale, provider, kek, restarts, requests, session, raced>>

\* consume()'s guarded UPDATE decides.
ConfirmConsume(r) ==
  LET t == req[r].t IN
  /\ At(r, "confirm")
  /\ \/ /\ token[t].st = "pending"
        /\ token' = [token EXCEPT ![t].st = "spent"]
        /\ wins' = [wins EXCEPT ![t] = @ + 1]
        /\ proven' = proven \cup {req[r].u} /\ Go(r, "mark")
     \/ token[t].st # "pending" /\ End(r) /\ UNCHANGED <<token, wins, proven>>
  /\ UNCHANGED <<user, link, nonce, stale, provider, kek, restarts, requests, session, raced>>

ConfirmMark(r) ==
  /\ At(r, "mark") /\ End(r) /\ mark_verified(req[r].u)
  /\ UNCHANGED <<link, nonce, token, stale, provider, kek>> /\ Quiet

-----------------------------------------------------------------------------
(* OAuth sign-in. *)

\* The PKCE verifier is stored encrypted when there is a key, in clear otherwise.
verifier_for_storage == IF kek = NoKey THEN NoKey ELSE encrypt(kek)

\* Reading it back needs the key it was written under.
verifier_from_storage(v) == v = NoKey \/ (kek # NoKey /\ decrypt(v, kek))

\* 32 random bytes: never drawn before.
fresh_state_nonce(n) == nonce[n].st = "absent"

issue_state(n) == nonce' = [nonce EXCEPT ![n] = [st |-> "pending", verifier |-> verifier_for_storage]]

\* What the provider answers: it takes the code or not, and then names an account of
\* its own and the address it holds for it today.
exchange_code == BOOLEAN
fetch_userinfo == Account \X Email

\* authorize: the provider must be configured; the nonce row is inserted.
Authorize(n) ==
  /\ find_provider /\ fresh_state_nonce(n) /\ issue_state(n)
  /\ UNCHANGED <<user, link, token, stale, provider, kek, req>> /\ Quiet

\* callback, consume()'s read.  A nonce of another provider is refused like an unknown
\* one; one provider is modelled.
CallbackFind(r, n) ==
  /\ nonce[n].st = "pending" /\ n \notin stale
  /\ Begin(r, [Idle EXCEPT !.pc = "consume", !.n = n])
  /\ UNCHANGED <<tables, kek>>

\* consume()'s guarded UPDATE: the nonce is spent whatever happens afterwards.
CallbackConsume(r) ==
  LET n == req[r].n IN
  /\ At(r, "consume")
  /\ \/ /\ nonce[n].st = "pending"
        /\ nonce' = [nonce EXCEPT ![n].st = "spent"]
        /\ wins' = [wins EXCEPT ![n] = @ + 1] /\ Go(r, "provider")
     \/ nonce[n].st # "pending" /\ End(r) /\ UNCHANGED <<nonce, wins>>
  /\ UNCHANGED <<user, link, token, stale, provider, kek, restarts, requests, proven, session, raced>>

\* The provider row is read again, its secret and the verifier are decrypted, the code is
\* exchanged and the profile fetched.  Every failure on the way ends the request with
\* the nonce spent.
Exchange(r) ==
  /\ At(r, "provider")
  /\ \E ok \in exchange_code, who \in fetch_userinfo :
       IF ok /\ find_provider /\ kek # NoKey /\ decrypt(provider, kek) /\ verifier_from_storage(nonce[req[r].n].verifier)
       THEN /\ req' = [req EXCEPT ![r] = [Idle EXCEPT !.pc = "link", !.x = who[1], !.e = who[2]]]
            /\ raced' = IF \E q \in Req : req[q].x = who[1] THEN raced \cup {who[1]} ELSE raced
       ELSE End(r) /\ UNCHANGED raced
  /\ UNCHANGED <<tables, kek, restarts, requests, wins, proven, session>>

\* resolve_user, first branch: the account is linked.
ResolveByLink(r) ==
  /\ At(r, "link")
  /\ \/ \E u \in find_by_provider_user(req[r].x) :
          req' = [req EXCEPT ![r].pc = "linked", ![r].u = u]
     \/ find_by_provider_user(req[r].x) = {} /\ Go(r, "email")
  /\ UNCHANGED <<tables, kek>> /\ Quiet

\* The linked user is loaded; it may be gone by now.
ResolveLinked(r) ==
  LET u == req[r].u IN
  /\ At(r, "linked")
  /\ IF ~Exists(u) THEN End(r) ELSE Go(r, IF user[u].verified THEN "login" ELSE "verify")
  /\ UNCHANGED <<tables, kek>> /\ Quiet

\* Second branch: a user with the asserted address.  `verified` is as read here.
ResolveByEmail(r) ==
  /\ At(r, "email")
  /\ \/ \E u \in find_user_by_email(req[r].e) :
          req' = [req EXCEPT ![r].pc = "upsert", ![r].u = u, ![r].seen = user[u].verified]
     \/ find_user_by_email(req[r].e) = {} /\ Go(r, "signup")
  /\ UNCHANGED <<tables, kek>> /\ Quiet

\* The foreign key refuses a link to a user deleted meanwhile.
LinkExisting(r) ==
  LET q == req[r] IN
  /\ At(r, "upsert")
  /\ \/ ~Exists(q.u) /\ End(r) /\ UNCHANGED <<link, proven>>
     \/ /\ Exists(q.u) /\ upsert_link(q.u, q.x) /\ proven' = proven \cup {q.u}
        /\ Go(r, IF q.seen THEN "login" ELSE "verify")
  /\ UNCHANGED <<user, nonce, token, stale, provider, kek, restarts, requests, wins, session, raced>>

\* Third branch: passwordless signup, marked verified before the link is written.
SignUp(r) ==
  LET q == req[r] IN
  /\ At(r, "signup")
  /\ \/ find_user_by_email(q.e) # {} /\ End(r) /\ UNCHANGED <<user, proven>>
     \/ /\ find_user_by_email(q.e) = {}
        /\ \E u \in User : /\ user[u] = Fresh /\ insert_user(u, q.e)
                           /\ proven' = proven \cup {u}
                           /\ req' = [req EXCEPT ![r].u = u, ![r].pc = "signupmark"]
  /\ UNCHANGED <<link, nonce, token, stale, provider, kek, restarts, requests, wins, session, raced>>

SignUpMark(r) ==
  /\ At(r, "signupmark") /\ mark_verified(req[r].u)
  /\ req' = [req EXCEPT ![r].pc = "upsert", ![r].seen = TRUE]
  /\ UNCHANGED <<link, nonce, token, stale, provider, kek>> /\ Quiet

\* Faulty variant: the flag is left for the next sign-in to set.
SkipMark(r) ==
  /\ At(r, "verify") /\ Go(r, "login")
  /\ UNCHANGED <<tables, kek>> /\ Quiet

\* `if !user.verified`: an earlier callback may have died between link and flag.
MarkResolved(r) ==
  /\ At(r, "verify") /\ mark_verified(req[r].u) /\ Go(r, "login")
  /\ UNCHANGED <<link, nonce, token, stale, provider, kek>> /\ Quiet

\* The hooks may veto; otherwise last_login and the refresh token are committed together.
CommitLogin(r) ==
  LET u == req[r].u IN
  /\ At(r, "login") /\ End(r)
  /\ session' \in {session, session \cup {IF Exists(u) THEN user[u].verified ELSE TRUE}}
  /\ UNCHANGED <<tables, kek, restarts, requests, wins, proven, raced>>

-----------------------------------------------------------------------------
(* Time and failures. *)

Expire(i) ==
  /\ i \notin stale
  /\ (i \in Nonce /\ nonce[i].st = "pending") \/ (i \in Token /\ token[i].st = "pending")
  /\ stale' = stale \cup {i}
  /\ UNCHANGED <<user, link, nonce, token, provider, kek, req>> /\ Quiet

\* A client that hangs up drops the handler's future at its next await.
Abandon(r) == req[r].pc # "idle" /\ End(r) /\ UNCHANGED <<tables, kek>> /\ Quiet

\* A restart, possibly with another RUSTBASE_KEK.
Restart ==
  /\ restarts < MaxRestart /\ restarts' = restarts + 1
  /\ kek' \in Key \cup {NoKey} /\ req' = [r \in Req |-> Idle]
  /\ UNCHANGED <<tables, requests, wins, proven, session, raced>>

Step(r) ==
  \/ RegisterInsert(r) \/ AdminVerify(r)
  \/ ConfirmConsume(r) \/ ConfirmMark(r)
  \/ CallbackConsume(r) \/ Exchange(r) \/ ResolveByLink(r) \/ ResolveLinked(r)
  \/ ResolveByEmail(r) \/ LinkExisting(r) \/ SignUp(r) \/ SignUpMark(r)
  \/ MarkResolved(r) \/ CommitLogin(r) \/ Abandon(r)

Next ==
  \/ \E r \in Req : Step(r)
  \/ \E r \in Req, e \in Email : RegisterFind(r, e)
  \/ \E r \in Req, u \in User : AdminVerifyFind(r, u)
  \/ \E r \in Req, t \in Token : ConfirmFind(r, t)
  \/ \E r \in Req, n \in Nonce : CallbackFind(r, n)
  \/ \E u \in User : AdminDelete(u)
  \/ \E u \in User, t \in Token : VerifyRequest(u, t)
  \/ \E n \in Nonce : Authorize(n)
  \/ \E keep \in BOOLEAN : ProviderPut(keep)
  \/ ProviderDelete \/ Restart
  \/ \E i \in Nonce \cup Token : Expire(i)

Spec == Init /\ [][Next]_vars

-----------------------------------------------------------------------------
(* Properties. *)

Status == {"absent", "pending", "spent", "gone"}

\* Shape of the state.
TypeOK ==
  /\ user \in [User -> {Fresh, Gone} \cup [email : Email, verified : BOOLEAN]]
  /\ link \in [User -> Account \cup {None}]
  /\ nonce \in [Nonce -> [st : Status, verifier : Key \cup {NoKey}]]
  /\ token \in [Token -> [st : Status, user : User \cup {None}]]
  /\ stale \subseteq Nonce \cup Token
  /\ provider \in Key \cup {None} /\ kek \in Key \cup {NoKey}
  /\ wins \in [Nonce \cup Token -> 0 .. 2]
  /\ \A v, w \in User : Exists(v) /\ Exists(w) /\ user[v].email = user[w].email => v = w

VerifyTokens == INSTANCE SingleUse WITH Token <- Token,
                  state <- [t \in Token |-> token[t].st], wins <- [t \in Token |-> wins[t]]
OAuthStates == INSTANCE SingleUse WITH Token <- Nonce,
                 state <- [n \in Nonce |-> nonce[n].st], wins <- [n \in Nonce |-> wins[n]]

\* Both tables implement the one-shot token, the read and the UPDATE of their consume()
\* interleaving with anybody's: a verification link works once and never after its user was
\* deleted; one callback per nonce of /authorize reaches the provider, whichever way it ends.
SingleUseHolds == VerifyTokens!Spec /\ OAuthStates!Spec

\* `verified` is never set on a user nobody vouched for: some step consumed a link mailed
\* to that very user, linked a provider account asserting that address, or an admin
\* forced it.  A user re-registered under a deleted user's address starts unverified.
VerifiedIsVouchedFor == \A u \in User : Exists(u) /\ user[u].verified => u \in proven

\* "Marks verified=true in every branch": a login committed by an OAuth callback is of a
\* verified user, also when an earlier callback died between writing the link and
\* setting the flag.
OAuthLoginsAreVerified == session \subseteq {TRUE}

\* A provider account leads to one user.  The table has no constraint on it; find-before-
\* link keeps it so, except for two callbacks of one account in flight together.
OneUserPerAccount ==
  \A x \in Account \ raced : Cardinality({u \in User : Exists(u) /\ link[u] = x}) <= 1
=============================================================================
