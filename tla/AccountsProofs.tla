--------------------------- MODULE AccountsProofs ---------------------------
(***************************************************************************)
(* What the accounts of a workspace promise, for any number of users,       *)
(* addresses, provider accounts, nonces, tokens and concurrent requests:    *)
(* nobody is verified unvouched, OAuth logs in verified users only, a       *)
(* provider account leads to one user unless its callbacks overlapped, and  *)
(* links and nonces work once.                                              *)
(***************************************************************************)
EXTENDS Accounts, FiniteSetTheorems, TLAPS

UserRow == {Fresh, Gone} \cup [email : Email, verified : BOOLEAN]
Request ==
  [pc : {"idle", "register", "force", "confirm", "mark", "consume", "provider", "link", "linked", "email",
         "upsert", "signup", "signupmark", "verify", "login"},
   u : User \cup {None}, e : Email \cup {None}, x : Account \cup {None}, n : Nonce \cup {None},
   t : Token \cup {None}, seen : BOOLEAN]

\* A row that is verified as long as it exists.
Sure(u) == Exists(u) => user[u].verified

\* What a handler knows at each of its awaits: it works on ids that exist or existed, on a
\* user that was vouched for before its flag is set, and on a verified one at the login.
Placed(h) ==
  /\ h.pc \in {"register", "link", "email", "signup"} => h.e \in Email
  /\ h.pc = "confirm" => h.t \in Token
  /\ h.pc \in {"consume", "provider"} => h.n \in Nonce
  /\ h.pc \in {"link", "email", "signup", "signupmark", "upsert"} => h.x \in Account
  /\ h.pc \in {"force", "confirm", "mark", "linked", "verify", "signupmark", "upsert", "login"} => h.u \in User
  /\ h.pc \in {"mark", "linked", "verify", "signupmark"} => h.u \in proven
  /\ h.pc \in {"linked", "verify", "signupmark", "upsert", "login"} => user[h.u] # Fresh
  /\ h.pc = "login" \/ (h.pc = "upsert" /\ h.seen) => Sure(h.u)

ReqInv == req \in [Req -> Request] /\ \A r \in Req : Placed(req[r])

\* Users: addresses are unique and only vouched-for users are verified.
UserInv ==
  /\ user \in [User -> UserRow]
  /\ \A v, w \in User : Exists(v) /\ Exists(w) /\ user[v].email = user[w].email => v = w
  /\ VerifiedIsVouchedFor

\* Links: an account is linked once, and a handler that looked for its link in vain still
\* would not find one, unless two callbacks of the account overlapped.
Searching == {"email", "signup", "signupmark", "upsert"}
Unlinked(x) == \A u \in User : Exists(u) => link[u] # x
LinkedOnce(x) == \A u, v \in User : Exists(u) /\ Exists(v) /\ link[u] = x /\ link[v] = x => u = v
Alone(x) == \A p, q \in Req : req[p].x = x /\ req[q].x = x => p = q
LinkInv ==
  /\ link \in [User -> Account \cup {None}]
  /\ \A u \in User : link[u] # None => u \in proven /\ user[u] # Fresh
  /\ \A x \in Account \ raced :
       /\ LinkedOnce(x) /\ Alone(x)
       /\ \A q \in Req : req[q].x = x /\ req[q].pc \in Searching => Unlinked(x)

\* The one-shot tables: who is still pending was never redeemed.
ShotInv ==
  /\ nonce \in [Nonce -> [st : Status, verifier : Key \cup {NoKey}]]
  /\ token \in [Token -> [st : Status, user : User \cup {None}]]
  /\ stale \subseteq Nonce \cup Token /\ provider \in Key \cup {None} /\ kek \in Key \cup {NoKey}
  /\ wins \in [Nonce \cup Token -> 0 .. 1]
  /\ \A t \in Token : /\ token[t].st \in {"absent", "pending"} => wins[t] = 0
                      /\ token[t].st # "absent" => token[t].user \in User
  /\ \A n \in Nonce : nonce[n].st \in {"absent", "pending"} => wins[n] = 0

IInv == ReqInv /\ UserInv /\ LinkInv /\ ShotInv /\ OAuthLoginsAreVerified

-----------------------------------------------------------------------------
(* What the steps have in common. *)

\* Ids are never handed out twice, and nobody loses the flag but by deletion.
Grows ==
  /\ proven \subseteq proven'
  /\ \A u \in User : user[u] # Fresh => user'[u] # Fresh /\ (Sure(u) => Sure(u)')

\* No linked user comes into being.
Settled == \A u \in User : link[u] # None /\ Exists(u)' => Exists(u)

LEMMA Rows ==
  ASSUME NEW r \in UserRow
  PROVE  /\ r.email \in Email => r # Fresh /\ r # Gone /\ r \in [email : Email, verified : BOOLEAN]
         /\ r.email \notin Email => r \in {Fresh, Gone}
         /\ Fresh # Gone
BY AccountConstants DEF UserRow, Fresh, Gone, None

LEMMA IdleFacts == Idle \in Request /\ Idle.pc = "idle" /\ Idle.x = None /\ Placed(Idle) /\ Placed(Idle)'
BY DEF Idle, Request, Placed

\* The other handlers keep what they know.
LEMMA ReqStep ==
  ASSUME ReqInv, Grows, NEW r \in Req, NEW h \in Request, req' = [req EXCEPT ![r] = h], Placed(h)'
  PROVE  ReqInv'
<1>1. ASSUME NEW k, Placed(k) PROVE Placed(k)'
  BY <1>1 DEF Placed, Grows
<1>2. \A q \in Req : Placed(req[q])'
  BY <1>1 DEF ReqInv
<1> QED BY <1>2 DEF ReqInv

LEMMA UserStays ==
  ASSUME UserInv, UNCHANGED user, proven \subseteq proven'
  PROVE  UserInv' /\ Grows /\ Settled
BY DEF UserInv, Grows, Settled, Sure, Exists, VerifiedIsVouchedFor

LEMMA Inserted ==
  ASSUME UserInv, LinkInv, NEW u \in User, NEW e \in Email, user[u] = Fresh, find_user_by_email(e) = {},
         insert_user(u, e), proven \subseteq proven'
  PROVE  UserInv' /\ Grows /\ Settled /\ user'[u] # Fresh
<1>0. user \in [User -> UserRow] /\ \A v \in User : ~(Exists(v) /\ user[v].email = e)
  BY DEF UserInv, find_user_by_email
<1> DEFINE row == [email |-> e, verified |-> FALSE]
<1>1. row \in UserRow /\ row.email = e /\ row.verified = FALSE
  BY DEF UserRow
<1> HIDE DEF row
<1>2. user' = [user EXCEPT ![u] = row]
  BY DEF insert_user, row
<1>3. user' \in [User -> UserRow] /\ user'[u] = row /\ \A v \in User \ {u} : user'[v] = user[v]
  BY <1>0, <1>1, <1>2
<1>4. Exists(u)' /\ user'[u] # Fresh /\ ~Exists(u)
  <2>1. user'[u] # Fresh
    BY <1>1, <1>3, Rows
  <2>2. Fresh.email \notin Email
    BY AccountConstants DEF Fresh
  <2> QED BY <1>1, <1>3, <2>1, <2>2 DEF Exists
<1>5. \A v \in User \ {u} : (Exists(v)' <=> Exists(v)) /\ (Sure(v) => Sure(v)')
  BY <1>3 DEF Exists, Sure
<1>6. \A v, w \in User : Exists(v)' /\ Exists(w)' /\ user'[v].email = user'[w].email => v = w
  BY <1>0, <1>1, <1>3, <1>5 DEF UserInv
<1>7. VerifiedIsVouchedFor'
  BY <1>1, <1>3, <1>5 DEF UserInv, VerifiedIsVouchedFor
<1>8. Grows
  BY <1>3, <1>5 DEF Grows
<1>9. Settled
  BY <1>5 DEF Settled, LinkInv
<1> QED BY <1>3, <1>4, <1>6, <1>7, <1>8, <1>9 DEF UserInv

LEMMA Marked ==
  ASSUME UserInv, NEW u \in User, u \in proven', proven \subseteq proven', mark_verified(u)
  PROVE  UserInv' /\ Grows /\ Settled /\ Sure(u)'
<1>0. user \in [User -> UserRow]
  BY DEF UserInv
<1>1. ASSUME NEW v \in User
      PROVE  /\ user'[v] \in UserRow /\ user'[v].email = user[v].email
             /\ user'[v].verified = user[v].verified \/ (v = u /\ user'[v].verified)
             /\ v = u /\ Exists(v) => user'[v].verified
             /\ (user[v] = Fresh) <=> (user'[v] = Fresh)
  <2>1. CASE v = u /\ Exists(v)
    <3>1. user'[v] = [user[v] EXCEPT !.verified = TRUE]
      BY <2>1 DEF mark_verified
    <3>2. user[v] \in [email : Email, verified : BOOLEAN] /\ user[v] # Fresh
      BY <1>0, <2>1, Rows DEF Exists
    <3>3. user'[v] \in UserRow /\ user'[v].email = user[v].email /\ user'[v].verified = TRUE
      BY <3>1, <3>2 DEF UserRow
    <3>4. user'[v] # Fresh
      BY <2>1, <3>3, Rows DEF Exists
    <3> QED BY <2>1, <3>2, <3>3, <3>4
  <2>2. CASE ~(v = u /\ Exists(v))
    <3>1. user'[v] = user[v]
      BY <2>2 DEF mark_verified
    <3> QED BY <1>0, <2>2, <3>1
  <2> QED BY <2>1, <2>2
<1>2. user' \in [User -> UserRow]
  <2>1. user' = [v \in User |-> user'[v]]
    BY DEF mark_verified
  <2> QED BY <1>1, <2>1
<1>3. \A v \in User : Exists(v)' <=> Exists(v)
  BY <1>1 DEF Exists
<1>4. VerifiedIsVouchedFor'
  BY <1>1, <1>3 DEF UserInv, VerifiedIsVouchedFor
<1>5. Grows
  BY <1>1, <1>3 DEF Grows, Sure
<1>6. Settled /\ Sure(u)'
  BY <1>1, <1>3 DEF Settled, Sure
<1>7. \A v, w \in User : Exists(v)' /\ Exists(w)' /\ user'[v].email = user'[w].email => v = w
  BY <1>1, <1>3 DEF UserInv
<1> QED BY <1>2, <1>4, <1>5, <1>6, <1>7 DEF UserInv

\* A handler that keeps its account or lets go of it, and searches for its link only where it
\* did before or where there is none.
LEMMA LinksStay ==
  ASSUME ReqInv, LinkInv, Grows, Settled, UNCHANGED <<link, raced>>, NEW r \in Req, NEW h \in Request,
         req' = [req EXCEPT ![r] = h], h.x \in {req[r].x, None},
         h.pc \in Searching /\ h.x # None => req[r].pc \in Searching \/ Unlinked(h.x)
  PROVE  LinkInv'
<1>0. /\ \A q \in Req : req'[q] = IF q = r THEN h ELSE req[q]
      /\ link \in [User -> Account \cup {None}]
      /\ \A u \in User : link[u] # None => u \in proven /\ user[u] # Fresh
  BY DEF ReqInv, LinkInv
<1>1. \A u \in User : link'[u] # None => u \in proven' /\ user'[u] # Fresh
  BY <1>0 DEF Grows
<1>2. ASSUME NEW x \in Account \ raced'
      PROVE  /\ LinkedOnce(x)' /\ Alone(x)'
             /\ \A q \in Req : req'[q].x = x /\ req'[q].pc \in Searching => Unlinked(x)'
  <2>0. x # None /\ x \in Account \ raced
    BY AccountConstants
  <2>1. LinkedOnce(x) /\ Alone(x) /\ \A q \in Req : req[q].x = x /\ req[q].pc \in Searching => Unlinked(x)
    BY <2>0 DEF LinkInv
  <2>2. \A u \in User : link'[u] = x /\ Exists(u)' => link[u] = x /\ Exists(u)
    BY <2>0 DEF Settled
  <2>3. LinkedOnce(x)' /\ (Unlinked(x) => Unlinked(x)')
    BY <2>1, <2>2 DEF LinkedOnce, Unlinked
  <2>4. Alone(x)'
    BY <1>0, <2>0, <2>1 DEF Alone
  <2>5. ASSUME NEW q \in Req, req'[q].x = x, req'[q].pc \in Searching PROVE Unlinked(x)
    <3>1. CASE q = r
      BY <1>0, <2>0, <2>1, <2>5, <3>1
    <3>2. CASE q # r
      BY <1>0, <2>1, <2>5, <3>2
    <3> QED BY <3>1, <3>2
  <2> QED BY <2>3, <2>4, <2>5
<1> QED BY <1>0, <1>1, <1>2 DEF LinkInv

\* A step of one handler that touches none of the tables.
LEMMA Quietly ==
  ASSUME IInv, NEW r \in Req, NEW h \in Request, req' = [req EXCEPT ![r] = h], Placed(h),
         UNCHANGED <<tables, kek, wins, proven, session, raced>>, h.x \in {req[r].x, None},
         h.pc \in Searching /\ h.x # None => req[r].pc \in Searching \/ Unlinked(h.x)
  PROVE  IInv'
<1>0. UNCHANGED <<user, link, nonce, token, stale, provider, kek, wins, proven, session, raced>>
  BY DEF tables
<1>1. UserInv' /\ Grows /\ Settled
  BY <1>0, UserStays DEF IInv
<1>2. Placed(h)'
  BY <1>0 DEF Placed, Sure, Exists
<1>3. ReqInv' /\ LinkInv'
  BY <1>0, <1>1, <1>2, ReqStep, LinksStay DEF IInv
<1>4. ShotInv' /\ OAuthLoginsAreVerified'
  BY <1>0 DEF IInv, ShotInv, OAuthLoginsAreVerified
<1> QED BY <1>1, <1>3, <1>4 DEF IInv

-----------------------------------------------------------------------------
(* Requests arrive, and read. *)

LEMMA ArriveInv ==
  ASSUME IInv, NEW r \in Req,
         \/ \E e \in Email : RegisterFind(r, e)
         \/ \E u \in User : AdminVerifyFind(r, u)
         \/ \E t \in Token : ConfirmFind(r, t)
         \/ \E n \in Nonce : CallbackFind(r, n)
  PROVE  IInv'
<1>0. UNCHANGED <<tables, kek, wins, proven, session, raced>>
  BY DEF RegisterFind, AdminVerifyFind, ConfirmFind, CallbackFind, Begin
<1>1. PICK h \in Request : req' = [req EXCEPT ![r] = h] /\ h.pc \notin Searching /\ h.x = None /\ Placed(h)
  <2>1. CASE \E e \in Email : RegisterFind(r, e)
    <3>1. PICK e \in Email : RegisterFind(r, e)
      BY <2>1
    <3> DEFINE h == [Idle EXCEPT !.pc = "register", !.e = e]
    <3>2. h \in Request /\ h.pc = "register" /\ h.x = None /\ h.e = e
      BY DEF Idle, Request
    <3>3. req' = [req EXCEPT ![r] = h]
      BY <3>1 DEF RegisterFind, Begin
    <3> HIDE DEF h
    <3> QED BY <3>2, <3>3 DEF Placed, Searching
  <2>2. CASE \E u \in User : AdminVerifyFind(r, u)
    <3>1. PICK u \in User : AdminVerifyFind(r, u)
      BY <2>2
    <3> DEFINE h == [Idle EXCEPT !.pc = "force", !.u = u]
    <3>2. h \in Request /\ h.pc = "force" /\ h.x = None /\ h.u = u
      BY DEF Idle, Request
    <3>3. req' = [req EXCEPT ![r] = h]
      BY <3>1 DEF AdminVerifyFind, Begin
    <3> HIDE DEF h
    <3> QED BY <3>2, <3>3 DEF Placed, Searching
  <2>3. CASE \E t \in Token : ConfirmFind(r, t)
    <3>1. PICK t \in Token : ConfirmFind(r, t)
      BY <2>3
    <3>2. token[t].user \in User
      BY <3>1 DEF ConfirmFind, find, IInv, ShotInv
    <3> DEFINE h == [Idle EXCEPT !.pc = "confirm", !.t = t, !.u = token[t].user]
    <3>3. h \in Request /\ h.pc = "confirm" /\ h.x = None /\ h.t = t /\ h.u \in User
      BY <3>2 DEF Idle, Request
    <3>4. req' = [req EXCEPT ![r] = h]
      BY <3>1 DEF ConfirmFind, Begin
    <3> HIDE DEF h
    <3>5. Placed(h) /\ h.pc \notin Searching
      BY <3>3 DEF Placed, Searching
    <3> QED BY <3>3, <3>4, <3>5
  <2>4. CASE \E n \in Nonce : CallbackFind(r, n)
    <3>1. PICK n \in Nonce : CallbackFind(r, n)
      BY <2>4
    <3> DEFINE h == [Idle EXCEPT !.pc = "consume", !.n = n]
    <3>2. h \in Request /\ h.pc = "consume" /\ h.x = None /\ h.n = n
      BY DEF Idle, Request
    <3>3. req' = [req EXCEPT ![r] = h]
      BY <3>1 DEF CallbackFind, Begin
    <3> HIDE DEF h
    <3> QED BY <3>2, <3>3 DEF Placed, Searching
  <2> QED BY <2>1, <2>2, <2>3, <2>4
<1> QED BY <1>0, <1>1, Quietly

\* A handler that ends without a trace.
LEMMA EndInv ==
  ASSUME IInv, NEW r \in Req, End(r), UNCHANGED <<tables, kek, wins, proven, session, raced>>
  PROVE  IInv'
BY IdleFacts, Quietly DEF End, Searching

LEMMA GoFacts ==
  ASSUME ReqInv, NEW r \in Req, NEW pc \in {"mark", "provider", "email", "login", "verify", "signup"}, Go(r, pc)
  PROVE  \E h \in Request : /\ req' = [req EXCEPT ![r] = h] /\ h.pc = pc
                            /\ h.u = req[r].u /\ h.e = req[r].e /\ h.x = req[r].x /\ h.n = req[r].n
                            /\ h.t = req[r].t /\ h.seen = req[r].seen
<1> DEFINE h == [req[r] EXCEPT !.pc = pc]
<1>1. h \in Request /\ h.pc = pc /\ h.u = req[r].u /\ h.e = req[r].e /\ h.x = req[r].x /\ h.n = req[r].n
  BY DEF ReqInv, Request
<1>2. h.t = req[r].t /\ h.seen = req[r].seen
  BY DEF ReqInv, Request
<1>3. req' = [req EXCEPT ![r] = h]
  BY DEF Go, ReqInv
<1> HIDE DEF h
<1> QED BY <1>1, <1>2, <1>3

LEMMA ResolveInv ==
  ASSUME IInv, NEW r \in Req, ResolveByLink(r) \/ ResolveLinked(r) \/ ResolveByEmail(r)
  PROVE  IInv'
<1>0. /\ UNCHANGED <<tables, kek, wins, proven, session, raced>>
      /\ ReqInv /\ req[r] \in Request /\ Placed(req[r])
  BY DEF ResolveByLink, ResolveLinked, ResolveByEmail, Quiet, hist, IInv, ReqInv
<1>1. CASE ResolveByLink(r)
  <2>0. req[r].pc = "link" /\ req[r].x \in Account /\ req[r].x # None
    BY <1>0, <1>1, AccountConstants DEF ResolveByLink, At, Placed
  <2>1. CASE \E u \in find_by_provider_user(req[r].x) : req' = [req EXCEPT ![r].pc = "linked", ![r].u = u]
    <3>1. PICK u \in find_by_provider_user(req[r].x) : req' = [req EXCEPT ![r].pc = "linked", ![r].u = u]
      BY <2>1
    <3>2. u \in User /\ u \in proven /\ user[u] # Fresh
      BY <2>0, <3>1 DEF find_by_provider_user, IInv, LinkInv
    <3> DEFINE h == [req[r] EXCEPT !.pc = "linked", !.u = u]
    <3>3. h \in Request /\ h.pc = "linked" /\ h.x = req[r].x /\ h.u = u
      BY <1>0, <3>2 DEF Request
    <3>4. req' = [req EXCEPT ![r] = h]
      BY <1>0, <3>1 DEF ReqInv
    <3> HIDE DEF h
    <3>5. Placed(h) /\ h.pc \notin Searching
      BY <3>2, <3>3 DEF Placed, Searching
    <3> QED BY <1>0, <3>3, <3>4, <3>5, Quietly
  <2>2. CASE find_by_provider_user(req[r].x) = {} /\ Go(r, "email")
    <3>1. PICK h \in Request : /\ req' = [req EXCEPT ![r] = h] /\ h.pc = "email" /\ h.x = req[r].x /\ h.e = req[r].e
      BY <1>0, <2>2, GoFacts
    <3>2. Unlinked(h.x)
      BY <2>2, <3>1 DEF find_by_provider_user, Unlinked
    <3>3. req[r].e \in Email
      BY <1>0, <2>0 DEF Placed
    <3>4. Placed(h)
      BY <2>0, <3>1, <3>3 DEF Placed
    <3> QED BY <1>0, <3>1, <3>2, <3>4, Quietly
  <2> QED BY <1>1, <2>1, <2>2 DEF ResolveByLink
<1>2. CASE ResolveLinked(r)
  <2>0. req[r].pc = "linked" /\ req[r].u \in User /\ req[r].u \in proven /\ user[req[r].u] # Fresh
    BY <1>0, <1>2 DEF ResolveLinked, At, Placed
  <2>1. CASE ~Exists(req[r].u)
    BY <1>0, <1>2, <2>1, EndInv DEF ResolveLinked
  <2>2. CASE Exists(req[r].u)
    <3> DEFINE pc == IF user[req[r].u].verified THEN "login" ELSE "verify"
    <3>0. Go(r, pc) /\ pc \in {"login", "verify"} /\ (pc = "login" => user[req[r].u].verified)
      BY <1>2, <2>2 DEF ResolveLinked
    <3> HIDE DEF pc
    <3>1. PICK h \in Request : /\ req' = [req EXCEPT ![r] = h] /\ h.x = req[r].x /\ h.u = req[r].u /\ h.pc = pc
      BY <1>0, <3>0, GoFacts
    <3>2. Placed(h) /\ h.pc \notin Searching
      BY <2>0, <3>0, <3>1 DEF Placed, Sure, Searching
    <3> QED BY <1>0, <3>1, <3>2, Quietly
  <2> QED BY <2>1, <2>2
<1>3. CASE ResolveByEmail(r)
  <2>0. req[r].pc = "email" /\ req[r].x \in Account /\ req[r].e \in Email
    BY <1>0, <1>3 DEF ResolveByEmail, At, Placed
  <2>1. CASE \E u \in find_user_by_email(req[r].e) :
               req' = [req EXCEPT ![r].pc = "upsert", ![r].u = u, ![r].seen = user[u].verified]
    <3>1. PICK u \in find_user_by_email(req[r].e) :
               req' = [req EXCEPT ![r].pc = "upsert", ![r].u = u, ![r].seen = user[u].verified]
      BY <2>1
    <3>2. u \in User /\ user[u] # Fresh /\ user[u].verified \in BOOLEAN
      BY <3>1, Rows DEF find_user_by_email, Exists, IInv, UserInv
    <3> DEFINE h == [req[r] EXCEPT !.pc = "upsert", !.u = u, !.seen = user[u].verified]
    <3>3. h \in Request /\ h.pc = "upsert" /\ h.x = req[r].x /\ h.u = u /\ h.seen = user[u].verified
      BY <1>0, <3>2 DEF Request
    <3>4. req' = [req EXCEPT ![r] = h]
      BY <1>0, <3>1 DEF ReqInv
    <3> HIDE DEF h
    <3>5. Placed(h)
      BY <2>0, <3>2, <3>3 DEF Placed, Sure
    <3> QED BY <1>0, <2>0, <3>3, <3>4, <3>5, Quietly DEF Searching
  <2>2. CASE find_user_by_email(req[r].e) = {} /\ Go(r, "signup")
    <3>1. PICK h \in Request : /\ req' = [req EXCEPT ![r] = h] /\ h.pc = "signup" /\ h.x = req[r].x /\ h.e = req[r].e
      BY <1>0, <2>2, GoFacts
    <3>2. Placed(h)
      BY <2>0, <3>1 DEF Placed
    <3> QED BY <1>0, <2>0, <3>1, <3>2, Quietly DEF Searching
  <2> QED BY <1>3, <2>1, <2>2 DEF ResolveByEmail
<1> QED BY <1>1, <1>2, <1>3

-----------------------------------------------------------------------------
(* The provider answers, and the login is committed. *)

LEMMA ExchangeInv ==
  ASSUME IInv, NEW r \in Req, Exchange(r)
  PROVE  IInv'
<1>0. /\ UNCHANGED <<user, link, nonce, token, stale, provider, kek, wins, proven, session>>
      /\ UNCHANGED <<tables, kek, wins, proven, session>> /\ ReqInv /\ req \in [Req -> Request]
  BY DEF Exchange, tables, IInv, ReqInv
<1>1. CASE End(r) /\ UNCHANGED raced
  BY <1>0, <1>1, EndInv
<1>2. CASE \E who \in Account \X Email :
             /\ req' = [req EXCEPT ![r] = [Idle EXCEPT !.pc = "link", !.x = who[1], !.e = who[2]]]
             /\ raced' = IF \E q \in Req : req[q].x = who[1] THEN raced \cup {who[1]} ELSE raced
  <2>1. PICK who \in Account \X Email :
             /\ req' = [req EXCEPT ![r] = [Idle EXCEPT !.pc = "link", !.x = who[1], !.e = who[2]]]
             /\ raced' = IF \E q \in Req : req[q].x = who[1] THEN raced \cup {who[1]} ELSE raced
    BY <1>2
  <2> DEFINE h == [Idle EXCEPT !.pc = "link", !.x = who[1], !.e = who[2]]
  <2>2. h \in Request /\ h.pc = "link" /\ h.x \in Account /\ h.e \in Email /\ h.x = who[1]
    BY DEF Idle, Request
  <2>3. req' = [req EXCEPT ![r] = h]
    BY <2>1
  <2> HIDE DEF h
  <2>4. raced \subseteq raced' /\ ((\E q \in Req : req[q].x = h.x) => h.x \in raced')
    BY <2>1, <2>2
  <2>5. UserInv' /\ Grows /\ Settled
    BY <1>0, UserStays DEF IInv
  <2>6. ReqInv'
    <3>1. Placed(h)'
      BY <2>2 DEF Placed
    <3> QED BY <1>0, <2>2, <2>3, <2>5, <3>1, ReqStep
  <2>7. LinkInv'
    <3>1. /\ link' \in [User -> Account \cup {None}]
          /\ \A u \in User : link'[u] # None => u \in proven' /\ user'[u] # Fresh
      BY <1>0 DEF IInv, LinkInv
    <3>2. ASSUME NEW x \in Account \ raced'
          PROVE  /\ LinkedOnce(x)' /\ Alone(x)'
                 /\ \A q \in Req : req'[q].x = x /\ req'[q].pc \in Searching => Unlinked(x)'
      <4>1. LinkedOnce(x) /\ Alone(x) /\ \A q \in Req : req[q].x = x /\ req[q].pc \in Searching => Unlinked(x)
        BY <2>4 DEF IInv, LinkInv
      <4>2. \A q \in Req : req'[q] = IF q = r THEN h ELSE req[q]
        BY <1>0, <2>3
      <4>3. LinkedOnce(x)' /\ (Unlinked(x) => Unlinked(x)')
        BY <1>0, <4>1 DEF LinkedOnce, Unlinked, Exists
      <4>4. Alone(x)'
        BY <2>4, <4>1, <4>2 DEF Alone
      <4>5. \A q \in Req : req'[q].x = x /\ req'[q].pc \in Searching => Unlinked(x)
        BY <2>2, <4>1, <4>2 DEF Searching
      <4> QED BY <4>3, <4>4, <4>5
    <3> QED BY <3>1, <3>2 DEF LinkInv
  <2>8. ShotInv' /\ OAuthLoginsAreVerified'
    BY <1>0 DEF IInv, ShotInv, OAuthLoginsAreVerified
  <2> QED BY <2>5, <2>6, <2>7, <2>8 DEF IInv
<1> QED BY <1>1, <1>2 DEF Exchange, fetch_userinfo

LEMMA CommitLoginInv ==
  ASSUME IInv, NEW r \in Req, CommitLogin(r)
  PROVE  IInv'
<1>0. /\ UNCHANGED <<user, link, nonce, token, stale, provider, kek, wins, proven, raced>>
      /\ req[r].pc = "login" /\ End(r) /\ Placed(req[r])
  BY DEF CommitLogin, tables, IInv, ReqInv, At
<1>1. OAuthLoginsAreVerified'
  <2>1. Exists(req[r].u) => user[req[r].u].verified = TRUE
    <3>1. Exists(req[r].u) => user[req[r].u].verified /\ user[req[r].u].verified \in BOOLEAN
      BY <1>0, Rows DEF Placed, Sure, Exists, IInv, UserInv
    <3> QED BY <3>1
  <2>2. session \subseteq {TRUE}
    BY DEF IInv, OAuthLoginsAreVerified
  <2> QED BY <2>1, <2>2 DEF CommitLogin, OAuthLoginsAreVerified
<1>2. UserInv' /\ Grows /\ Settled
  BY <1>0, UserStays DEF IInv
<1>3. ReqInv' /\ LinkInv'
  BY <1>0, <1>2, IdleFacts, ReqStep, LinksStay DEF IInv, End, Searching
<1>4. ShotInv'
  BY <1>0 DEF IInv, ShotInv
<1> QED BY <1>1, <1>2, <1>3, <1>4 DEF IInv

-----------------------------------------------------------------------------
(* Statements on users. *)

LEMMA Together ==
  ASSUME IInv, UserInv', Grows, Settled, ShotInv', UNCHANGED <<link, raced, session>>, NEW r \in Req,
         NEW h \in Request, req' = [req EXCEPT ![r] = h], Placed(h)', h.x \in {req[r].x, None},
         h.pc \in Searching /\ h.x # None => req[r].pc \in Searching
  PROVE  IInv'
<1>1. ReqInv' /\ LinkInv'
  BY ReqStep, LinksStay DEF IInv
<1>2. OAuthLoginsAreVerified'
  BY DEF IInv, OAuthLoginsAreVerified
<1> QED BY <1>1, <1>2 DEF IInv

LEMMA RegisterInsertInv ==
  ASSUME IInv, NEW r \in Req, RegisterInsert(r)
  PROVE  IInv'
<1>0. /\ UNCHANGED <<link, nonce, token, stale, provider, kek, wins, proven, session, raced>>
      /\ req[r].pc = "register" /\ End(r) /\ req[r].e \in Email /\ IInv
  BY DEF RegisterInsert, Quiet, hist, IInv, ReqInv, At, Placed
<1>1. UserInv' /\ Grows /\ Settled
  <2>1. CASE UNCHANGED user
    BY <1>0, <2>1, UserStays DEF IInv
  <2>2. CASE find_user_by_email(req[r].e) = {} /\ \E u \in User : user[u] = Fresh /\ insert_user(u, req[r].e)
    BY <1>0, <2>2, Inserted DEF IInv
  <2> QED BY <2>1, <2>2 DEF RegisterInsert
<1>2. ShotInv'
  BY <1>0 DEF IInv, ShotInv
<1> QED BY <1>0, <1>1, <1>2, IdleFacts, Together DEF End, Searching

LEMMA MarkInv ==
  ASSUME IInv, NEW r \in Req, AdminVerify(r) \/ ConfirmMark(r) \/ SignUpMark(r) \/ MarkResolved(r)
  PROVE  IInv'
<1>0. /\ UNCHANGED <<link, nonce, token, stale, provider, kek, wins, session, raced>> /\ proven \subseteq proven'
      /\ ReqInv /\ req[r] \in Request /\ Placed(req[r]) /\ IInv
      /\ mark_verified(req[r].u)
  BY DEF AdminVerify, ConfirmMark, SignUpMark, MarkResolved, Quiet, hist, IInv, ReqInv
<1>1. PICK u \in User : u = req[r].u /\ u \in proven'
  BY <1>0 DEF AdminVerify, ConfirmMark, SignUpMark, MarkResolved, Placed, At
<1>2. UserInv' /\ Grows /\ Settled /\ Sure(u)'
  BY <1>0, <1>1, Marked DEF IInv
<1>3. ShotInv'
  BY <1>0 DEF IInv, ShotInv
<1>4. CASE AdminVerify(r) \/ ConfirmMark(r)
  <2>1. req' = [req EXCEPT ![r] = Idle]
    BY <1>4 DEF AdminVerify, ConfirmMark, End
  <2> QED BY <1>0, <1>2, <1>3, <2>1, IdleFacts, Together DEF Searching
<1>5. CASE SignUpMark(r)
  <2>0. req[r].pc = "signupmark" /\ req[r].x \in Account /\ user[u] # Fresh
    BY <1>0, <1>1, <1>5 DEF SignUpMark, At, Placed
  <2> DEFINE h == [req[r] EXCEPT !.pc = "upsert", !.seen = TRUE]
  <2>1. h \in Request /\ h.pc = "upsert" /\ h.seen = TRUE /\ h.x = req[r].x /\ h.u = u
    BY <1>0, <1>1 DEF Request
  <2>2. req' = [req EXCEPT ![r] = h]
    BY <1>0, <1>5 DEF SignUpMark, ReqInv
  <2>3. PICK k \in Request : k = h
    BY <2>1
  <2> HIDE DEF h
  <2>4. Placed(k)'
    BY <1>2, <2>0, <2>1, <2>3 DEF Placed, Grows
  <2> QED BY <1>0, <1>2, <1>3, <2>0, <2>1, <2>2, <2>3, <2>4, Together DEF Searching
<1>6. CASE MarkResolved(r)
  <2>0. req[r].pc = "verify" /\ Go(r, "login") /\ user[u] # Fresh
    BY <1>0, <1>1, <1>6 DEF MarkResolved, At, Placed
  <2>1. PICK h \in Request : req' = [req EXCEPT ![r] = h] /\ h.pc = "login" /\ h.u = u /\ h.x = req[r].x
    BY <1>0, <1>1, <2>0, GoFacts
  <2>2. Placed(h)'
    BY <1>2, <2>0, <2>1 DEF Placed, Grows
  <2> QED BY <1>0, <1>2, <1>3, <2>1, <2>2, Together DEF Searching
<1> QED BY <1>4, <1>5, <1>6

LEMMA SignUpInv ==
  ASSUME IInv, NEW r \in Req, SignUp(r)
  PROVE  IInv'
<1>0. /\ UNCHANGED <<link, nonce, token, stale, provider, kek, wins, session, raced>>
      /\ ReqInv /\ req[r] \in Request /\ IInv
      /\ req[r].pc = "signup" /\ req[r].e \in Email /\ req[r].x \in Account
  BY DEF SignUp, IInv, ReqInv, At, Placed
<1>1. CASE End(r) /\ UNCHANGED <<user, proven>>
  BY <1>0, <1>1, EndInv DEF tables
<1>2. CASE /\ find_user_by_email(req[r].e) = {}
           /\ \E u \in User : /\ user[u] = Fresh /\ insert_user(u, req[r].e)
                              /\ proven' = proven \cup {u}
                              /\ req' = [req EXCEPT ![r].u = u, ![r].pc = "signupmark"]
  <2>1. PICK u \in User : /\ user[u] = Fresh /\ insert_user(u, req[r].e)
                          /\ proven' = proven \cup {u}
                          /\ req' = [req EXCEPT ![r].u = u, ![r].pc = "signupmark"]
    BY <1>2
  <2>2. UserInv' /\ Grows /\ Settled /\ user'[u] # Fresh
    BY <1>0, <1>2, <2>1, Inserted DEF IInv
  <2>3. ShotInv'
    BY <1>0 DEF IInv, ShotInv
  <2> DEFINE k == [req[r] EXCEPT !.u = u, !.pc = "signupmark"]
  <2>4. k \in Request /\ k.pc = "signupmark" /\ k.x = req[r].x /\ k.u = u
    BY <1>0 DEF Request
  <2>5. req' = [req EXCEPT ![r] = k]
    BY <1>0, <2>1 DEF ReqInv
  <2>6. PICK h \in Request : h = k
    BY <2>4
  <2> HIDE DEF k
  <2>7. Placed(h)'
    BY <1>0, <2>1, <2>2, <2>4, <2>6 DEF Placed
  <2> QED BY <1>0, <2>2, <2>3, <2>4, <2>5, <2>6, <2>7, Together DEF Searching
<1> QED BY <1>1, <1>2 DEF SignUp

-----------------------------------------------------------------------------
(* Links. *)

LEMMA LinkExistingInv ==
  ASSUME IInv, NEW r \in Req, LinkExisting(r)
  PROVE  IInv'
<1>0. /\ UNCHANGED <<user, nonce, token, stale, provider, kek, wins, session, raced>> /\ proven \subseteq proven'
      /\ ReqInv /\ req[r] \in Request /\ Placed(req[r]) /\ req[r].pc = "upsert"
      /\ req[r].u \in User /\ req[r].x \in Account /\ user[req[r].u] # Fresh
  BY DEF LinkExisting, IInv, ReqInv, At, Placed
<1>1. CASE End(r) /\ UNCHANGED <<link, proven>>
  BY <1>0, <1>1, EndInv DEF tables
<1>2. CASE /\ Exists(req[r].u) /\ upsert_link(req[r].u, req[r].x) /\ proven' = proven \cup {req[r].u}
           /\ Go(r, IF req[r].seen THEN "login" ELSE "verify")
  <2>1. PICK u \in User : u = req[r].u
    BY <1>0
  <2>2. PICK y \in Account : y = req[r].x
    BY <1>0
  <2> DEFINE pc == IF req[r].seen THEN "login" ELSE "verify"
  <2>3. Go(r, pc) /\ pc \in {"login", "verify"} /\ (pc = "login" => req[r].seen)
    BY <1>2
  <2> HIDE DEF pc
  <2>4. PICK h \in Request : req' = [req EXCEPT ![r] = h] /\ h.pc = pc /\ h.u = u /\ h.x = y
    BY <1>0, <2>1, <2>2, <2>3, GoFacts
  <2>5. UserInv' /\ Grows
    BY <1>0, UserStays DEF IInv
  <2>6. h.pc \in {"login", "verify"} /\ u \in proven' /\ user[u] # Fresh /\ (h.pc = "login" => Sure(u))
    BY <1>0, <1>2, <2>1, <2>3, <2>4 DEF Placed
  <2>7. Placed(h)'
    BY <1>0, <2>4, <2>5, <2>6 DEF Placed, Grows
  <2>8. ReqInv'
    BY <1>0, <2>4, <2>5, <2>7, ReqStep
  <2>9. LinkInv'
    <3>0. link \in [User -> Account \cup {None}] /\ link' = [link EXCEPT ![u] = y] /\ Exists(u)
      BY <1>2, <2>1, <2>2 DEF upsert_link, IInv, LinkInv
    <3>1. /\ link' \in [User -> Account \cup {None}]
          /\ \A v \in User : link'[v] # None => v \in proven' /\ user'[v] # Fresh
      BY <1>0, <2>1, <2>6, <3>0 DEF IInv, LinkInv
    <3>2. ASSUME NEW x \in Account \ raced'
          PROVE  /\ LinkedOnce(x)' /\ Alone(x)'
                 /\ \A q \in Req : req'[q].x = x /\ req'[q].pc \in Searching => Unlinked(x)'
      <4>1. LinkedOnce(x) /\ Alone(x) /\ \A q \in Req : req[q].x = x /\ req[q].pc \in Searching => Unlinked(x)
        BY <1>0 DEF IInv, LinkInv
      <4>2. \A q \in Req : req'[q] = IF q = r THEN h ELSE req[q]
        BY <1>0, <2>4 DEF ReqInv
      <4>3. \A v \in User : (Exists(v)' <=> Exists(v)) /\ link'[v] = IF v = u THEN y ELSE link[v]
        BY <1>0, <3>0 DEF Exists
      <4>4. Alone(x)'
        BY <2>2, <2>4, <4>1, <4>2 DEF Alone
      <4>5. CASE x = y
        <5>1. Unlinked(x)
          BY <1>0, <2>2, <4>1, <4>5 DEF Searching
        <5>2. LinkedOnce(x)'
          BY <4>3, <5>1 DEF LinkedOnce, Unlinked
        <5>3. \A q \in Req : req'[q].x = x => q = r
          BY <2>2, <4>1, <4>2, <4>5 DEF Alone
        <5>4. req'[r].pc \notin Searching
          BY <2>6, <4>2 DEF Searching
        <5> QED BY <4>4, <5>2, <5>3, <5>4
      <4>6. CASE x # y
        <5>1. LinkedOnce(x)' /\ (Unlinked(x) => Unlinked(x)')
          BY <4>1, <4>3, <4>6 DEF LinkedOnce, Unlinked
        <5>2. \A q \in Req : req'[q].x = x /\ req'[q].pc \in Searching => Unlinked(x)
          BY <2>4, <4>1, <4>2, <4>6
        <5> QED BY <4>4, <5>1, <5>2
      <4> QED BY <4>5, <4>6
    <3> QED BY <3>1, <3>2 DEF LinkInv
  <2>10. ShotInv' /\ OAuthLoginsAreVerified'
    BY <1>0 DEF IInv, ShotInv, OAuthLoginsAreVerified
  <2> QED BY <2>5, <2>8, <2>9, <2>10 DEF IInv
<1> QED BY <1>1, <1>2 DEF LinkExisting

LEMMA AdminDeleteInv ==
  ASSUME IInv, NEW u \in User, AdminDelete(u)
  PROVE  IInv'
<1>0. /\ UNCHANGED <<nonce, stale, provider, kek, req, wins, proven, session, raced>>
      /\ Exists(u) /\ user' = [user EXCEPT ![u] = Gone] /\ link' = [link EXCEPT ![u] = None]
      /\ user \in [User -> UserRow] /\ link \in [User -> Account \cup {None}]
  BY DEF AdminDelete, delete_user, Quiet, hist, IInv, UserInv, LinkInv
<1>1. /\ Gone \in UserRow /\ Gone # Fresh /\ Gone.email \notin Email
  BY AccountConstants DEF UserRow, Gone, Fresh, None
<1>2. /\ user' \in [User -> UserRow] /\ ~Exists(u)' /\ user'[u] # Fresh
      /\ \A v \in User \ {u} : user'[v] = user[v] /\ link'[v] = link[v] /\ (Exists(v)' <=> Exists(v))
  BY <1>0, <1>1 DEF Exists
<1>3. \A v \in User : Exists(v)' => v # u
  BY <1>2
<1>4. UserInv'
  <2>1. \A v, w \in User : Exists(v)' /\ Exists(w)' /\ user'[v].email = user'[w].email => v = w
    BY <1>2, <1>3 DEF IInv, UserInv
  <2>2. VerifiedIsVouchedFor'
    BY <1>0, <1>2, <1>3 DEF IInv, UserInv, VerifiedIsVouchedFor
  <2> QED BY <1>2, <2>1, <2>2 DEF UserInv
<1>5. Grows
  BY <1>0, <1>2 DEF Grows, Sure
<1>6. ReqInv'
  <2>1. ASSUME NEW k, Placed(k) PROVE Placed(k)'
    BY <1>5, <2>1 DEF Placed, Grows
  <2> QED BY <1>0, <2>1 DEF IInv, ReqInv
<1>7. LinkInv'
  <2>1. /\ link' \in [User -> Account \cup {None}]
        /\ \A v \in User : link'[v] # None => v \in proven' /\ user'[v] # Fresh
    BY <1>0, <1>2 DEF IInv, LinkInv
  <2>2. ASSUME NEW x \in Account \ raced'
        PROVE  /\ LinkedOnce(x)' /\ Alone(x)'
               /\ \A q \in Req : req'[q].x = x /\ req'[q].pc \in Searching => Unlinked(x)'
    <3>1. LinkedOnce(x) /\ Alone(x) /\ \A q \in Req : req[q].x = x /\ req[q].pc \in Searching => Unlinked(x)
      BY <1>0 DEF IInv, LinkInv
    <3>2. LinkedOnce(x)' /\ (Unlinked(x) => Unlinked(x)')
      BY <1>2, <1>3, <3>1 DEF LinkedOnce, Unlinked
    <3>3. Alone(x)'
      BY <1>0, <3>1 DEF Alone
    <3> QED BY <1>0, <3>1, <3>2, <3>3
  <2> QED BY <2>1, <2>2 DEF LinkInv
<1>8. ShotInv'
  <2>0. ShotInv /\ token' = [t \in Token |-> IF token[t].user = u /\ token[t].st # "absent"
                                           THEN [token[t] EXCEPT !.st = "gone"] ELSE token[t]]
    BY DEF AdminDelete, delete_user, IInv
  <2>1. ASSUME NEW t \in Token
        PROVE  /\ token'[t] \in [st : Status, user : User \cup {None}]
               /\ token'[t].st \in {"absent", "pending"} => token[t].st = token'[t].st
               /\ token'[t].st # "absent" => token'[t].user \in User
    BY <2>0 DEF ShotInv, Status
  <2>2. token' \in [Token -> [st : Status, user : User \cup {None}]]
    BY <2>0, <2>1
  <2> QED BY <1>0, <2>0, <2>1, <2>2 DEF ShotInv
<1>9. OAuthLoginsAreVerified'
  BY <1>0 DEF IInv, OAuthLoginsAreVerified
<1> QED BY <1>4, <1>6, <1>7, <1>8, <1>9 DEF IInv

-----------------------------------------------------------------------------
(* The one-shot tables, the provider row and time. *)

\* Users, links and handlers are left alone.
LEMMA Apart ==
  ASSUME IInv, ShotInv', UNCHANGED <<user, link, req, proven, session, raced>>
  PROVE  IInv'
<1>1. UserInv' /\ Grows
  BY UserStays DEF IInv
<1>2. ReqInv'
  <2>1. ASSUME NEW k, Placed(k) PROVE Placed(k)'
    BY <1>1, <2>1 DEF Placed, Grows
  <2> QED BY <2>1 DEF IInv, ReqInv
<1>3. LinkInv' /\ OAuthLoginsAreVerified'
  BY DEF IInv, LinkInv, LinkedOnce, Alone, Unlinked, Exists, OAuthLoginsAreVerified
<1> QED BY <1>1, <1>2, <1>3 DEF IInv

LEMMA IssueInv ==
  ASSUME IInv, \/ \E u \in User, t \in Token : VerifyRequest(u, t)
               \/ \E n \in Nonce : Authorize(n)
  PROVE  IInv'
<1>0. UNCHANGED <<user, link, stale, provider, kek, req, wins, proven, session, raced>> /\ ShotInv /\ IInv
  BY DEF VerifyRequest, Authorize, Quiet, hist, IInv
<1>1. ShotInv'
  <2>1. CASE \E u \in User, t \in Token : VerifyRequest(u, t)
    <3>1. PICK u \in User, t \in Token : VerifyRequest(u, t)
      BY <2>1
    <3>2. /\ token[t].st = "absent" /\ UNCHANGED nonce
          /\ token' = [token EXCEPT ![t] = [st |-> "pending", user |-> u]]
      BY <3>1 DEF VerifyRequest, issue
    <3> QED BY <1>0, <3>2 DEF ShotInv, Status
  <2>2. CASE \E n \in Nonce : Authorize(n)
    <3>1. PICK n \in Nonce : Authorize(n)
      BY <2>2
    <3>2. /\ nonce[n].st = "absent" /\ UNCHANGED token /\ verifier_for_storage \in Key \cup {NoKey}
          /\ nonce' = [nonce EXCEPT ![n] = [st |-> "pending", verifier |-> verifier_for_storage]]
      BY <1>0, <3>1 DEF Authorize, fresh_state_nonce, issue_state, verifier_for_storage, encrypt, ShotInv
    <3> QED BY <1>0, <3>2 DEF ShotInv, Status
  <2> QED BY <2>1, <2>2
<1> QED BY <1>0, <1>1, Apart

LEMMA ConfirmConsumeInv ==
  ASSUME IInv, NEW r \in Req, ConfirmConsume(r)
  PROVE  IInv'
<1>0. /\ UNCHANGED <<user, link, nonce, stale, provider, kek, session, raced>> /\ IInv
      /\ ReqInv /\ req[r].pc = "confirm" /\ req[r].t \in Token /\ req[r].u \in User /\ ShotInv
  BY DEF ConfirmConsume, At, IInv, ReqInv, Placed
<1>1. CASE End(r) /\ UNCHANGED <<token, wins, proven>>
  BY <1>0, <1>1, EndInv DEF tables
<1>2. CASE /\ token[req[r].t].st = "pending"
           /\ token' = [token EXCEPT ![req[r].t].st = "spent"]
           /\ wins' = [wins EXCEPT ![req[r].t] = @ + 1]
           /\ proven' = proven \cup {req[r].u} /\ Go(r, "mark")
  <2>1. PICK t \in Token : t = req[r].t
    BY <1>0
  <2>2. PICK h \in Request : req' = [req EXCEPT ![r] = h] /\ h.pc = "mark" /\ h.u = req[r].u /\ h.x = req[r].x
    BY <1>0, <1>2, GoFacts
  <2>3. UserInv' /\ Grows /\ Settled
    BY <1>0, <1>2, UserStays DEF IInv
  <2>4. Placed(h)'
    BY <1>0, <1>2, <2>2 DEF Placed
  <2>5. ShotInv'
    <3>1. /\ wins[t] = 0 /\ t \notin Nonce /\ token[t] \in [st : Status, user : User \cup {None}]
          /\ token[t].user \in User
      BY <1>0, <1>2, <2>1, AccountConstants DEF ShotInv
    <3> DEFINE row == [token[t] EXCEPT !.st = "spent"]
    <3>2. row \in [st : Status, user : User \cup {None}] /\ row.st = "spent" /\ row.user \in User
      BY <3>1 DEF Status
    <3>3. token' = [token EXCEPT ![t] = row]
      BY <1>0, <1>2, <2>1 DEF ShotInv
    <3>4. wins' = [wins EXCEPT ![t] = 1]
      BY <1>0, <1>2, <2>1, <3>1 DEF ShotInv
    <3> HIDE DEF row
    <3>5. wins' \in [Nonce \cup Token -> 0 .. 1] /\ \A n \in Nonce : wins'[n] = wins[n]
      BY <1>0, <3>1, <3>4 DEF ShotInv
    <3>6. token' \in [Token -> [st : Status, user : User \cup {None}]]
      BY <1>0, <3>2, <3>3 DEF ShotInv
    <3>7. \A i \in Token : /\ token'[i].st \in {"absent", "pending"} => wins'[i] = 0
                           /\ token'[i].st # "absent" => token'[i].user \in User
      BY <1>0, <3>2, <3>3, <3>4 DEF ShotInv
    <3> QED BY <1>0, <3>5, <3>6, <3>7 DEF ShotInv
  <2> QED BY <1>0, <2>2, <2>3, <2>4, <2>5, Together DEF Searching
<1> QED BY <1>1, <1>2 DEF ConfirmConsume

LEMMA CallbackConsumeInv ==
  ASSUME IInv, NEW r \in Req, CallbackConsume(r)
  PROVE  IInv'
<1>0. /\ UNCHANGED <<user, link, token, stale, provider, kek, proven, session, raced>> /\ IInv
      /\ ReqInv /\ req[r].pc = "consume" /\ req[r].n \in Nonce /\ ShotInv
  BY DEF CallbackConsume, At, IInv, ReqInv, Placed
<1>1. CASE End(r) /\ UNCHANGED <<nonce, wins>>
  BY <1>0, <1>1, EndInv DEF tables
<1>2. CASE /\ nonce[req[r].n].st = "pending"
           /\ nonce' = [nonce EXCEPT ![req[r].n].st = "spent"]
           /\ wins' = [wins EXCEPT ![req[r].n] = @ + 1] /\ Go(r, "provider")
  <2>1. PICK n \in Nonce : n = req[r].n
    BY <1>0
  <2>2. PICK h \in Request : req' = [req EXCEPT ![r] = h] /\ h.pc = "provider" /\ h.n = n /\ h.x = req[r].x
    BY <1>0, <1>2, <2>1, GoFacts
  <2>3. UserInv' /\ Grows /\ Settled
    BY <1>0, <1>2, UserStays DEF IInv
  <2>4. Placed(h)'
    BY <2>2 DEF Placed
  <2>5. ShotInv'
    <3>1. wins[n] = 0 /\ n \notin Token /\ nonce[n] \in [st : Status, verifier : Key \cup {NoKey}]
      BY <1>0, <1>2, <2>1, AccountConstants DEF ShotInv
    <3> DEFINE row == [nonce[n] EXCEPT !.st = "spent"]
    <3>2. row \in [st : Status, verifier : Key \cup {NoKey}] /\ row.st = "spent"
      BY <3>1 DEF Status
    <3>3. nonce' = [nonce EXCEPT ![n] = row]
      BY <1>0, <1>2, <2>1 DEF ShotInv
    <3>4. wins' = [wins EXCEPT ![n] = 1]
      BY <1>0, <1>2, <2>1, <3>1 DEF ShotInv
    <3> HIDE DEF row
    <3>5. wins' \in [Nonce \cup Token -> 0 .. 1] /\ \A t \in Token : wins'[t] = wins[t]
      BY <1>0, <3>1, <3>4 DEF ShotInv
    <3>6. nonce' \in [Nonce -> [st : Status, verifier : Key \cup {NoKey}]]
      BY <1>0, <3>2, <3>3 DEF ShotInv
    <3>7. \A i \in Nonce : nonce'[i].st \in {"absent", "pending"} => wins'[i] = 0
      BY <1>0, <3>2, <3>3, <3>4 DEF ShotInv
    <3> QED BY <1>0, <3>5, <3>6, <3>7 DEF ShotInv
  <2> QED BY <1>0, <2>2, <2>3, <2>4, <2>5, Together DEF Searching
<1> QED BY <1>1, <1>2 DEF CallbackConsume

LEMMA AsideInv ==
  ASSUME IInv, (\E keep \in BOOLEAN : ProviderPut(keep)) \/ ProviderDelete \/ \E i \in Nonce \cup Token : Expire(i)
  PROVE  IInv'
<1>0. UNCHANGED <<user, link, nonce, token, kek, req, wins, proven, session, raced>> /\ ShotInv
  BY DEF ProviderPut, ProviderDelete, Expire, Quiet, hist, IInv
<1>1. stale' \subseteq Nonce \cup Token /\ provider' \in Key \cup {None}
  BY <1>0 DEF ProviderPut, ProviderDelete, Expire, upsert_provider, delete_provider, encrypt, ShotInv
<1>2. ShotInv'
  BY <1>0, <1>1 DEF ShotInv
<1> QED BY <1>0, <1>2, Apart

LEMMA RestartInv ==
  ASSUME IInv, Restart
  PROVE  IInv'
<1>0. /\ UNCHANGED <<user, link, nonce, token, stale, provider, wins, proven, session, raced>>
      /\ kek' \in Key \cup {NoKey} /\ req' = [r \in Req |-> Idle]
  BY DEF Restart, tables
<1>1. UserInv' /\ ShotInv' /\ OAuthLoginsAreVerified'
  BY <1>0, UserStays DEF IInv, ShotInv, OAuthLoginsAreVerified
<1>2. ReqInv'
  BY <1>0, IdleFacts DEF ReqInv
<1>3. LinkInv'
  <2>1. \A x \in Account \ raced : LinkedOnce(x)' /\ Alone(x)'
    BY <1>0, IdleFacts, AccountConstants DEF IInv, LinkInv, LinkedOnce, Alone, Exists
  <2>2. \A q \in Req : req'[q].pc \notin Searching
    BY <1>0, IdleFacts DEF Searching
  <2> QED BY <1>0, <2>1, <2>2 DEF IInv, LinkInv
<1> QED BY <1>1, <1>2, <1>3 DEF IInv

-----------------------------------------------------------------------------
(* The invariant, and what follows from it. *)

LEMMA InitIInv == Init => IInv
<1> SUFFICES ASSUME Init PROVE IInv
  OBVIOUS
<1>1. \A u \in User : user[u] = Fresh /\ ~Exists(u) /\ link[u] = None
  BY AccountConstants DEF Init, Exists, Fresh
<1>2. \A r \in Req : req[r] = Idle
  BY DEF Init
<1>3. ReqInv
  BY <1>2, IdleFacts DEF Init, ReqInv
<1>4. UserInv
  BY <1>1 DEF Init, UserInv, UserRow, VerifiedIsVouchedFor
<1>5. LinkInv
  <2>1. \A x \in Account \ raced : LinkedOnce(x) /\ Unlinked(x)
    BY <1>1 DEF LinkedOnce, Unlinked
  <2>2. \A x \in Account : Alone(x)
    BY <1>2, IdleFacts, AccountConstants DEF Alone
  <2>3. link \in [User -> Account \cup {None}]
    BY DEF Init
  <2> QED BY <1>1, <2>1, <2>2, <2>3 DEF LinkInv
<1>6. ShotInv
  BY DEF Init, ShotInv, Status
<1> QED BY <1>3, <1>4, <1>5, <1>6 DEF IInv, Init, OAuthLoginsAreVerified

LEMMA NextIInv == IInv /\ [Next]_vars => IInv'
<1> SUFFICES ASSUME IInv, [Next]_vars PROVE IInv'
  OBVIOUS
<1>1. ASSUME NEW r \in Req, Step(r) PROVE IInv'
  <2>1. CASE Abandon(r)
    BY <2>1, EndInv DEF Abandon, Quiet, hist
  <2> QED BY <1>1, <2>1, RegisterInsertInv, MarkInv, ConfirmConsumeInv, CallbackConsumeInv, ExchangeInv,
             ResolveInv, LinkExistingInv, SignUpInv, CommitLoginInv DEF Step
<1>2. ASSUME NEW r \in Req,
             \/ \E e \in Email : RegisterFind(r, e)
             \/ \E u \in User : AdminVerifyFind(r, u)
             \/ \E t \in Token : ConfirmFind(r, t)
             \/ \E n \in Nonce : CallbackFind(r, n)
      PROVE  IInv'
  BY <1>2, ArriveInv
<1>3. CASE \E u \in User : AdminDelete(u)
  BY <1>3, AdminDeleteInv
<1>4. CASE (\E u \in User, t \in Token : VerifyRequest(u, t)) \/ \E n \in Nonce : Authorize(n)
  BY <1>4, IssueInv
<1>5. CASE (\E keep \in BOOLEAN : ProviderPut(keep)) \/ ProviderDelete \/ \E i \in Nonce \cup Token : Expire(i)
  BY <1>5, AsideInv
<1>6. CASE Restart
  BY <1>6, RestartInv
<1>7. CASE UNCHANGED vars
  <2>1. UNCHANGED <<user, link, nonce, token, stale, provider, kek, req, wins, proven, session, raced>>
    BY <1>7 DEF vars, tables, hist
  <2>2. ShotInv'
    BY <2>1 DEF IInv, ShotInv
  <2> QED BY <2>1, <2>2, Apart
<1> QED BY <1>1, <1>2, <1>3, <1>4, <1>5, <1>6, <1>7 DEF Next

LEMMA Invariant == Spec => []IInv
BY InitIInv, NextIInv, PTL DEF Spec

\* Shape of the state (users.rs, oauth.rs, email_verifications.rs).
THEOREM TypesHold == Spec => []TypeOK
<1>1. IInv => TypeOK
  BY DEF IInv, UserInv, LinkInv, ShotInv, TypeOK, UserRow
<1> QED BY <1>1, Invariant, PTL

\* Nobody is marked verified whom no link, provider or admin vouched for: every handler that
\* is about to set the flag has the vouching behind it (email_verify.rs, oauth.rs, users.rs).
THEOREM OnlyTheProvenAreVerified == Spec => []VerifiedIsVouchedFor
<1>1. IInv => VerifiedIsVouchedFor
  BY DEF IInv, UserInv
<1> QED BY <1>1, Invariant, PTL

\* Every login an OAuth callback commits is of a verified user, wherever an earlier callback
\* died (oauth.rs).
THEOREM OAuthLoginsVerified == Spec => []OAuthLoginsAreVerified
<1>1. IInv => OAuthLoginsAreVerified
  BY DEF IInv
<1> QED BY <1>1, Invariant, PTL

\* A provider account leads to at most one user unless two of its callbacks were in flight
\* at once: find-before-link stands in for the constraint the table lacks (oauth.rs).
THEOREM AccountsAreLinkedOnce == Spec => []OneUserPerAccount
<1>1. ASSUME IInv PROVE OneUserPerAccount
  <2> SUFFICES ASSUME NEW x \in Account \ raced
               PROVE  Cardinality({u \in User : Exists(u) /\ link[u] = x}) <= 1
    BY DEF OneUserPerAccount
  <2> DEFINE S == {u \in User : Exists(u) /\ link[u] = x}
  <2>1. \A u, v \in S : u = v
    BY <1>1 DEF IInv, LinkInv, LinkedOnce
  <2> HIDE DEF S
  <2>2. Cardinality(S) <= 1
    <3>1. CASE S = {}
      BY <3>1, FS_EmptySet
    <3>2. CASE S # {}
      <4>1. PICK u \in S : S = {u}
        BY <2>1, <3>2
      <4>2. Cardinality({u}) = 1
        BY FS_Singleton
      <4> QED BY <4>1, <4>2
    <3> QED BY <3>1, <3>2
  <2> QED BY <2>2 DEF S
<1> QED BY <1>1, Invariant, PTL

-----------------------------------------------------------------------------
(* The two tables of one-shot ids. *)

\* A verification link is issued, redeemed or erased with its user, or nothing happens to it.
LEMMA TokenStep ==
  ASSUME IInv, [Next]_vars
  PROVE  [VerifyTokens!Next]_(VerifyTokens!suVars)
<1> DEFINE st == [t \in Token |-> token[t].st]
<1> DEFINE won == [t \in Token |-> wins[t]]
<1>0. token \in [Token -> [st : Status, user : User \cup {None}]] /\ wins \in [Nonce \cup Token -> 0 .. 1]
  BY DEF IInv, ShotInv
<1>1. CASE UNCHANGED <<token, wins>>
  BY <1>1 DEF VerifyTokens!suVars
<1>2. CASE \E u \in User, t \in Token : VerifyRequest(u, t)
  <2>1. PICK u \in User, t \in Token : VerifyRequest(u, t)
    BY <1>2
  <2>2. /\ token[t].st = "absent" /\ token' = [token EXCEPT ![t] = [st |-> "pending", user |-> u]]
        /\ UNCHANGED wins
    BY <2>1 DEF VerifyRequest, issue, Quiet, hist
  <2>3. st[t] = "absent" /\ st' = [st EXCEPT ![t] = "pending"] /\ won' = won
    BY <1>0, <2>2
  <2>4. VerifyTokens!Issue(t)
    BY <2>3 DEF VerifyTokens!Issue
  <2> QED BY <2>4 DEF VerifyTokens!Next
<1>3. CASE \E r \in Req : ConfirmConsume(r)
  <2>1. PICK r \in Req : ConfirmConsume(r)
    BY <1>3
  <2>2. PICK t \in Token : t = req[r].t
    BY <2>1 DEF ConfirmConsume, At, IInv, ReqInv, Placed
  <2>3. CASE token[t].st # "pending"
    BY <1>1, <2>1, <2>2, <2>3 DEF ConfirmConsume
  <2>4. CASE token[t].st = "pending"
    <3>1. token' = [token EXCEPT ![t].st = "spent"] /\ wins' = [wins EXCEPT ![t] = @ + 1]
      BY <2>1, <2>2, <2>4 DEF ConfirmConsume
    <3>2. st[t] = "pending" /\ st' = [st EXCEPT ![t] = "spent"] /\ won' = [won EXCEPT ![t] = @ + 1]
      BY <1>0, <2>4, <3>1
    <3>3. VerifyTokens!Redeem(t)
      BY <3>2 DEF VerifyTokens!Redeem
    <3> QED BY <3>3 DEF VerifyTokens!Next
  <2> QED BY <2>3, <2>4
<1>4. CASE \E u \in User : AdminDelete(u)
  <2>1. PICK u \in User : AdminDelete(u)
    BY <1>4
  <2> DEFINE D == {t \in Token : token[t].user = u /\ token[t].st # "absent"}
  <2>2. PICK T \in SUBSET Token : T = D
    OBVIOUS
  <2>3. /\ token' = [t \in Token |-> IF t \in T THEN [token[t] EXCEPT !.st = "gone"] ELSE token[t]]
        /\ UNCHANGED wins /\ \A t \in T : token[t].st # "absent"
    BY <2>1, <2>2 DEF AdminDelete, delete_user, Quiet, hist
  <2> HIDE DEF D
  <2>4. \A t \in T : st[t] # "absent"
    BY <2>3
  <2>5. st' = [t \in Token |-> IF t \in T THEN "gone" ELSE st[t]] /\ won' = won
    BY <1>0, <2>3
  <2>6. VerifyTokens!Erase(T)
    BY <2>4, <2>5 DEF VerifyTokens!Erase
  <2> QED BY <2>6 DEF VerifyTokens!Next
<1>5. CASE \E r \in Req : CallbackConsume(r)
  <2>1. PICK r \in Req : CallbackConsume(r)
    BY <1>5
  <2>2. PICK n \in Nonce : n = req[r].n
    BY <2>1 DEF CallbackConsume, At, IInv, ReqInv, Placed
  <2>3. UNCHANGED token /\ (UNCHANGED wins \/ wins' = [wins EXCEPT ![n] = @ + 1]) /\ n \notin Token
    BY <2>1, <2>2, AccountConstants DEF CallbackConsume
  <2>4. st' = st /\ won' = won
    BY <1>0, <2>3
  <2> QED BY <2>4 DEF VerifyTokens!suVars
<1>6. \/ UNCHANGED <<token, wins>> \/ \E r \in Req : ConfirmConsume(r) \/ CallbackConsume(r)
      \/ \E u \in User : AdminDelete(u)
      \/ \E u \in User, t \in Token : VerifyRequest(u, t)
  <2>1. ASSUME NEW r \in Req, Step(r), ~ConfirmConsume(r), ~CallbackConsume(r) PROVE UNCHANGED <<token, wins>>
    BY <2>1 DEF Step, RegisterInsert, AdminVerify, ConfirmMark, Exchange, ResolveByLink, ResolveLinked,
                ResolveByEmail, LinkExisting, SignUp, SignUpMark, MarkResolved, CommitLogin, Abandon,
                Quiet, hist, tables
  <2>2. ASSUME NEW r \in Req,
               \/ \E e \in Email : RegisterFind(r, e)
               \/ \E u \in User : AdminVerifyFind(r, u)
               \/ \E t \in Token : ConfirmFind(r, t)
               \/ \E n \in Nonce : CallbackFind(r, n)
        PROVE  UNCHANGED <<token, wins>>
    BY <2>2 DEF RegisterFind, AdminVerifyFind, ConfirmFind, CallbackFind, Begin, tables
  <2>3. CASE \/ \E n \in Nonce : Authorize(n)
             \/ \E keep \in BOOLEAN : ProviderPut(keep)
             \/ ProviderDelete \/ Restart \/ \E i \in Nonce \cup Token : Expire(i)
    BY <2>3 DEF Authorize, ProviderPut, ProviderDelete, Restart, Expire, Quiet, hist, tables
  <2>4. CASE UNCHANGED vars
    BY <2>4 DEF vars, tables, hist
  <2> QED BY <2>1, <2>2, <2>3, <2>4 DEF Next
<1> QED BY <1>1, <1>2, <1>3, <1>4, <1>5, <1>6

\* A nonce of /authorize is issued or redeemed, or nothing happens to it.
LEMMA NonceStep ==
  ASSUME IInv, [Next]_vars
  PROVE  [OAuthStates!Next]_(OAuthStates!suVars)
<1> DEFINE st == [n \in Nonce |-> nonce[n].st]
<1> DEFINE won == [n \in Nonce |-> wins[n]]
<1>0. nonce \in [Nonce -> [st : Status, verifier : Key \cup {NoKey}]] /\ wins \in [Nonce \cup Token -> 0 .. 1]
  BY DEF IInv, ShotInv
<1>1. CASE UNCHANGED <<nonce, wins>>
  BY <1>1 DEF OAuthStates!suVars
<1>2. CASE \E n \in Nonce : Authorize(n)
  <2>1. PICK n \in Nonce : Authorize(n)
    BY <1>2
  <2>2. /\ nonce[n].st = "absent" /\ UNCHANGED wins
        /\ nonce' = [nonce EXCEPT ![n] = [st |-> "pending", verifier |-> verifier_for_storage]]
    BY <2>1 DEF Authorize, fresh_state_nonce, issue_state, Quiet, hist
  <2>3. st[n] = "absent" /\ st' = [st EXCEPT ![n] = "pending"] /\ won' = won
    BY <1>0, <2>2
  <2>4. OAuthStates!Issue(n)
    BY <2>3 DEF OAuthStates!Issue
  <2> QED BY <2>4 DEF OAuthStates!Next
<1>3. CASE \E r \in Req : CallbackConsume(r)
  <2>1. PICK r \in Req : CallbackConsume(r)
    BY <1>3
  <2>2. PICK n \in Nonce : n = req[r].n
    BY <2>1 DEF CallbackConsume, At, IInv, ReqInv, Placed
  <2>3. CASE nonce[n].st # "pending"
    BY <1>1, <2>1, <2>2, <2>3 DEF CallbackConsume
  <2>4. CASE nonce[n].st = "pending"
    <3>1. nonce' = [nonce EXCEPT ![n].st = "spent"] /\ wins' = [wins EXCEPT ![n] = @ + 1]
      BY <2>1, <2>2, <2>4 DEF CallbackConsume
    <3>2. st[n] = "pending" /\ st' = [st EXCEPT ![n] = "spent"] /\ won' = [won EXCEPT ![n] = @ + 1]
      BY <1>0, <2>4, <3>1
    <3>3. OAuthStates!Redeem(n)
      BY <3>2 DEF OAuthStates!Redeem
    <3> QED BY <3>3 DEF OAuthStates!Next
  <2> QED BY <2>3, <2>4
<1>4. CASE \E r \in Req : ConfirmConsume(r)
  <2>1. PICK r \in Req : ConfirmConsume(r)
    BY <1>4
  <2>2. PICK t \in Token : t = req[r].t
    BY <2>1 DEF ConfirmConsume, At, IInv, ReqInv, Placed
  <2>3. UNCHANGED nonce /\ (UNCHANGED wins \/ wins' = [wins EXCEPT ![t] = @ + 1]) /\ t \notin Nonce
    BY <2>1, <2>2, AccountConstants DEF ConfirmConsume
  <2>4. st' = st /\ won' = won
    BY <1>0, <2>3
  <2> QED BY <2>4 DEF OAuthStates!suVars
<1>5. \/ UNCHANGED <<nonce, wins>> \/ \E r \in Req : ConfirmConsume(r) \/ CallbackConsume(r)
      \/ \E n \in Nonce : Authorize(n)
  <2>1. ASSUME NEW r \in Req, Step(r), ~ConfirmConsume(r), ~CallbackConsume(r) PROVE UNCHANGED <<nonce, wins>>
    BY <2>1 DEF Step, RegisterInsert, AdminVerify, ConfirmMark, Exchange, ResolveByLink, ResolveLinked,
                ResolveByEmail, LinkExisting, SignUp, SignUpMark, MarkResolved, CommitLogin, Abandon,
                Quiet, hist, tables
  <2>2. ASSUME NEW r \in Req,
               \/ \E e \in Email : RegisterFind(r, e)
               \/ \E u \in User : AdminVerifyFind(r, u)
               \/ \E t \in Token : ConfirmFind(r, t)
               \/ \E n \in Nonce : CallbackFind(r, n)
        PROVE  UNCHANGED <<nonce, wins>>
    BY <2>2 DEF RegisterFind, AdminVerifyFind, ConfirmFind, CallbackFind, Begin, tables
  <2>3. CASE \/ \E u \in User : AdminDelete(u)
             \/ \E u \in User, t \in Token : VerifyRequest(u, t)
             \/ \E keep \in BOOLEAN : ProviderPut(keep)
             \/ ProviderDelete \/ Restart \/ \E i \in Nonce \cup Token : Expire(i)
    BY <2>3 DEF AdminDelete, VerifyRequest, ProviderPut, ProviderDelete, Restart, Expire, Quiet, hist, tables
  <2>4. CASE UNCHANGED vars
    BY <2>4 DEF vars, tables, hist
  <2> QED BY <2>1, <2>2, <2>3, <2>4 DEF Next
<1> QED BY <1>1, <1>2, <1>3, <1>4, <1>5

\* Both tables implement the one-shot promise: a verification link verifies once and not
\* after its user was deleted, and a nonce lets one callback through
\* (email_verifications.rs, oauth_states.rs).
THEOREM BothAreSingleUse == Spec => SingleUseHolds
<1>1. Init => VerifyTokens!Init
  BY DEF Init, VerifyTokens!Init
<1>2. Init => OAuthStates!Init
  BY DEF Init, OAuthStates!Init
<1>3. Spec => VerifyTokens!Init /\ [][VerifyTokens!Next]_(VerifyTokens!suVars)
  BY <1>1, TokenStep, Invariant, PTL DEF Spec
<1>4. Spec => OAuthStates!Init /\ [][OAuthStates!Next]_(OAuthStates!suVars)
  BY <1>2, NonceStep, Invariant, PTL DEF Spec
<1> QED BY <1>3, <1>4 DEF SingleUseHolds, VerifyTokens!Spec, OAuthStates!Spec
=============================================================================
