---------------------------- MODULE EmailOtpProofs ----------------------------
(***************************************************************************)
(* Proofs about EmailOtp for any number of handlers and codes and any       *)
(* attempt budget, lockout policy and clock bound.                          *)
(***************************************************************************)
EXTENDS EmailOtp, TLAPS

USE OtpAssumption DEF request

\* The types of everything but the tracker's entry, which no other variable
\* depends on.
Shape ==
  /\ rows \in [Id -> Row]
  /\ last \in 0..MaxCodes
  /\ user \in {"none", "unverified", "verified"}
  /\ req \in [Req -> Handler]
  /\ now \in Nat
  /\ wins \in [Id -> Nat]
  /\ guesses \in [Id -> Nat]

\* Ids are handed out in order.
IssuedInOrder ==
  \A i \in Id :
    /\ rows[i].status = "absent" <=> i > last
    /\ rows[i].status = "absent" => rows[i].attempts = 0

\* A code that logged somebody in is spent.
WinnersAreSpent == \A i \in Id : wins[i] # 0 => rows[i].status = "consumed"

\* A handler between the two statements of consume holds an issued row.
HoldersHoldRows ==
  \A r \in Req : req[r].pc \in {"burn", "match", "wrong"} =>
    req[r].id \in Id /\ rows[req[r].id].status # "absent"

\* A pending code has attempts left.
PendingHasBudget ==
  \A i \in Id : rows[i].status = "pending" => rows[i].attempts < MAX_ATTEMPTS

\* The inductive invariant.
IInv ==
  /\ Shape
  /\ PendingHasBudget
  /\ OneCodeInFlight
  /\ IssuedInOrder
  /\ WinnersAreSpent
  /\ HoldersHoldRows
  /\ SessionsAreVerified

\* The row fields, without the record set.
LEMMA RowFields ==
  ASSUME Shape, NEW i \in Id
  PROVE  /\ rows[i].status \in {"absent", "pending", "consumed"}
         /\ rows[i].attempts \in 0..MAX_ATTEMPTS
         /\ rows[i].exp \in Nat
BY DEF Shape, Row

\* The handler fields, without the record set.
LEMMA HandlerFields ==
  ASSUME Shape, NEW r \in Req
  PROVE  /\ req[r].pc \in Pc
         /\ req[r].id \in 0..MaxCodes
         /\ req[r].seen \in 0..(MAX_ATTEMPTS - 1)
BY DEF Shape, Handler

\* The empty table satisfies the inductive invariant.
LEMMA InitIInv == Init => IInv
BY DEF Init, IInv, Shape, OneCodeInFlight, IssuedInOrder, WinnersAreSpent, PendingHasBudget,
       HoldersHoldRows, SessionsAreVerified, Idle, Pc, Row, Handler, Id

\* A handler step that changes neither rows nor users keeps the invariant if
\* its next record is in order.
LEMMA MoveIInv ==
  ASSUME IInv, NEW r \in Req, NEW h, Goto(r, h),
         h \in Handler,
         h.pc \in {"burn", "match", "wrong"} =>
           h.id \in Id /\ rows[h.id].status # "absent",
         h.pc = "commit" => user = "verified",
         UNCHANGED <<rows, last, user, now, wins, guesses>>
  PROVE  IInv'
<1>1. /\ req' \in [Req -> Handler]
      /\ \A s \in Req : req'[s] = IF s = r THEN h ELSE req[s]
  BY DEF IInv, Shape, Goto
<1>2. Shape'
  BY <1>1 DEF IInv, Shape
<1>3. HoldersHoldRows' /\ SessionsAreVerified'
  BY <1>1 DEF IInv, HoldersHoldRows, SessionsAreVerified
<1> QED BY <1>2, <1>3 DEF IInv, OneCodeInFlight, IssuedInOrder, WinnersAreSpent, PendingHasBudget

\* Rewriting one issued row without making it pending again keeps it, whatever
\* else the handler does.
LEMMA RewriteIInv ==
  ASSUME IInv, NEW r \in Req, NEW h, Goto(r, h), NEW i \in Id, NEW st, NEW n,
         rows[i].status # "absent",
         st \in {"pending", "consumed"}, st = "pending" => rows[i].status = "pending",
         n \in 0..MAX_ATTEMPTS, st = "pending" => n < MAX_ATTEMPTS,
         SetRow(i, st, n),
         h \in Handler,
         h.pc \notin {"burn", "match", "wrong", "commit"},
         \/ UNCHANGED wins
         \/ st = "consumed" /\ wins' = [wins EXCEPT ![i] = @ + 1],
         \/ UNCHANGED guesses
         \/ guesses' = [guesses EXCEPT ![i] = @ + 1],
         UNCHANGED <<last, user, now>>
  PROVE  IInv'
<1>1. /\ req' \in [Req -> Handler]
      /\ \A s \in Req : req'[s] = IF s = r THEN h ELSE req[s]
  BY DEF IInv, Shape, Goto
<1>2. /\ \A j \in Id : rows'[j] = IF j = i
                         THEN [status |-> st, attempts |-> n, exp |-> rows[i].exp]
                         ELSE rows[j]
      /\ rows' \in [Id -> Row]
  <2>1. rows' = [rows EXCEPT ![i] =
                   [status |-> st, attempts |-> n, exp |-> rows[i].exp]]
    BY DEF SetRow
  <2>2. [status |-> st, attempts |-> n, exp |-> rows[i].exp] \in Row
    BY RowFields DEF IInv, Row
  <2> QED BY <2>1, <2>2 DEF IInv, Shape
<1>3. /\ wins' \in [Id -> Nat]
      /\ guesses' \in [Id -> Nat]
      /\ \A j \in Id : wins'[j] # wins[j] => j = i /\ st = "consumed"
  <2>1. wins \in [Id -> Nat] /\ guesses \in [Id -> Nat]
    BY DEF IInv, Shape
  <2>2. /\ wins' \in [Id -> Nat]
        /\ \A j \in Id : wins'[j] # wins[j] => j = i /\ st = "consumed"
    BY <2>1
  <2>3. guesses' \in [Id -> Nat]
    BY <2>1
  <2> QED BY <2>2, <2>3
<1>4. Shape'
  BY <1>1, <1>2, <1>3 DEF IInv, Shape
<1>5. \A j \in Id : /\ rows'[j].status = IF j = i THEN st ELSE rows[j].status
                    /\ rows'[j].status = "absent" <=> rows[j].status = "absent"
                    /\ rows'[j].status = "pending" => rows[j].status = "pending"
  BY <1>2
<1>6. OneCodeInFlight' /\ IssuedInOrder'
  BY <1>2, <1>5 DEF IInv, OneCodeInFlight, IssuedInOrder
<1>10. PendingHasBudget'
  <2> SUFFICES ASSUME NEW j \in Id, rows'[j].status = "pending"
               PROVE  rows'[j].attempts < MAX_ATTEMPTS
    BY DEF PendingHasBudget
  <2>1. CASE j = i
    BY <2>1, <1>2
  <2>2. CASE j # i
    BY <2>2, <1>2 DEF IInv, PendingHasBudget
  <2> QED BY <2>1, <2>2
<1>7. WinnersAreSpent'
  <2> SUFFICES ASSUME NEW j \in Id, wins'[j] # 0 PROVE rows'[j].status = "consumed"
    BY DEF WinnersAreSpent
  <2>1. CASE wins'[j] = wins[j]
    BY <2>1, <1>5 DEF IInv, WinnersAreSpent
  <2>2. CASE wins'[j] # wins[j]
    BY <2>2, <1>3, <1>5
  <2> QED BY <2>1, <2>2
<1>8. HoldersHoldRows'
  BY <1>1, <1>5 DEF IInv, HoldersHoldRows
<1>9. SessionsAreVerified'
  BY <1>1 DEF IInv, SessionsAreVerified
<1> QED BY <1>4, <1>6, <1>7, <1>8, <1>9, <1>10 DEF IInv

\* A new code: the next id, and every earlier code spent.
LEMMA IssueIInv == IInv /\ issue => IInv'
<1> SUFFICES ASSUME IInv, issue PROVE IInv'
  OBVIOUS
<1>1. last \in Nat /\ last + 1 \in Id /\ last' = last + 1 /\ last' \in 0..MaxCodes
  BY DEF IInv, Shape, issue, Id
<1>a. \A i \in Id : i \in Nat
  BY DEF Id
<1>b. \A i \in Id :
        /\ rows[i].status = "absent" <=> i > last
        /\ rows[i].status = "absent" => rows[i].attempts = 0
  BY DEF IInv, IssuedInOrder
<1>2. \A i \in Id :
        /\ rows'[i] \in Row
        /\ i = last + 1 => rows'[i].status = "pending" /\ rows'[i].attempts = 0
        /\ i # last + 1 /\ rows[i].status = "pending" => rows'[i].status = "consumed"
        /\ i # last + 1 /\ rows[i].status # "pending" => rows'[i] = rows[i]
  <2> TAKE i \in Id
  <2>1. /\ rows[i].attempts \in 0..MAX_ATTEMPTS /\ rows[i].exp \in Nat
        /\ now + Ttl \in Nat /\ 0 \in 0..MAX_ATTEMPTS
    <3>1. now \in Nat
      BY DEF IInv, Shape
    <3> QED BY <3>1, RowFields DEF IInv
  <2>2. CASE i = last + 1
    BY <2>1, <2>2 DEF issue, Row
  <2>3. CASE i # last + 1 /\ rows[i].status = "pending"
    BY <2>1, <2>3 DEF issue, Row
  <2>4. CASE i # last + 1 /\ rows[i].status # "pending"
    BY <2>4 DEF issue, IInv, Shape
  <2> QED BY <2>2, <2>3, <2>4
<1>3. Shape'
  BY <1>1, <1>2 DEF IInv, Shape, issue
<1>4. OneCodeInFlight'
  BY <1>1, <1>2 DEF IInv, OneCodeInFlight
<1>5. IssuedInOrder'
  <2> SUFFICES ASSUME NEW i \in Id
               PROVE  /\ rows'[i].status = "absent" <=> i > last'
                      /\ rows'[i].status = "absent" => rows'[i].attempts = 0
    BY DEF IssuedInOrder
  <2>1. CASE i = last + 1
    BY <2>1, <1>1, <1>2
  <2>2. CASE i # last + 1
    <3>1. rows'[i].status = "absent" <=> rows[i].status = "absent"
      BY <2>2, <1>2
    <3>2. i > last <=> i > last + 1
      BY <2>2, <1>1, <1>a
    <3>3. rows[i].status = "absent" => rows'[i] = rows[i]
      BY <2>2, <1>2
    <3> QED BY <1>1, <1>b, <3>1, <3>2, <3>3
  <2> QED BY <2>1, <2>2
<1>6. \A i \in Id : rows[i].status # "absent" => i # last + 1 /\ rows'[i].status # "absent"
  BY <1>1, <1>a, <1>b, <1>2
<1>7. HoldersHoldRows' /\ SessionsAreVerified'
  BY <1>6 DEF IInv, HoldersHoldRows, SessionsAreVerified, issue
<1>8. WinnersAreSpent'
  BY <1>2, <1>6 DEF IInv, WinnersAreSpent, issue
<1>9. PendingHasBudget'
  BY <1>2 DEF PendingHasBudget
<1> QED BY <1>9, <1>3, <1>4, <1>5, <1>7, <1>8 DEF IInv

\* Every step keeps the inductive invariant.
LEMMA NextIInv == IInv /\ [Next]_vars => IInv'
<1> SUFFICES ASSUME IInv, [Next]_vars PROVE IInv'
  OBVIOUS
<1>0. /\ 0 \in 0..MaxCodes /\ 0 \in 0..(MAX_ATTEMPTS - 1)
      /\ Idle \in Handler
      /\ Idle.pc = "idle"
      /\ \A pc \in Pc, i \in 0..MaxCodes, n \in 0..(MAX_ATTEMPTS - 1) :
           /\ At(pc, i, n) \in Handler
           /\ At(pc, i, n).pc = pc
           /\ At(pc, i, n).id = i
      /\ {"idle", "checked", "burn", "match", "wrong", "won", "failed"} \subseteq Pc
      /\ {"signup", "verify", "commit"} \subseteq Pc
      /\ \A i \in Id : i \in 0..MaxCodes
  BY DEF Idle, At, Pc, Handler, Id
<1>1. ASSUME NEW r \in Req, login(r) PROVE IInv'
  BY <1>0, <1>1, MoveIInv DEF login
<1>2. ASSUME NEW r \in Req, NEW i \in Id, FoundExpired(r, i) \/ FoundMatch(r, i)
      PROVE  IInv'
  BY <1>0, <1>2, MoveIInv DEF FoundExpired, FoundMatch, current
<1>3. ASSUME NEW r \in Req, NEW i \in Id, FoundWrong(r, i) PROVE IInv'
  <2>1. rows[i].attempts \in 0..(MAX_ATTEMPTS - 1)
    BY <1>3, RowFields DEF FoundWrong, current, IInv, PendingHasBudget
  <2>2. /\ Goto(r, At("wrong", i, rows[i].attempts))
        /\ rows[i].status = "pending"
        /\ UNCHANGED <<rows, last, user, now, wins, guesses>>
    BY <1>3 DEF FoundWrong, current
  <2> DEFINE h == At("wrong", i, rows[i].attempts)
  <2>3. h \in Handler /\ h.pc = "wrong" /\ h.id = i
    BY <1>0, <2>1
  <2> HIDE DEF h
  <2>4. Goto(r, h)
    BY <2>2 DEF h
  <2> QED BY <2>2, <2>3, <2>4, MoveIInv
<1>4. ASSUME NEW r \in Req, Burn(r) PROVE IInv'
  <2>1. /\ req[r].id \in Id /\ rows[req[r].id].status # "absent"
        /\ rows[req[r].id].attempts \in 0..MAX_ATTEMPTS
    BY <1>4, RowFields DEF Burn, IInv, HoldersHoldRows
  <2>2. /\ SetRow(req[r].id, "consumed", rows[req[r].id].attempts)
        /\ Goto(r, Idle)
        /\ UNCHANGED <<last, user, now, wins, guesses>>
    BY <1>4 DEF Burn
  <2> QED BY <1>0, <2>1, <2>2, RewriteIInv
<1>5. ASSUME NEW r \in Req, consume(r) PROVE IInv'
  <2>1. /\ req[r].id \in Id /\ rows[req[r].id].status # "absent"
        /\ rows[req[r].id].attempts \in 0..MAX_ATTEMPTS
    BY <1>5, RowFields DEF consume, IInv, HoldersHoldRows
  <2>2. CASE rows[req[r].id].status = "pending"
    <3>1. /\ SetRow(req[r].id, "consumed", rows[req[r].id].attempts)
          /\ wins' = [wins EXCEPT ![req[r].id] = @ + 1]
          /\ Goto(r, At("won", req[r].id, 0))
          /\ UNCHANGED <<last, user, now, guesses>>
      BY <1>5, <2>2 DEF consume
    <3>2. At("won", req[r].id, 0) \in Handler /\ At("won", req[r].id, 0).pc = "won"
      BY <1>0, <2>1
    <3> QED BY <2>1, <3>1, <3>2, RewriteIInv
  <2>3. CASE rows[req[r].id].status # "pending"
    BY <1>0, <1>5, <2>3, MoveIInv DEF consume
  <2> QED BY <2>2, <2>3
<1>6. ASSUME NEW r \in Req, BumpAttempts(r) PROVE IInv'
  <2>1. /\ req[r].id \in Id /\ rows[req[r].id].status \in {"pending", "consumed"}
        /\ rows[req[r].id].status # "absent"
        /\ req[r].seen + 1 \in 0..MAX_ATTEMPTS
    BY <1>6, RowFields, HandlerFields DEF BumpAttempts, IInv, HoldersHoldRows
  <2>2. CASE req[r].seen + 1 >= MAX_ATTEMPTS
    <3>1. /\ SetRow(req[r].id, "consumed", req[r].seen + 1)
          /\ guesses' = [guesses EXCEPT ![req[r].id] = @ + 1]
          /\ Goto(r, Idle)
          /\ UNCHANGED <<last, user, now, wins>>
      BY <1>6, <2>2 DEF BumpAttempts
    <3> QED BY <1>0, <2>1, <3>1, RewriteIInv
  <2>3. CASE req[r].seen + 1 < MAX_ATTEMPTS
    <3>1. /\ SetRow(req[r].id, rows[req[r].id].status, req[r].seen + 1)
          /\ guesses' = [guesses EXCEPT ![req[r].id] = @ + 1]
          /\ Goto(r, At("failed", req[r].id, 0))
          /\ UNCHANGED <<last, user, now, wins>>
      BY <1>6, <2>1, <2>3 DEF BumpAttempts
    <3>2. At("failed", req[r].id, 0) \in Handler /\ At("failed", req[r].id, 0).pc = "failed"
      BY <1>0, <2>1
    <3> QED BY <2>1, <2>3, <3>1, <3>2, RewriteIInv
  <2> QED BY <2>1, <2>2, <2>3
<1>7. ASSUME NEW r \in Req, WrongCode(r) \/ Commit(r) \/ Abandon(r) PROVE IInv'
  BY <1>0, <1>7, MoveIInv DEF WrongCode, Commit, Abandon
<1>8. ASSUME NEW r \in Req, issue_tokens_for(r) PROVE IInv'
  <2>1. req[r].id \in 0..MaxCodes /\ user \in {"none", "unverified", "verified"}
    BY HandlerFields DEF IInv, Shape
  <2> QED BY <1>0, <1>8, <2>1, MoveIInv DEF issue_tokens_for
<1>9. ASSUME NEW r \in Req, insert_passwordless_user(r) \/ mark_verified(r)
      PROVE  IInv'
  <2>1. PICK h \in Handler :
          /\ Goto(r, h)
          /\ h.pc \in {"idle", "verify", "commit"}
          /\ h.pc = "commit" => user' = "verified"
    <3>1. req[r].id \in 0..MaxCodes
      BY HandlerFields DEF IInv
    <3> QED BY <1>0, <1>9, <3>1 DEF insert_passwordless_user, mark_verified
  <2>2. /\ req' \in [Req -> Handler]
        /\ \A s \in Req : req'[s] = IF s = r THEN h ELSE req[s]
    BY <2>1 DEF IInv, Shape, Goto
  <2>3. /\ user' \in {"none", "unverified", "verified"}
        /\ user = "verified" => user' = "verified"
        /\ UNCHANGED <<rows, last, now, wins, guesses>>
    BY <1>9 DEF insert_passwordless_user, mark_verified, IInv, Shape
  <2>4. Shape'
    BY <2>2, <2>3 DEF IInv, Shape
  <2>5. HoldersHoldRows' /\ SessionsAreVerified'
    BY <2>1, <2>2, <2>3 DEF IInv, HoldersHoldRows, SessionsAreVerified
  <2> QED BY <2>3, <2>4, <2>5 DEF IInv, OneCodeInFlight, IssuedInOrder, WinnersAreSpent, PendingHasBudget
<1>10. CASE register
  BY <1>10 DEF register, IInv, Shape, OneCodeInFlight, IssuedInOrder,
               PendingHasBudget, WinnersAreSpent, HoldersHoldRows, SessionsAreVerified
<1>11. CASE Tick \/ UNCHANGED vars
  <2>1. UNCHANGED <<rows, last, user, req, wins, guesses>> /\ now' \in Nat
    BY <1>11 DEF Tick, vars, IInv, Shape
  <2> QED BY <2>1 DEF IInv, Shape, OneCodeInFlight, IssuedInOrder, PendingHasBudget,
                      WinnersAreSpent, HoldersHoldRows, SessionsAreVerified
<1> QED BY <1>1, <1>2, <1>3, <1>4, <1>5, <1>6, <1>7, <1>8, <1>9, <1>10, <1>11,
           IssueIInv DEF Next
\* The inductive invariant holds in every reachable state.
THEOREM Invariance == Spec => []IInv
BY InitIInv, NextIInv, PTL DEF Spec

\* At any time at most one code of an address is pending, the newest one.
THEOREM CodesAreReplaced == Spec => []OneCodeInFlight
<1>1. IInv => OneCodeInFlight
  BY DEF IInv
<1> QED BY <1>1, Invariance, PTL

\* Every session started by a code belongs to a verified user.
THEOREM CodesVerifyUsers == Spec => []SessionsAreVerified
<1>1. IInv => SessionsAreVerified
  BY DEF IInv
<1> QED BY <1>1, Invariance, PTL

\* A code logs in at most once, and only while it is the newest one.
THEOREM NewestCodeWins == Spec => OnlyNewestCodeWins
<1>1. IInv /\ [Next]_vars =>
        [\A i \in Id : wins'[i] # wins[i] => wins[i] = 0 /\ i = last]_vars
  <2> SUFFICES ASSUME IInv, Next, NEW i \in Id, wins'[i] # wins[i]
               PROVE  wins[i] = 0 /\ i = last
    BY DEF vars
  <2>1. PICK r \in Req : consume(r)
    BY DEF Next, issue, login, Burn, BumpAttempts, WrongCode, issue_tokens_for,
           insert_passwordless_user, mark_verified, Commit, Abandon, FoundExpired,
           FoundMatch, FoundWrong, register, Tick
  <2>2. i = req[r].id /\ rows[i].status = "pending"
    BY <2>1 DEF consume, IInv, Shape, HoldersHoldRows
  <2> QED BY <2>2 DEF IInv, OneCodeInFlight, WinnersAreSpent
<1> QED BY <1>1, Invariance, PTL DEF Spec, OnlyNewestCodeWins
-----------------------------------------------------------------------------
(* One login at a time *)

\* With one handler the attempts column counts the wrong codes, and what the
\* handler remembers is what the column holds.
CountsAgree ==
  /\ \A i \in Id : guesses[i] = rows[i].attempts
  /\ \A r \in Req : req[r].pc = "wrong" => req[r].seen = rows[req[r].id].attempts

\* A single handler's steps keep the count and the column equal.
LEMMA CountsStep ==
  ASSUME \A r, s \in Req : r = s, IInv, CountsAgree, [Next]_vars
  PROVE  CountsAgree'
<1> DEFINE Same == /\ \A i \in Id : rows'[i].attempts = rows[i].attempts
                   /\ UNCHANGED guesses
           Quiet == \A r \in Req : req'[r].pc = "wrong" =>
                      \/ req'[r] = req[r]
                      \/ /\ req'[r].id \in Id
                         /\ req'[r].seen = rows[req'[r].id].attempts
<1>1. Same /\ Quiet => CountsAgree'
  BY DEF CountsAgree, IInv, HoldersHoldRows
<1>2. ASSUME NEW r \in Req, NEW h, Goto(r, h), h.pc # "wrong" PROVE Quiet
  BY <1>2 DEF Goto, IInv, Shape
<1>3. ASSUME NEW i \in Id, NEW st, SetRow(i, st, rows[i].attempts), UNCHANGED guesses
      PROVE  Same
  BY <1>3 DEF SetRow, IInv, Shape
<1>4. ASSUME UNCHANGED <<rows, guesses>> PROVE Same
  BY <1>4
<1>5. Idle.pc # "wrong" /\ \A pc, i, n : At(pc, i, n).pc = pc
                                        /\ At(pc, i, n).id = i /\ At(pc, i, n).seen = n
  BY DEF Idle, At
<1>6. ASSUME NEW r \in Req, BumpAttempts(r) PROVE CountsAgree'
  <2>1. /\ req[r].id \in Id
        /\ req[r].seen = rows[req[r].id].attempts
        /\ guesses[req[r].id] = req[r].seen
        /\ guesses' = [guesses EXCEPT ![req[r].id] = @ + 1]
    BY <1>6 DEF BumpAttempts, CountsAgree, IInv, HoldersHoldRows
  <2>2. /\ \E st : SetRow(req[r].id, st, req[r].seen + 1)
        /\ \E h : Goto(r, h) /\ h.pc # "wrong"
    <3>1. At("failed", req[r].id, 0).pc # "wrong"
      BY <1>5
    <3> QED BY <1>6, <1>5, <3>1 DEF BumpAttempts
  <2>3. \A i \in Id : rows'[i].attempts = IF i = req[r].id THEN req[r].seen + 1
                                          ELSE rows[i].attempts
    BY <2>1, <2>2 DEF SetRow, IInv, Shape
  <2>4. \A i \in Id : guesses'[i] = IF i = req[r].id THEN req[r].seen + 1 ELSE guesses[i]
    BY <2>1 DEF IInv, Shape
  <2>5. \A s \in Req : req'[s].pc # "wrong"
    BY <2>2 DEF Goto, IInv, Shape
  <2> QED BY <2>3, <2>4, <2>5 DEF CountsAgree
<1>7. ASSUME NEW r \in Req, Burn(r) PROVE CountsAgree'
  <2>1. req[r].id \in Id
    BY <1>7 DEF Burn, IInv, HoldersHoldRows
  <2> QED BY <1>7, <2>1, <1>1, <1>2, <1>3, <1>5 DEF Burn
<1>8. ASSUME NEW r \in Req, consume(r) PROVE CountsAgree'
  <2>1. req[r].id \in Id
    BY <1>8 DEF consume, IInv, HoldersHoldRows
  <2>2. Quiet
    BY <1>8, <1>2, <1>5 DEF consume
  <2>3. Same
    BY <1>8, <2>1, <1>3, <1>4 DEF consume
  <2> QED BY <2>2, <2>3, <1>1
<1>9. ASSUME NEW r \in Req, NEW i \in Id, FoundWrong(r, i) PROVE CountsAgree'
  <2>1. Same
    BY <1>9 DEF FoundWrong
  <2>2. req' = [req EXCEPT ![r] = At("wrong", i, rows[i].attempts)]
    BY <1>9 DEF FoundWrong, Goto
  <2>3. Quiet
    BY <2>2, <1>5 DEF IInv, Shape
  <2> QED BY <2>1, <2>3, <1>1
<1>10. ASSUME NEW r \in Req, NEW i \in Id, FoundExpired(r, i) \/ FoundMatch(r, i)
       PROVE  CountsAgree'
  BY <1>10, <1>1, <1>2, <1>4, <1>5 DEF FoundExpired, FoundMatch
<1>11. ASSUME NEW r \in Req,
              login(r) \/ WrongCode(r) \/ issue_tokens_for(r)
                \/ insert_passwordless_user(r) \/ mark_verified(r)
                \/ Commit(r) \/ Abandon(r)
       PROVE  CountsAgree'
  <2>1. Same
    BY <1>11 DEF login, WrongCode, issue_tokens_for, insert_passwordless_user,
                 mark_verified, Commit, Abandon
  <2>2. \E h : Goto(r, h) /\ h.pc # "wrong"
    BY <1>11, <1>5 DEF login, WrongCode, issue_tokens_for, insert_passwordless_user,
                       mark_verified, Commit, Abandon
  <2> QED BY <2>1, <2>2, <1>1, <1>2
<1>12. CASE register \/ Tick \/ UNCHANGED vars
  BY <1>12 DEF register, Tick, vars, CountsAgree
<1>13. CASE issue
  <2>1. \A i \in Id : rows'[i].attempts = rows[i].attempts \/ i = last + 1
    BY <1>13 DEF issue
  <2>2. last + 1 \in Id /\ rows'[last + 1].attempts = 0
    BY <1>13 DEF issue, Id, IInv, Shape
  <2>3. rows[last + 1].status = "absent" /\ rows[last + 1].attempts = 0
    <3>1. last \in Nat
      BY DEF IInv, Shape
    <3>2. last + 1 > last
      BY <3>1
    <3> QED BY <2>2, <3>2 DEF IInv, IssuedInOrder
  <2> QED BY <1>13, <1>1, <2>1, <2>2, <2>3 DEF issue
<1> QED BY <1>6, <1>7, <1>8, <1>9, <1>10, <1>11, <1>12, <1>13 DEF Next

\* With one login at a time the cap of email_otps.rs is exact: no code sees
\* more than MAX_ATTEMPTS wrong guesses.  (With two it is not, see HardCap.)
THEOREM HardCapIfSequential ==
  ASSUME \A r, s \in Req : r = s
  PROVE  Spec => []HardCap
<1>1. Init => CountsAgree
  BY DEF Init, CountsAgree, Idle
<1>2. IInv /\ CountsAgree /\ [Next]_vars => CountsAgree'
  BY CountsStep
<1>3. IInv /\ CountsAgree => HardCap
  BY RowFields DEF IInv, CountsAgree, HardCap
<1> QED BY <1>1, <1>2, <1>3, Invariance, PTL DEF Spec
=============================================================================
