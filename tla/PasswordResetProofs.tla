------------------------- MODULE PasswordResetProofs -------------------------
(***************************************************************************)
(* Proofs about PasswordReset for any number of handlers, tokens and users: *)
(* one token writes at most one password, a finished confirm kills the      *)
(* user's older tokens, and the table implements SingleUse.                 *)
(***************************************************************************)
EXTENDS PasswordReset, TLAPS

Spent(t) == rows[t].status \in {"consumed", "gone"}

\* What a handler carries across its awaits.
HandlersAgree ==
  \A r \in Req :
    /\ req[r].pc \in {"found", "consumed", "written"} =>
         /\ rows[req[r].tok].user = req[r].user
         /\ rows[req[r].tok].status # "absent"
    /\ req[r].pc \in {"consumed", "written"} => Spent(req[r].tok)
    /\ req[r].pc = "consumed" => writes[req[r].tok] = 0

\* At most one handler holds a consumed token whose write is still to come.
OneHolder ==
  \A r, q \in Req :
    req[r].pc = "consumed" /\ req[q].pc = "consumed" /\ req[r].tok = req[q].tok => r = q

\* A token that can still be redeemed has written nothing.
UnspentIsUnused ==
  \A t \in Token : ~Spent(t) => writes[t] = 0

\* The inductive invariant.
IInv ==
  /\ TypeOK
  /\ HandlersAgree
  /\ OneHolder
  /\ UnspentIsUnused
  /\ OneTokenOneWrite
  /\ SettledTokensAreSpent

USE ResetAssumption

\* The empty table satisfies the inductive invariant.
LEMMA InitIInv == Init => IInv
BY DEF Init, IInv, TypeOK, Row, Absent, Handler, Idle, HandlersAgree, OneHolder,
       UnspentIsUnused, OneTokenOneWrite, SettledTokensAreSpent, Spent

\* What the row set says field by field.
LEMMA RowFields ==
  ASSUME TypeOK, NEW t \in Token
  PROVE  /\ rows[t].status \in {"absent", "pending", "consumed", "gone"}
         /\ rows[t].status = "absent" => rows[t] = Absent
         /\ rows[t].status # "absent" =>
              rows[t].user \in User /\ rows[t].exp \in Nat
BY DEF TypeOK, Row, Absent

\* What the handler set says field by field, per program counter.
LEMMA HandlerFields ==
  ASSUME TypeOK, NEW r \in Req
  PROVE  /\ req[r].pc \in {"idle", "request", "found", "consumed", "written"}
         /\ req[r].pc # "idle" => req[r].user \in User
         /\ req[r].pc \in {"found", "consumed", "written"} => req[r].tok \in Token
BY DEF TypeOK, Handler, Idle

\* A step that touches only handler r, moving it to a state that claims
\* nothing of the table, keeps the invariant.
LEMMA ForgetIInv ==
  ASSUME IInv, NEW r \in Req, NEW h \in Handler, h.pc \in {"idle", "request"},
         req' = [req EXCEPT ![r] = h],
         UNCHANGED <<rows, users, passwd, now, wins, writes, settled>>
  PROVE  IInv'
<1>1. TypeOK'
  BY DEF IInv, TypeOK
<1>2. HandlersAgree' /\ OneHolder'
  BY DEF IInv, TypeOK, HandlersAgree, OneHolder, Spent
<1> QED BY <1>1, <1>2 DEF IInv, UnspentIsUnused, OneTokenOneWrite, SettledTokensAreSpent, Spent

\* Starting a request holds no token yet.
LEMMA RequestIInv ==
  ASSUME IInv, NEW r \in Req, NEW u \in User, request(r, u)
  PROVE  IInv'
<1>1. At("request", NoToken, u) \in Handler /\ At("request", NoToken, u).pc = "request"
  BY DEF At, Handler
<1> QED BY <1>1, ForgetIInv DEF request, Goto

\* A handler that ends early only forgets.
LEMMA AbandonIInv ==
  ASSUME IInv, NEW r \in Req, Abandon(r)
  PROVE  IInv'
<1>1. Idle \in Handler /\ Idle.pc = "idle"
  BY DEF Idle, Handler
<1> QED BY <1>1, ForgetIInv DEF Abandon, Goto

\* A fresh row has no history: nobody holds it and nobody wrote with it.
LEMMA IssueIInv ==
  ASSUME IInv, NEW r \in Req, NEW t \in Token, issue(r, t)
  PROVE  IInv'
<1>1. req[r].user \in User /\ now + Ttl \in Nat
  BY HandlerFields DEF IInv, TypeOK, issue
<1>2. /\ rows' = [rows EXCEPT ![t] = [status |-> "pending", user |-> req[r].user,
                                      exp |-> now + Ttl]]
      /\ req' = [req EXCEPT ![r] = Idle]
      /\ UNCHANGED <<users, passwd, now, wins, writes, settled>>
      /\ rows[t].status = "absent"
  BY DEF issue, Goto
<1>3. TypeOK'
  BY <1>1, <1>2 DEF IInv, TypeOK, Row, Handler
<1>4. \A x \in Token \ {t} : rows'[x] = rows[x]
  BY <1>2 DEF IInv, TypeOK
<1>5. HandlersAgree' /\ OneHolder'
  BY <1>2, <1>4, HandlerFields DEF IInv, TypeOK, HandlersAgree, OneHolder, Spent, Idle
<1>6. UnspentIsUnused' /\ SettledTokensAreSpent' /\ OneTokenOneWrite'
  BY <1>2, <1>4 DEF IInv, TypeOK, UnspentIsUnused, SettledTokensAreSpent, OneTokenOneWrite, Spent
<1> QED BY <1>3, <1>5, <1>6 DEF IInv

\* Looking a pending token up does not make the handler its holder.
LEMMA FindIInv ==
  ASSUME IInv, NEW r \in Req, NEW t \in Token, find(r, t)
  PROVE  IInv'
<1>1. rows[t].user \in User /\ rows[t].status = "pending"
  BY RowFields DEF IInv, find
<1>2. /\ req' = [req EXCEPT ![r] = [pc |-> "found", tok |-> t, user |-> rows[t].user]]
      /\ UNCHANGED <<rows, users, passwd, now, wins, writes, settled>>
  BY DEF find, Goto, At
<1>3. TypeOK'
  BY <1>1, <1>2 DEF IInv, TypeOK, Handler
<1>4. HandlersAgree' /\ OneHolder'
  BY <1>1, <1>2 DEF IInv, TypeOK, HandlersAgree, OneHolder, Spent
<1> QED BY <1>2, <1>3, <1>4 DEF IInv, UnspentIsUnused, OneTokenOneWrite, SettledTokensAreSpent, Spent

\* The guarded UPDATE: the winner becomes the only holder.
LEMMA ConsumeIInv ==
  ASSUME IInv, NEW r \in Req, consume(r)
  PROVE  IInv'
<1> DEFINE t == req[r].tok
<1>0. t \in Token /\ req[r].user \in User /\ rows[t].user = req[r].user /\ rows[t].status # "absent"
  BY HandlerFields DEF IInv, HandlersAgree, consume
<1>1. CASE rows[t].status # "pending"
  <2>1. Idle \in Handler /\ Idle.pc = "idle"
    BY DEF Idle, Handler
  <2> QED BY <1>1, <2>1, ForgetIInv DEF consume, Goto
<1>2. CASE rows[t].status = "pending"
  <2>1. /\ rows' = [rows EXCEPT ![t] = [status |-> "consumed", user |-> rows[t].user,
                                        exp |-> rows[t].exp]]
        /\ wins' = [wins EXCEPT ![t] = wins[t] + 1]
        /\ req' = [req EXCEPT ![r] = [pc |-> "consumed", tok |-> t, user |-> req[r].user]]
        /\ UNCHANGED <<users, passwd, now, writes, settled>>
    BY <1>2 DEF consume, Goto, At, WithStatus
  <2>2. rows[t].user \in User /\ rows[t].exp \in Nat /\ wins[t] + 1 \in Nat
    BY <1>0, RowFields DEF IInv, TypeOK
  <2>3. TypeOK'
    BY <1>0, <2>1, <2>2 DEF IInv, TypeOK, Row, Handler
  <2>4. /\ \A x \in Token \ {t} : rows'[x] = rows[x]
        /\ rows'[t].status = "consumed" /\ rows'[t].user = rows[t].user
        /\ writes[t] = 0
    BY <1>0, <1>2, <2>1 DEF IInv, TypeOK, UnspentIsUnused, Spent
  <2>5. \A q \in Req : req[q].pc = "consumed" => req[q].tok # t
    BY <1>2 DEF IInv, HandlersAgree, Spent
  <2>6. HandlersAgree'
    BY <1>0, <2>1, <2>4, HandlerFields DEF IInv, TypeOK, HandlersAgree, Spent
  <2>7. OneHolder'
    BY <2>1, <2>5 DEF IInv, TypeOK, OneHolder
  <2>8. UnspentIsUnused' /\ SettledTokensAreSpent' /\ OneTokenOneWrite'
    BY <1>0, <2>1, <2>4 DEF IInv, TypeOK, UnspentIsUnused, SettledTokensAreSpent, OneTokenOneWrite, Spent
  <2> QED BY <2>3, <2>6, <2>7, <2>8 DEF IInv
<1> QED BY <1>1, <1>2

\* The write is the holder's only one.
LEMMA WriteIInv ==
  ASSUME IInv, NEW r \in Req, set_password_hash(r)
  PROVE  IInv'
<1> DEFINE t == req[r].tok
           u == req[r].user
<1>0. /\ t \in Token /\ u \in User /\ rows[t].user = u /\ Spent(t)
      /\ rows[t].status # "absent" /\ writes[t] = 0 /\ req[r].pc = "consumed"
  BY HandlerFields DEF IInv, HandlersAgree, set_password_hash
<1>1. /\ passwd' = IF u \in users THEN [passwd EXCEPT ![u] = t] ELSE passwd
      /\ writes' = [writes EXCEPT ![t] = writes[t] + 1]
      /\ req' = [req EXCEPT ![r] = [pc |-> "written", tok |-> t, user |-> u]]
      /\ UNCHANGED <<rows, users, now, wins, settled>>
  BY DEF set_password_hash, Goto, At
<1>2. TypeOK'
  BY <1>0, <1>1 DEF IInv, TypeOK, Handler
<1>3. \A q \in Req \ {r} : req[q].pc = "consumed" => req[q].tok # t
  BY <1>0 DEF IInv, OneHolder
<1>4. HandlersAgree'
  BY <1>0, <1>1, <1>3, HandlerFields DEF IInv, TypeOK, HandlersAgree, Spent
<1>5. OneHolder'
  BY <1>1 DEF IInv, TypeOK, OneHolder
<1>6. UnspentIsUnused' /\ SettledTokensAreSpent'
  BY <1>0, <1>1 DEF IInv, TypeOK, UnspentIsUnused, SettledTokensAreSpent, Spent
<1>7. OneTokenOneWrite'
  BY <1>0, <1>1 DEF IInv, TypeOK, OneTokenOneWrite, Spent
<1> QED BY <1>2, <1>4, <1>5, <1>6, <1>7 DEF IInv

\* Rows keep their user and only move towards "consumed" and "gone".
LEMMA RetireIInv ==
  ASSUME IInv, TypeOK', UNCHANGED <<passwd, wins, writes>>,
         \A t \in Token : /\ rows'[t].user = rows[t].user
                          /\ Spent(t) => Spent(t)'
                          /\ rows'[t].status = rows[t].status \/ Spent(t)',
         \A r \in Req : req'[r] = req[r] \/ req'[r] = Idle,
         \A t \in settled' : Spent(t)'
  PROVE  IInv'
<1>1. HandlersAgree'
  <2> SUFFICES ASSUME NEW r \in Req, req'[r] = req[r]
               PROVE  /\ req[r].pc \in {"found", "consumed", "written"} =>
                            /\ rows'[req[r].tok].user = req[r].user
                            /\ rows'[req[r].tok].status # "absent"
                      /\ req[r].pc \in {"consumed", "written"} => Spent(req[r].tok)'
                      /\ req[r].pc = "consumed" => writes'[req[r].tok] = 0
    BY DEF HandlersAgree, Idle, Spent
  <2> QED BY HandlerFields DEF IInv, HandlersAgree, Spent
<1>2. OneHolder'
  BY DEF IInv, OneHolder, Idle
<1>3. UnspentIsUnused'
  BY DEF IInv, UnspentIsUnused
<1>4. OneTokenOneWrite'
  BY DEF IInv, TypeOK, OneTokenOneWrite, Spent
<1> QED BY <1>1, <1>2, <1>3, <1>4 DEF IInv, SettledTokensAreSpent, Spent

\* Marking the siblings keeps every row its user and spends no token twice.
LEMMA InvalidateIInv ==
  ASSUME IInv, NEW r \in Req, invalidate_all_for_user(r)
  PROVE  IInv'
<1> DEFINE u == req[r].user
<1>0. u \in User
  BY HandlerFields DEF IInv, invalidate_all_for_user
<1>1. /\ rows' = [t \in Token |->
           IF rows[t].user = u /\ rows[t].status = "pending"
             THEN [status |-> "consumed", user |-> rows[t].user, exp |-> rows[t].exp]
             ELSE rows[t]]
      /\ settled' = settled \cup {t \in Token : rows[t].user = u}
      /\ req' = [req EXCEPT ![r] = Idle]
      /\ UNCHANGED <<users, passwd, now, wins, writes>>
  BY DEF invalidate_all_for_user, Goto, WithStatus
<1>2. TypeOK'
  <2>1. \A t \in Token : rows'[t] \in Row
    BY <1>1, RowFields DEF IInv, TypeOK, Row
  <2> QED BY <1>1, <2>1 DEF IInv, TypeOK, Handler
<1>3. \A t \in Token : rows[t].user = u => Spent(t)'
  BY <1>0, <1>1, RowFields DEF IInv, Spent, Absent
<1>4. \A t \in Token : /\ rows'[t].user = rows[t].user
                       /\ Spent(t) => Spent(t)'
                       /\ rows'[t].status = rows[t].status \/ Spent(t)'
  BY <1>1 DEF Spent
<1>5. \A t \in settled' : Spent(t)'
  BY <1>1, <1>3, <1>4 DEF IInv, TypeOK, SettledTokensAreSpent, Spent
<1>6. \A q \in Req : req'[q] = req[q] \/ req'[q] = Idle
  BY <1>1 DEF IInv, TypeOK
<1> QED BY <1>1, <1>2, <1>4, <1>5, <1>6, RetireIInv

\* The cascade of a deleted user only retires rows.
LEMMA DeleteIInv ==
  ASSUME IInv, NEW u \in User, delete_user(u)
  PROVE  IInv'
<1>1. /\ rows' = [t \in Token |->
           IF rows[t].user = u
             THEN [status |-> "gone", user |-> rows[t].user, exp |-> rows[t].exp]
             ELSE rows[t]]
      /\ users' = users \ {u}
      /\ UNCHANGED <<passwd, req, now, wins, writes, settled>>
  BY DEF delete_user, WithStatus
<1>2. TypeOK'
  <2>1. \A t \in Token : rows'[t] \in Row
    BY <1>1, RowFields DEF IInv, TypeOK, Row, Absent
  <2> QED BY <1>1, <2>1 DEF IInv, TypeOK
<1>3. \A t \in Token : /\ rows'[t].user = rows[t].user
                       /\ Spent(t) => Spent(t)'
                       /\ rows'[t].status = rows[t].status \/ Spent(t)'
  BY <1>1 DEF Spent
<1>4. \A t \in settled' : Spent(t)'
  BY <1>1, <1>3 DEF IInv, TypeOK, SettledTokensAreSpent, Spent
<1> QED BY <1>1, <1>2, <1>3, <1>4, RetireIInv

\* The clock touches neither rows nor handlers.
LEMMA IdleStepIInv ==
  ASSUME IInv, Tick \/ UNCHANGED vars
  PROVE  IInv'
<1>1. UNCHANGED <<rows, users, passwd, req, wins, writes, settled>> /\ now' \in Nat
  BY DEF IInv, TypeOK, Tick, vars
<1> QED BY <1>1 DEF IInv, TypeOK, HandlersAgree, OneHolder, UnspentIsUnused,
                    OneTokenOneWrite, SettledTokensAreSpent, Spent

\* Every step keeps the inductive invariant.
LEMMA NextIInv == IInv /\ [Next]_vars => IInv'
BY RequestIInv, IssueIInv, FindIInv, ConsumeIInv, WriteIInv, InvalidateIInv,
   AbandonIInv, DeleteIInv, IdleStepIInv DEF Next

\* The inductive invariant holds in every reachable state.
THEOREM Invariance == Spec => []IInv
BY InitIInv, NextIInv, PTL DEF Spec

\* Rows, handlers and history keep their types.
THEOREM TypeCorrect == Spec => []TypeOK
<1>1. IInv => TypeOK
  BY DEF IInv
<1> QED BY <1>1, Invariance, PTL

\* One reset token writes at most one password, whatever races.
THEOREM OneWritePerToken == Spec => []OneTokenOneWrite
<1>1. IInv => OneTokenOneWrite
  BY DEF IInv
<1> QED BY <1>1, Invariance, PTL

\* A finished confirm leaves no usable older token of its user.
THEOREM SettledAreSpent == Spec => []SettledTokensAreSpent
<1>1. IInv => SettledTokensAreSpent
  BY DEF IInv
<1> QED BY <1>1, Invariance, PTL

st == [t \in Token |-> StateOf(rows[t])]

\* The initial table is an initial state of SingleUse.
LEMMA PromiseInit == Init => Promise!Init
BY DEF Init, Promise!Init, StateOf, Absent

\* Every step of the table is a step of SingleUse or a stutter.
LEMMA PromiseNext == IInv /\ [Next]_vars => [Promise!Next]_(Promise!suVars)
<1> SUFFICES ASSUME IInv, [Next]_vars
             PROVE  [Promise!Next]_(Promise!suVars)
  OBVIOUS
<1>0. TypeOK
  BY DEF IInv
<1>1. ASSUME NEW r \in Req, NEW t \in Token, issue(r, t)
      PROVE  Promise!Issue(t)
  <2>1. /\ rows[t].status = "absent"
        /\ rows' = [rows EXCEPT ![t] = [status |-> "pending", user |-> req[r].user,
                                       exp |-> now + Ttl]]
        /\ wins' = wins
    BY <1>1 DEF issue
  <2>2. st[t] = "absent" /\ st' = [st EXCEPT ![t] = "pending"]
    BY <2>1, <1>0 DEF TypeOK, StateOf, st
  <2> QED BY <2>1, <2>2 DEF Promise!Issue, st
<1>2. ASSUME NEW r \in Req, consume(r)
      PROVE  \/ \E t \in Token : Promise!Redeem(t)
             \/ UNCHANGED <<rows, wins>>
  <2> DEFINE t == req[r].tok
  <2>1. t \in Token
    BY <1>0, <1>2, HandlerFields DEF consume
  <2>2. CASE rows[t].status = "pending"
    <3>1. /\ rows' = [rows EXCEPT ![t] = [status |-> "consumed", user |-> rows[t].user,
                                         exp |-> rows[t].exp]]
          /\ wins' = [wins EXCEPT ![t] = wins[t] + 1]
      BY <1>2, <2>2 DEF consume, WithStatus
    <3>2. st[t] = "pending" /\ st' = [st EXCEPT ![t] = "spent"]
      BY <2>1, <2>2, <3>1, <1>0 DEF TypeOK, StateOf, st
    <3> QED BY <2>1, <3>1, <3>2 DEF Promise!Redeem, st
  <2>3. CASE rows[t].status # "pending"
    BY <1>2, <2>3 DEF consume
  <2> QED BY <2>2, <2>3
<1>3. ASSUME NEW r \in Req, invalidate_all_for_user(r)
      PROVE  \E T \in SUBSET Token : Promise!Retire(T)
  <2> DEFINE T == {t \in Token : rows[t].user = req[r].user /\ rows[t].status = "pending"}
  <2>1. /\ rows' = [t \in Token |->
             IF t \in T THEN [status |-> "consumed", user |-> rows[t].user, exp |-> rows[t].exp]
                        ELSE rows[t]]
        /\ wins' = wins
    BY <1>3 DEF invalidate_all_for_user, WithStatus
  <2>2. /\ \A t \in T : st[t] = "pending"
        /\ st' = [t \in Token |-> IF t \in T THEN "spent" ELSE st[t]]
    BY <2>1 DEF StateOf, st
  <2> HIDE DEF T
  <2>3. T \in SUBSET Token
    BY DEF T
  <2>4. Promise!Retire(T)
    BY <2>1, <2>2 DEF Promise!Retire, st
  <2> QED BY <2>3, <2>4
<1>4. ASSUME NEW u \in User, delete_user(u)
      PROVE  \E T \in SUBSET Token : Promise!Erase(T)
  <2> DEFINE T == {t \in Token : rows[t].user = u}
  <2>1. /\ rows' = [t \in Token |->
             IF t \in T THEN [status |-> "gone", user |-> rows[t].user, exp |-> rows[t].exp]
                        ELSE rows[t]]
        /\ wins' = wins
    BY <1>4 DEF delete_user, WithStatus
  <2>2. /\ \A t \in T : st[t] # "absent"
        /\ st' = [t \in Token |-> IF t \in T THEN "gone" ELSE st[t]]
    BY <2>1, <1>0, RowFields DEF StateOf, st, Absent
  <2> HIDE DEF T
  <2>3. T \in SUBSET Token
    BY DEF T
  <2>4. Promise!Erase(T)
    BY <2>1, <2>2 DEF Promise!Erase, st
  <2> QED BY <2>3, <2>4
<1>5. CASE UNCHANGED <<rows, wins>>
  BY <1>5 DEF Promise!suVars
<1>6. CASE \/ \E r \in Req, u \in User : request(r, u)
           \/ \E r \in Req, t \in Token : find(r, t)
           \/ \E r \in Req : set_password_hash(r) \/ Abandon(r)
           \/ Tick
           \/ UNCHANGED vars
  <2>1. UNCHANGED <<rows, wins>>
    BY <1>6 DEF request, find, set_password_hash, Abandon, Tick, vars
  <2> QED BY <2>1, <1>5
<1>7. CASE \E r \in Req, t \in Token : issue(r, t)
  BY <1>7, <1>1 DEF Promise!Next
<1>8. CASE \E r \in Req : consume(r)
  BY <1>8, <1>2, <1>5 DEF Promise!Next
<1>9. CASE \E r \in Req : invalidate_all_for_user(r)
  BY <1>9, <1>3 DEF Promise!Next
<1>10. CASE \E u \in User : delete_user(u)
  BY <1>10, <1>4 DEF Promise!Next
<1> QED BY <1>6, <1>7, <1>8, <1>9, <1>10 DEF Next

\* The reset table implements the one-shot promise.
THEOREM Implements == Spec => ImplementsSingleUse
<1>1. Spec => Promise!Init /\ [][Promise!Next]_(Promise!suVars)
  BY PromiseInit, PromiseNext, Invariance, PTL DEF Spec
<1> QED BY <1>1 DEF ImplementsSingleUse, Promise!Spec
=============================================================================
