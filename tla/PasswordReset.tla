---------------------------- MODULE PasswordReset ----------------------------
(***************************************************************************)
(* Password reset: `_password_resets` (rustbase-db/password_resets.rs) and  *)
(* the anonymous endpoints request and confirm                              *)
(* (rustbase-api/auth/password_reset.rs).                                   *)
(*                                                                         *)
(* confirm awaits four statements in a row: look the token up, mark it      *)
(* consumed if it still is not, write the password, mark the user's other   *)
(* tokens consumed.  Any number of confirms and requests interleave, and a  *)
(* handler may end between two statements (a crash, a dropped connection,   *)
(* a failed statement).                                                     *)
(***************************************************************************)
EXTENDS Naturals

CONSTANTS
  Req,      \* concurrently running request handlers
  Token,    \* the random strings fresh_token can draw
  User,     \* user ids of one workspace
  NoToken,
  NoUser,
  Ttl,      \* RESET_TTL_MINUTES, in clock ticks
  MaxTime   \* bound: the clock stops here

ASSUME ResetAssumption ==
  /\ NoToken \notin Token
  /\ NoUser \notin User
  /\ Ttl \in Nat \ {0}
  /\ MaxTime \in Nat

VARIABLES
  rows,     \* rows[t]: the row of token t ("gone": deleted with its user)
  users,    \* ids present in `users`
  passwd,   \* passwd[u]: the token whose confirm wrote u's password_hash
  req,      \* what each handler remembers across its awaits
  now,
  wins,     \* history: how often consume answered Ok for a token
  writes,   \* history: how often a confirm of a token wrote a password
  settled   \* history: tokens issued before a finished confirm of their user

vars == <<rows, users, passwd, req, now, wins, writes, settled>>

Absent == [status |-> "absent", user |-> NoUser, exp |-> 0]

Row == {Absent} \cup [status : {"pending", "consumed", "gone"}, user : User, exp : Nat]

Idle == [pc |-> "idle", tok |-> NoToken, user |-> NoUser]

Handler == {Idle} \cup
           [pc : {"request"}, tok : {NoToken}, user : User] \cup
           [pc : {"found", "consumed", "written"}, tok : Token, user : User]

TypeOK ==
  /\ rows \in [Token -> Row]
  /\ users \subseteq User
  /\ passwd \in [User -> Token \cup {NoToken}]
  /\ req \in [Req -> Handler]
  /\ now \in Nat
  /\ wins \in [Token -> Nat]
  /\ writes \in [Token -> Nat]
  /\ settled \subseteq Token

Init ==
  /\ rows = [t \in Token |-> Absent]
  /\ users = User
  /\ passwd = [u \in User |-> NoToken]
  /\ req = [r \in Req |-> Idle]
  /\ now = 0
  /\ wins = [t \in Token |-> 0]
  /\ writes = [t \in Token |-> 0]
  /\ settled = {}

\* A row with its status column rewritten.
WithStatus(row, st) == [status |-> st, user |-> row.user, exp |-> row.exp]

Goto(r, h) == req' = [req EXCEPT ![r] = h]

At(pc, t, u) == [pc |-> pc, tok |-> t, user |-> u]

-----------------------------------------------------------------------------
(* POST .../password-reset/request.  An unknown e-mail gets the same answer  *)
(* and changes nothing; so does a mailer failure, after the row is written.  *)

request(r, u) ==
  /\ req[r] = Idle
  /\ u \in users
  /\ Goto(r, At("request", NoToken, u))
  /\ UNCHANGED <<rows, users, passwd, now, wins, writes, settled>>

\* INSERT; the foreign key refuses a user that was deleted in between.
issue(r, t) ==
  /\ req[r].pc = "request"
  /\ req[r].user \in users
  /\ rows[t].status = "absent"
  /\ rows' = [rows EXCEPT ![t] =
                [status |-> "pending", user |-> req[r].user, exp |-> now + Ttl]]
  /\ Goto(r, Idle)
  /\ UNCHANGED <<users, passwd, now, wins, writes, settled>>

-----------------------------------------------------------------------------
(* POST .../password-reset/confirm *)

\* consume, first half.  Unknown, AlreadyConsumed and Expired answer an error
\* and change nothing.
find(r, t) ==
  /\ req[r] = Idle
  /\ rows[t].status = "pending"
  /\ rows[t].exp > now
  /\ Goto(r, At("found", t, rows[t].user))
  /\ UNCHANGED <<rows, users, passwd, now, wins, writes, settled>>

\* Faulty variant: the UPDATE lacks "AND consumed_at IS NULL".
ConsumeUnguarded(r) ==
  /\ req[r].pc = "found"
  /\ rows[req[r].tok].status \in {"pending", "consumed"}
  /\ rows' = [rows EXCEPT ![req[r].tok] = WithStatus(@, "consumed")]
  /\ wins' = [wins EXCEPT ![req[r].tok] = @ + 1]
  /\ Goto(r, At("consumed", req[r].tok, req[r].user))
  /\ UNCHANGED <<users, passwd, now, writes, settled>>

\* consume, second half: UPDATE ... WHERE token_hash = ? AND consumed_at IS
\* NULL.  No row touched means AlreadyConsumed.
consume(r) ==
  /\ req[r].pc = "found"
  /\ IF rows[req[r].tok].status = "pending"
       THEN /\ rows' = [rows EXCEPT ![req[r].tok] = WithStatus(rows[req[r].tok], "consumed")]
            /\ wins' = [wins EXCEPT ![req[r].tok] = @ + 1]
            /\ Goto(r, At("consumed", req[r].tok, req[r].user))
       ELSE Goto(r, Idle) /\ UNCHANGED <<rows, wins>>
  /\ UNCHANGED <<users, passwd, now, writes, settled>>

\* Faulty variant: the password is written before the token is consumed.
WriteWhenFound(r) ==
  /\ req[r].pc \in {"found", "consumed"}
  /\ passwd' = [passwd EXCEPT ![req[r].user] = req[r].tok]
  /\ writes' = [writes EXCEPT ![req[r].tok] = @ + 1]
  /\ Goto(r, At("written", req[r].tok, req[r].user))
  /\ UNCHANGED <<rows, users, now, wins, settled>>

\* UPDATE users SET password_hash: zero rows, and no error, if the user is gone.
set_password_hash(r) ==
  /\ req[r].pc = "consumed"
  /\ passwd' = IF req[r].user \in users
                 THEN [passwd EXCEPT ![req[r].user] = req[r].tok]
                 ELSE passwd
  /\ writes' = [writes EXCEPT ![req[r].tok] = @ + 1]
  /\ Goto(r, At("written", req[r].tok, req[r].user))
  /\ UNCHANGED <<rows, users, now, wins, settled>>

\* Faulty variant: only the presented token is marked, its siblings are not.
InvalidateNone(r) ==
  /\ req[r].pc = "written"
  /\ settled' = settled \cup {t \in Token : rows[t].user = req[r].user}
  /\ Goto(r, Idle)
  /\ UNCHANGED <<rows, users, passwd, now, wins, writes>>

\* UPDATE ... WHERE user_id = ? AND consumed_at IS NULL, then 200.
invalidate_all_for_user(r) ==
  /\ req[r].pc = "written"
  /\ rows' = [t \in Token |->
                IF rows[t].user = req[r].user /\ rows[t].status = "pending"
                  THEN WithStatus(rows[t], "consumed") ELSE rows[t]]
  /\ settled' = settled \cup {t \in Token : rows[t].user = req[r].user}
  /\ Goto(r, Idle)
  /\ UNCHANGED <<users, passwd, now, wins, writes>>

-----------------------------------------------------------------------------
\* The admin deletes a user; the foreign key takes the reset rows along.
delete_user(u) ==
  /\ u \in users
  /\ users' = users \ {u}
  /\ rows' = [t \in Token |->
                IF rows[t].user = u THEN WithStatus(rows[t], "gone") ELSE rows[t]]
  /\ UNCHANGED <<passwd, req, now, wins, writes, settled>>

\* The handler ends between two statements.
Abandon(r) ==
  /\ req[r] # Idle
  /\ Goto(r, Idle)
  /\ UNCHANGED <<rows, users, passwd, now, wins, writes, settled>>

Tick ==
  /\ now < MaxTime
  /\ now' = now + 1
  /\ UNCHANGED <<rows, users, passwd, req, wins, writes, settled>>

Next ==
  \/ \E r \in Req, u \in User : request(r, u)
  \/ \E r \in Req, t \in Token : issue(r, t) \/ find(r, t)
  \/ \E r \in Req : \/ consume(r)
                    \/ set_password_hash(r)
                    \/ invalidate_all_for_user(r)
                    \/ Abandon(r)
  \/ \E u \in User : delete_user(u)
  \/ Tick

Spec == Init /\ [][Next]_vars

-----------------------------------------------------------------------------
(* Properties *)

\* The table implements the one-shot promise: the lookup is a stutter and the
\* guarded UPDATE is the redemption.
StateOf(row) == IF row.status = "consumed" THEN "spent" ELSE row.status

Promise == INSTANCE SingleUse WITH state <- [t \in Token |-> StateOf(rows[t])]

ImplementsSingleUse == Promise!Spec

\* However confirms race, one reset token changes a password at most once, and
\* the password in force was written by a consumed token of that very user.
OneTokenOneWrite ==
  /\ \A t \in Token : writes[t] <= 1
  /\ \A u \in User : passwd[u] # NoToken =>
       /\ rows[passwd[u]].user = u
       /\ rows[passwd[u]].status \in {"consumed", "gone"}

\* Once a confirm has finished, every token its user had by then is dead: a
\* request that has not consumed its token yet cannot any more.
SettledTokensAreSpent ==
  \A t \in settled : rows[t].status \in {"consumed", "gone"}

\* password_reset.rs: "On success, every other pending reset token for the
\* same user is invalidated so a parallel in-flight request becomes a dead
\* letter": no token from before a finished confirm changes the password.
ParallelRequestIsDeadLetter ==
  [][\A u \in User : passwd'[u] # passwd[u] => passwd'[u] \notin settled]_vars
=============================================================================
