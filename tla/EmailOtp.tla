------------------------------ MODULE EmailOtp ------------------------------
(***************************************************************************)
(* Passwordless login by e-mailed code for one address: request and login   *)
(* (rustbase-api/auth/email_otp.rs) over `_email_otps`                      *)
(* (rustbase-db/email_otps.rs), the address's users row and the failed-     *)
(* login tracker (LoginAttempts).                                           *)
(*                                                                         *)
(* consume reads the pending row in one statement and writes it in another; *)
(* the attempts it writes are computed from what it read.  Whether a        *)
(* presented code matches the row that was read is an input.                *)
(***************************************************************************)
EXTENDS LoginAttempts

CONSTANTS
  Req,            \* concurrently running login handlers
  MAX_ATTEMPTS,
  Ttl,            \* OTP_TTL_MINUTES, in clock ticks
  MaxCodes,       \* bound: codes issued for the address
  MaxTime         \* bound: the clock stops here

ASSUME OtpAssumption ==
  /\ MAX_ATTEMPTS \in Nat \ {0}
  /\ Ttl \in Nat \ {0}
  /\ MaxCodes \in Nat
  /\ MaxTime \in Nat

VARIABLES
  rows,      \* rows[i]: the `_email_otps` row with id i
  last,      \* the last id of the AUTOINCREMENT column
  user,      \* the address's users row: "none", "unverified" or "verified"
  attempts,  \* the LoginAttempts entry of the address
  req,       \* what each handler remembers across its awaits
  now,
  wins,      \* history: how often consume answered Ok for a row
  guesses    \* history: wrong codes counted against a row

vars == <<rows, last, user, attempts, req, now, wins, guesses>>

Id == 1..MaxCodes

Idle == [pc |-> "idle", id |-> 0, seen |-> 0]

At(pc, i, n) == [pc |-> pc, id |-> i, seen |-> n]

\* burn, match, wrong: consume between its two statements.  won, failed: the
\* outcome is known, the tracker not yet told.  signup .. commit:
\* issue_tokens_for between its statements.
Pc == {"idle", "checked", "burn", "match", "wrong", "won", "failed",
       "signup", "verify", "commit"}

Handler == [pc : Pc, id : 0..MaxCodes, seen : 0..(MAX_ATTEMPTS - 1)]

Row == [status : {"absent", "pending", "consumed"}, attempts : 0..MAX_ATTEMPTS, exp : Nat]

TypeOK ==
  /\ rows \in [Id -> Row]
  /\ last \in 0..MaxCodes
  /\ user \in {"none", "unverified", "verified"}
  /\ attempts \in AttemptState
  /\ req \in [Req -> Handler]
  /\ now \in Nat
  /\ wins \in [Id -> Nat]
  /\ guesses \in [Id -> Nat]

Init ==
  /\ rows = [i \in Id |-> [status |-> "absent", attempts |-> 0, exp |-> 0]]
  /\ last = 0
  /\ user \in {"none", "unverified"}
  /\ attempts = NewAttempts
  /\ req = [r \in Req |-> Idle]
  /\ now = 0
  /\ wins = [i \in Id |-> 0]
  /\ guesses = [i \in Id |-> 0]

Goto(r, h) == req' = [req EXCEPT ![r] = h]

SetRow(i, st, n) ==
  rows' = [rows EXCEPT ![i] = [status |-> st, attempts |-> n, exp |-> rows[i].exp]]

-----------------------------------------------------------------------------
(* POST .../auth/otp/request *)

\* One transaction: consume what is pending for the address, insert the new
\* row.
issue ==
  /\ last < MaxCodes
  /\ last' = last + 1
  /\ rows' = [i \in Id |->
       IF i = last + 1
         THEN [status |-> "pending", attempts |-> 0, exp |-> now + Ttl]
         ELSE IF rows[i].status = "pending"
           THEN [status |-> "consumed", attempts |-> rows[i].attempts, exp |-> rows[i].exp]
           ELSE rows[i]]
  /\ UNCHANGED <<user, attempts, req, now, wins, guesses>>

\* Anybody may ask, and is answered 202 whatever the address.  The mail goes out
\* after the commit; one that is lost is only logged, and its code stays valid.
request == issue

-----------------------------------------------------------------------------
(* POST .../auth/otp/login *)

login(r) ==
  /\ req[r] = Idle
  /\ check(attempts, now)
  /\ Goto(r, At("checked", 0, 0))
  /\ UNCHANGED <<rows, last, user, attempts, now, wins, guesses>>

\* i is the pending row with the latest issued_at.
current(i) ==
  /\ rows[i].status = "pending"
  /\ \A j \in Id : rows[j].status = "pending" => j <= i

\* The first statement of consume found row i: expired, matching or not.
\* Without a pending row the answer is Unknown.
FoundExpired(r, i) ==
  /\ req[r].pc = "checked"
  /\ current(i)
  /\ rows[i].exp <= now
  /\ Goto(r, At("burn", i, 0))
  /\ UNCHANGED <<rows, last, user, attempts, now, wins, guesses>>

FoundMatch(r, i) ==
  /\ req[r].pc = "checked"
  /\ current(i)
  /\ rows[i].exp > now
  /\ Goto(r, At("match", i, 0))
  /\ UNCHANGED <<rows, last, user, attempts, now, wins, guesses>>

FoundWrong(r, i) ==
  /\ req[r].pc = "checked"
  /\ current(i)
  /\ rows[i].exp > now
  /\ Goto(r, At("wrong", i, rows[i].attempts))
  /\ UNCHANGED <<rows, last, user, attempts, now, wins, guesses>>

\* Expired: UPDATE ... SET consumed_at WHERE id = ?.
Burn(r) ==
  /\ req[r].pc = "burn"
  /\ SetRow(req[r].id, "consumed", rows[req[r].id].attempts)
  /\ Goto(r, Idle)
  /\ UNCHANGED <<last, user, attempts, now, wins, guesses>>

\* Faulty variant: the UPDATE lacks "AND consumed_at IS NULL".
ConsumeUnguarded(r) ==
  /\ req[r].pc = "match"
  /\ SetRow(req[r].id, "consumed", rows[req[r].id].attempts)
  /\ wins' = [wins EXCEPT ![req[r].id] = @ + 1]
  /\ Goto(r, At("won", req[r].id, 0))
  /\ UNCHANGED <<last, user, attempts, now, guesses>>

\* UPDATE ... WHERE id = ? AND consumed_at IS NULL; no row means Unknown.
consume(r) ==
  /\ req[r].pc = "match"
  /\ IF rows[req[r].id].status = "pending"
       THEN /\ SetRow(req[r].id, "consumed", rows[req[r].id].attempts)
            /\ wins' = [wins EXCEPT ![req[r].id] = @ + 1]
            /\ Goto(r, At("won", req[r].id, 0))
       ELSE Goto(r, Idle) /\ UNCHANGED <<rows, wins>>
  /\ UNCHANGED <<last, user, attempts, now, guesses>>

\* Faulty variant: the whole row is written back as it was read.
BumpStaleRow(r) ==
  /\ req[r].pc = "wrong"
  /\ guesses' = [guesses EXCEPT ![req[r].id] = @ + 1]
  /\ IF req[r].seen + 1 >= MAX_ATTEMPTS
       THEN SetRow(req[r].id, "consumed", req[r].seen + 1) /\ Goto(r, Idle)
       ELSE /\ SetRow(req[r].id, "pending", req[r].seen + 1)
            /\ Goto(r, At("failed", req[r].id, 0))
  /\ UNCHANGED <<last, user, attempts, now, wins>>

\* Wrong code: UPDATE ... SET attempts (and consumed_at, over budget) WHERE
\* id = ?, from the attempts read before.  Locked does not reach the tracker.
BumpAttempts(r) ==
  /\ req[r].pc = "wrong"
  /\ guesses' = [guesses EXCEPT ![req[r].id] = @ + 1]
  /\ IF req[r].seen + 1 >= MAX_ATTEMPTS
       THEN SetRow(req[r].id, "consumed", req[r].seen + 1) /\ Goto(r, Idle)
       ELSE /\ SetRow(req[r].id, rows[req[r].id].status, req[r].seen + 1)
            /\ Goto(r, At("failed", req[r].id, 0))
  /\ UNCHANGED <<last, user, attempts, now, wins>>

WrongCode(r) ==
  /\ req[r].pc = "failed"
  /\ attempts' = note_failure(attempts, now)
  /\ Goto(r, Idle)
  /\ UNCHANGED <<rows, last, user, now, wins, guesses>>

-----------------------------------------------------------------------------
(* consume answered Ok: clear the tracker, then issue_tokens_for *)

\* find_user_by_email decides which statements follow.
issue_tokens_for(r) ==
  /\ req[r].pc = "won"
  /\ attempts' = note_success
  /\ Goto(r, At(IF user = "none" THEN "signup"
                ELSE IF user = "unverified" THEN "verify"
                ELSE "commit", req[r].id, 0))
  /\ UNCHANGED <<rows, last, user, now, wins, guesses>>

\* Faulty variant: the new user is taken to be verified already.
SignupUnverified(r) ==
  /\ req[r].pc = "signup"
  /\ user = "none"
  /\ user' = "unverified"
  /\ Goto(r, At("commit", req[r].id, 0))
  /\ UNCHANGED <<rows, last, attempts, now, wins, guesses>>

\* INSERT of an unverified user; the unique address makes it fail if somebody
\* else was faster, and the code stays spent.
insert_passwordless_user(r) ==
  /\ req[r].pc = "signup"
  /\ IF user = "none"
       THEN user' = "unverified" /\ Goto(r, At("verify", req[r].id, 0))
       ELSE Goto(r, Idle) /\ UNCHANGED user
  /\ UNCHANGED <<rows, last, attempts, now, wins, guesses>>

mark_verified(r) ==
  /\ req[r].pc = "verify"
  /\ user' = "verified"
  /\ Goto(r, At("commit", req[r].id, 0))
  /\ UNCHANGED <<rows, last, attempts, now, wins, guesses>>

\* After the hooks: commit_user_login and 200.
Commit(r) ==
  /\ req[r].pc = "commit"
  /\ Goto(r, Idle)
  /\ UNCHANGED <<rows, last, user, attempts, now, wins, guesses>>

\* POST .../auth/register for the same address (auth/register.rs).
register ==
  /\ user = "none"
  /\ user' = "unverified"
  /\ UNCHANGED <<rows, last, attempts, req, now, wins, guesses>>

-----------------------------------------------------------------------------
\* No pending code, a hook's veto, a failed statement, a dropped connection.
Abandon(r) ==
  /\ req[r] # Idle
  /\ Goto(r, Idle)
  /\ UNCHANGED <<rows, last, user, attempts, now, wins, guesses>>

Tick ==
  /\ now < MaxTime
  /\ now' = now + 1
  /\ UNCHANGED <<rows, last, user, attempts, req, wins, guesses>>

Next ==
  \/ request
  \/ \E r \in Req : \/ login(r)
                    \/ Burn(r)
                    \/ consume(r)
                    \/ BumpAttempts(r)
                    \/ WrongCode(r)
                    \/ issue_tokens_for(r)
                    \/ insert_passwordless_user(r)
                    \/ mark_verified(r)
                    \/ Commit(r)
                    \/ Abandon(r)
  \/ \E r \in Req, i \in Id : \/ FoundExpired(r, i)
                              \/ FoundMatch(r, i)
                              \/ FoundWrong(r, i)
  \/ register
  \/ Tick

Spec == Init /\ [][Next]_vars

-----------------------------------------------------------------------------
(* Properties *)

\* One code per address at any time, and it is the one mailed last: a request
\* retires the earlier ones, and the unguarded UPDATEs of Burn and BumpAttempts,
\* which may hit a row long after it was read, never bring one back.
OneCodeInFlight ==
  \A i \in Id : rows[i].status = "pending" => i = last

\* A code logs in at most once, and never after a newer one was requested,
\* even by a handler that had already matched it (email_otps.rs consume).
OnlyNewestCodeWins ==
  [][\A i \in Id : wins'[i] # wins[i] => wins[i] = 0 /\ i = last]_vars

\* Nobody gets a session for an address whose user is not verified, whichever
\* of signup, register and a parallel login created the row.
SessionsAreVerified ==
  \A r \in Req : req[r].pc = "commit" => user = "verified"

\* email_otps.rs, MAX_ATTEMPTS: "Hard cap on wrong-code attempts before the
\* row is force-consumed."
HardCap == \A i \in Id : guesses[i] <= MAX_ATTEMPTS
=============================================================================
