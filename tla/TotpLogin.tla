------------------------------ MODULE TotpLogin ------------------------------
(***************************************************************************)
(* Password login with a TOTP second factor for one user: user_login        *)
(* (rustbase-api/auth/login.rs), login_totp, enroll, confirm and disable    *)
(* (auth/totp.rs) and the admin's reset_totp (users.rs) over `_user_totp`   *)
(* (rustbase-db/user_totp.rs) and `_mfa_challenges`                         *)
(* (rustbase-db/mfa_challenges.rs), with the failed-login tracker they      *)
(* share (LoginAttempts).                                                   *)
(*                                                                         *)
(* The user's row stays; a missing user or password hash is a wrong         *)
(* password.  Whether a presented password or code is right is an input.    *)
(***************************************************************************)
EXTENDS LoginAttempts

CONSTANTS
  Req,       \* concurrently running request handlers
  Chal,      \* the random strings fresh_mfa_token can draw
  Secret,    \* the TOTP secrets generate_secret can draw
  NoChal,
  NoSecret,
  Ttl,       \* MFA_CHALLENGE_TTL_MINUTES, in clock ticks
  MaxTime    \* bound: the clock stops here

ASSUME TotpAssumption ==
  /\ NoChal \notin Chal
  /\ NoSecret \notin Secret
  /\ Ttl \in Nat \ {0}
  /\ MaxTime \in Nat

VARIABLES
  attempts,   \* the LoginAttempts entry of the user
  totp,       \* the user's `_user_totp` row
  drawn,      \* history: secrets generated so far
  challenge,  \* challenge[c]: its `_mfa_challenges` row
  req,        \* what each handler remembers across its awaits
  now,
  late,       \* history: verdicts a handler got during the lockout in force
  guesses,    \* history: TOTP verdicts given for a challenge
  held,       \* history: TOTP was on all the time since the handler's login began
  proven      \* history: secrets for which a confirm saw a right code

vars == <<attempts, totp, drawn, challenge, req, now, late, guesses, held, proven>>

NoTotp == [secret |-> NoSecret, enabled |-> FALSE]

Fresh == [status |-> "absent", exp |-> 0]

Idle == [pc |-> "idle", chal |-> NoChal, secret |-> NoSecret]

At(pc, c, s) == [pc |-> pc, chal |-> c, secret |-> s]

Handler == {Idle}
  \cup [pc : {"checked", "challenging", "granting"}, chal : {NoChal}, secret : {NoSecret}]
  \cup [pc : {"found", "consumed"}, chal : Chal, secret : {NoSecret}]
  \cup [pc : {"row", "verify", "granting"}, chal : Chal, secret : Secret]
  \cup [pc : {"confirming"}, chal : {NoChal}, secret : Secret]
  \cup [pc : {"disabling"}, chal : {NoChal}, secret : {NoSecret}]

TypeOK ==
  /\ attempts \in AttemptState
  /\ totp \in {NoTotp} \cup [secret : Secret, enabled : BOOLEAN]
  /\ drawn \subseteq Secret
  /\ challenge \in [Chal -> [status : {"absent", "pending", "consumed"}, exp : Nat]]
  /\ req \in [Req -> Handler]
  /\ now \in Nat
  /\ late \in [Req -> Nat]
  /\ guesses \in [Chal -> Nat]
  /\ held \in [Req -> BOOLEAN]
  /\ proven \subseteq drawn

Init ==
  /\ attempts = NewAttempts
  /\ totp = NoTotp
  /\ drawn = {}
  /\ challenge = [c \in Chal |-> Fresh]
  /\ req = [r \in Req |-> Idle]
  /\ now = 0
  /\ late = [r \in Req |-> 0]
  /\ guesses = [c \in Chal |-> 0]
  /\ held = [r \in Req |-> FALSE]
  /\ proven = {}

Goto(r, h) == req' = [req EXCEPT ![r] = h]

-----------------------------------------------------------------------------
(* Verdicts: what a handler does with the tracker once it knows whether the  *)
(* presented credential is right.  late is history.                          *)

Late(r) == IF Locked(attempts, now) THEN [late EXCEPT ![r] = @ + 1] ELSE late

Failure(r) ==
  /\ attempts' = note_failure(attempts, now)
  /\ late' = IF ~Locked(attempts, now) /\ note_failure(attempts, now).locked
               THEN [s \in Req |-> 0] ELSE Late(r)

Success(r) ==
  /\ attempts' = note_success
  /\ late' = [s \in Req |-> 0]

-----------------------------------------------------------------------------
(* POST .../auth/users/login *)

\* Faulty variant: the lockout is not consulted.
UserLoginUnchecked(r) ==
  /\ req[r] = Idle
  /\ Goto(r, At("checked", NoChal, NoSecret))
  /\ held' = [held EXCEPT ![r] = totp.enabled]
  /\ UNCHANGED <<attempts, totp, drawn, challenge, now, late, guesses, proven>>

\* A locked subject is answered 429 and nothing changes.
user_login(r) ==
  /\ req[r] = Idle
  /\ check(attempts, now)
  /\ Goto(r, At("checked", NoChal, NoSecret))
  /\ held' = [held EXCEPT ![r] = totp.enabled]
  /\ UNCHANGED <<attempts, totp, drawn, challenge, now, late, guesses, proven>>

record_failure_and_pick_error(r) ==
  /\ req[r].pc = "checked"
  /\ Failure(r)
  /\ Goto(r, Idle)
  /\ UNCHANGED <<totp, drawn, challenge, now, guesses, held, proven>>

\* SELECT ... FROM _user_totp: there is a row.
find == totp # NoTotp

\* Faulty variant: a pending enrolment and an enabled one are mixed up.
GateOnPending == find /\ ~totp.enabled

is_user_totp_enabled == find /\ totp.enabled

\* The password is right.  Without TOTP the failure history is cleared and the
\* login goes on to its commit; with TOTP it goes on to a challenge.
PasswordRight(r) ==
  /\ req[r].pc = "checked"
  /\ IF is_user_totp_enabled
       THEN /\ Goto(r, At("challenging", NoChal, NoSecret))
            /\ late' = Late(r)
            /\ UNCHANGED attempts
       ELSE /\ Goto(r, At("granting", NoChal, NoSecret))
            /\ Success(r)
  /\ UNCHANGED <<totp, drawn, challenge, now, guesses, held, proven>>

\* 32 random bytes: never drawn before.
fresh_mfa_token(c) == challenge[c].status = "absent"

\* After the hooks: INSERT of the new token.
issue_mfa_challenge(r, c) ==
  /\ req[r].pc = "challenging"
  /\ fresh_mfa_token(c)
  /\ challenge' = [challenge EXCEPT ![c] = [status |-> "pending", exp |-> now + Ttl]]
  /\ Goto(r, Idle)
  /\ UNCHANGED <<attempts, totp, drawn, now, late, guesses, held, proven>>

\* commit_user_login: the session exists from here on.
Grant(r) ==
  /\ req[r].pc = "granting"
  /\ Goto(r, Idle)
  /\ UNCHANGED <<attempts, totp, drawn, challenge, now, late, guesses, held, proven>>

-----------------------------------------------------------------------------
(* POST .../auth/users/login/totp *)

\* consume, first half.  Unknown, AlreadyConsumed and Expired change nothing.
FindChallenge(r, c) ==
  /\ req[r] = Idle
  /\ challenge[c].status = "pending"
  /\ challenge[c].exp > now
  /\ Goto(r, At("found", c, NoSecret))
  /\ UNCHANGED <<attempts, totp, drawn, challenge, now, late, guesses, held, proven>>

\* Faulty variant: a lost race is not noticed.
ConsumeUnguarded(r) ==
  /\ req[r].pc = "found"
  /\ challenge' = [challenge EXCEPT ![req[r].chal] = [status |-> "consumed", exp |-> @.exp]]
  /\ Goto(r, At("consumed", req[r].chal, NoSecret))
  /\ UNCHANGED <<attempts, totp, drawn, now, late, guesses, held, proven>>

\* UPDATE ... WHERE token_hash = ? AND consumed_at IS NULL; no row means
\* AlreadyConsumed.
consume(r) ==
  /\ req[r].pc = "found"
  /\ IF challenge[req[r].chal].status = "pending"
       THEN /\ challenge' = [challenge EXCEPT ![req[r].chal] =
                               [status |-> "consumed", exp |-> challenge[req[r].chal].exp]]
            /\ Goto(r, At("consumed", req[r].chal, NoSecret))
       ELSE Goto(r, Idle) /\ UNCHANGED challenge
  /\ UNCHANGED <<attempts, totp, drawn, now, late, guesses, held, proven>>

\* The row is read after the challenge is gone; no row or a pending one is an
\* error and the challenge stays consumed.
login_totp(r) ==
  /\ req[r].pc = "consumed"
  /\ Goto(r, IF find /\ totp.enabled THEN At("row", req[r].chal, totp.secret) ELSE Idle)
  /\ UNCHANGED <<attempts, totp, drawn, challenge, now, late, guesses, held, proven>>

\* Only now is the lockout consulted.
CheckSecondStep(r) ==
  /\ req[r].pc = "row"
  /\ Goto(r, IF check(attempts, now) THEN At("verify", req[r].chal, req[r].secret)
                                     ELSE Idle)
  /\ UNCHANGED <<attempts, totp, drawn, challenge, now, late, guesses, held, proven>>

\* check_code against the secret read before.
CodeWrong(r) ==
  /\ req[r].pc = "verify"
  /\ Failure(r)
  /\ guesses' = [guesses EXCEPT ![req[r].chal] = @ + 1]
  /\ Goto(r, Idle)
  /\ UNCHANGED <<totp, drawn, challenge, now, held, proven>>

CodeRight(r) ==
  /\ req[r].pc = "verify"
  /\ Success(r)
  /\ guesses' = [guesses EXCEPT ![req[r].chal] = @ + 1]
  /\ Goto(r, At("granting", req[r].chal, req[r].secret))
  /\ UNCHANGED <<totp, drawn, challenge, now, held, proven>>

-----------------------------------------------------------------------------
(* The signed-in user manages TOTP *)

\* INSERT ... ON CONFLICT DO UPDATE: a new secret, pending again.
enroll(s) ==
  /\ s \notin drawn
  /\ drawn' = drawn \cup {s}
  /\ totp' = [secret |-> s, enabled |-> FALSE]
  /\ held' = [r \in Req |-> FALSE]
  /\ UNCHANGED <<attempts, challenge, req, now, late, guesses, proven>>

\* confirm reads the row and accepts a code for its secret; a wrong code or a
\* missing row changes nothing.
confirm(r) ==
  /\ req[r] = Idle
  /\ find
  /\ proven' = proven \cup {totp.secret}
  /\ Goto(r, At("confirming", NoChal, totp.secret))
  /\ UNCHANGED <<attempts, totp, drawn, challenge, now, late, guesses, held>>

\* UPDATE ... SET enabled = 1 WHERE user_id = ? AND enabled = 0: whatever row
\* is there by now.
confirm_enabled(r) ==
  /\ req[r].pc = "confirming"
  /\ totp' = IF totp = NoTotp THEN totp ELSE [secret |-> totp.secret, enabled |-> TRUE]
  /\ Goto(r, Idle)
  /\ UNCHANGED <<attempts, drawn, challenge, now, late, guesses, held, proven>>

\* disable accepts a code for the row it reads ...
disable(r) ==
  /\ req[r] = Idle
  /\ find
  /\ Goto(r, At("disabling", NoChal, NoSecret))
  /\ UNCHANGED <<attempts, totp, drawn, challenge, now, late, guesses, held, proven>>

\* ... and deletes the row that is there by then.
DisableDelete(r) ==
  /\ req[r].pc = "disabling"
  /\ totp' = NoTotp
  /\ held' = [s \in Req |-> FALSE]
  /\ Goto(r, Idle)
  /\ UNCHANGED <<attempts, drawn, challenge, now, late, guesses, proven>>

\* An admin's DELETE .../users/:id/totp needs no code; no row is no error.
reset_totp ==
  /\ totp' = NoTotp
  /\ held' = [s \in Req |-> FALSE]
  /\ UNCHANGED <<attempts, drawn, challenge, req, now, late, guesses, proven>>

-----------------------------------------------------------------------------
\* A hook vetoes, a statement fails or the connection is dropped.
Abandon(r) ==
  /\ req[r] # Idle
  /\ Goto(r, Idle)
  /\ UNCHANGED <<attempts, totp, drawn, challenge, now, late, guesses, held, proven>>

Tick ==
  /\ now < MaxTime
  /\ now' = now + 1
  /\ UNCHANGED <<attempts, totp, drawn, challenge, req, late, guesses, held, proven>>

Next ==
  \/ \E r \in Req : \/ user_login(r)
                    \/ record_failure_and_pick_error(r)
                    \/ PasswordRight(r)
                    \/ Grant(r)
                    \/ consume(r)
                    \/ login_totp(r)
                    \/ CheckSecondStep(r)
                    \/ CodeWrong(r)
                    \/ CodeRight(r)
                    \/ confirm(r)
                    \/ confirm_enabled(r)
                    \/ disable(r)
                    \/ DisableDelete(r)
                    \/ Abandon(r)
  \/ \E r \in Req, c \in Chal : issue_mfa_challenge(r, c) \/ FindChallenge(r, c)
  \/ \E s \in Secret : enroll(s)
  \/ reset_totp
  \/ Tick

Spec == Init /\ [][Next]_vars

-----------------------------------------------------------------------------
(* Properties *)

\* The tracker keeps its budget under every interleaving of the two login
\* steps (security.rs).
LockoutBudget == BudgetKept(attempts)

\* check and the verdict are far apart, so a handler that was let in before a
\* lockout still gets its verdict during it; but it gets only that one, however
\* password and TOTP steps race.
OneLateVerdict ==
  Locked(attempts, now) => \A r \in Req : late[r] <= 1

\* One challenge, one guess: two second steps racing with the same mfa_token
\* never both see a verdict, and a granted second step spent its challenge.
OneGuessPerChallenge ==
  /\ \A c \in Chal : guesses[c] <= 1
  /\ \A r \in Req : req[r].pc = "granting" /\ req[r].chal # NoChal =>
       challenge[req[r].chal].status = "consumed"

\* A login that began with TOTP enabled, and during which it was never off,
\* does not reach its commit on the password alone.
SecondFactorHonoured ==
  \A r \in Req : req[r].pc = "granting" /\ held[r] => req[r].chal # NoChal

\* user_totp.rs: confirm_enabled "flips enabled=1 after the user proves they
\* programmed the secret correctly by submitting a fresh TOTP code".
EnabledSecretIsProven == totp.enabled => totp.secret \in proven
=============================================================================
