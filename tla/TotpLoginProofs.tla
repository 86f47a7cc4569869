---------------------------- MODULE TotpLoginProofs ----------------------------
(***************************************************************************)
(* Proofs about TotpLogin for any number of handlers, challenges and        *)
(* secrets, any lockout policy and any clock bound.                         *)
(***************************************************************************)
EXTENDS TotpLogin, FiniteSetTheorems, TLAPS

USE TotpAssumption, LockoutAssumption DEF find, fresh_mfa_token

\* The types the argument needs; what the failure series holds is not among
\* them.
Shape ==
  /\ totp \in {NoTotp} \cup [secret : Secret, enabled : BOOLEAN]
  /\ challenge \in [Chal -> [status : {"absent", "pending", "consumed"}, exp : Nat]]
  /\ req \in [Req -> Handler]
  /\ now \in Nat
  /\ attempts.until \in Nat
  /\ late \in [Req -> Nat]
  /\ guesses \in [Chal -> Nat]
  /\ held \in [Req -> BOOLEAN]

\* A handler that passed check and has no verdict yet.
Admitted(r) == req[r].pc \in {"checked", "verify"}

\* During a lockout an admitted handler has had no verdict, any other at most
\* one.
LateBudget ==
  Locked(attempts, now) => \A r \in Req : /\ late[r] <= 1
                                          /\ Admitted(r) => late[r] = 0

\* A handler that won a challenge and has no verdict on it yet.
Holds(r, c) == req[r].pc \in {"consumed", "row", "verify"} /\ req[r].chal = c

\* A won challenge is spent and not judged, and has one winner.
OneHolder ==
  \A r \in Req, c \in Chal : Holds(r, c) =>
    /\ challenge[c].status = "consumed"
    /\ guesses[c] = 0
    /\ \A s \in Req : Holds(s, c) => s = r

\* A challenge nobody consumed was never judged.
UnspentIsUnjudged ==
  \A c \in Chal : challenge[c].status # "consumed" => guesses[c] = 0

\* held is about now: TOTP is on.
HeldMeansOn == \A r \in Req : held[r] => totp.enabled

IInv ==
  /\ Shape
  /\ LateBudget
  /\ OneHolder
  /\ UnspentIsUnjudged
  /\ HeldMeansOn
  /\ OneGuessPerChallenge
  /\ SecondFactorHonoured

\* The handler set field by field.
LEMMA HandlerFields ==
  ASSUME Shape, NEW r \in Req
  PROVE  /\ req[r].pc \in {"idle", "checked", "challenging", "granting", "found",
                           "consumed", "row", "verify", "confirming", "disabling"}
         /\ req[r].pc \in {"found", "consumed", "row", "verify"} => req[r].chal \in Chal
         /\ req[r].pc \in {"row", "verify"} => req[r].secret \in Secret
BY DEF Shape, Handler, Idle

\* The initial state satisfies the inductive invariant.
LEMMA InitIInv == Init => IInv
BY DEF Init, IInv, Shape, LateBudget, Admitted, OneHolder, Holds, UnspentIsUnjudged,
       HeldMeansOn, OneGuessPerChallenge, SecondFactorHonoured, Idle, Fresh, Handler,
       NewAttempts, Locked

\* A verdict, right or wrong: whatever lockout is in force afterwards, nobody
\* has had two verdicts in it, provided r is no longer admitted.
LEMMA VerdictLate ==
  ASSUME IInv, NEW r \in Req, Admitted(r), ~Admitted(r)', UNCHANGED now,
         \A s \in Req : s # r => (Admitted(s)' <=> Admitted(s)),
         \/ Failure(r)
         \/ Success(r)
         \/ UNCHANGED attempts /\ late' = Late(r)
  PROVE  /\ LateBudget'
         /\ late' \in [Req -> Nat]
         /\ attempts'.until \in Nat
<1>1. late \in [Req -> Nat] /\ now \in Nat /\ attempts.until \in Nat
  BY DEF IInv, Shape
<1>2. Late(r) \in [Req -> Nat] /\ [s \in Req |-> 0] \in [Req -> Nat]
  BY <1>1 DEF Late
<1>3. Locked(attempts, now) =>
        /\ late[r] = 0
        /\ \A s \in Req : Late(r)[s] = IF s = r THEN 1 ELSE late[s]
  BY <1>1 DEF Late, IInv, LateBudget
<1>4. CASE Success(r)
  <2>1. ~Locked(attempts', now') /\ attempts'.until = 0
    BY <1>4 DEF Success, note_success, NewAttempts, Locked
  <2> QED BY <1>2, <1>4, <2>1 DEF Success, LateBudget
<1>5. CASE UNCHANGED attempts /\ late' = Late(r)
  BY <1>1, <1>2, <1>3, <1>5 DEF IInv, LateBudget
<1>6. CASE Failure(r) /\ Locked(attempts, now)
  <2>1. attempts' = attempts /\ late' = Late(r)
    BY <1>6 DEF Failure, note_failure
  <2> QED BY <1>1, <1>2, <1>3, <2>1 DEF IInv, LateBudget
<1>7. CASE Failure(r) /\ ~Locked(attempts, now)
  <2>1. attempts'.until \in Nat
    BY <1>1, <1>7 DEF Failure, note_failure
  <2>2. CASE note_failure(attempts, now).locked
    BY <1>2, <1>7, <2>1, <2>2 DEF Failure, LateBudget
  <2>3. CASE ~note_failure(attempts, now).locked
    <3>1. ~Locked(attempts', now') /\ late' = Late(r)
      BY <1>7, <2>3 DEF Failure, Locked
    <3> QED BY <1>2, <2>1, <3>1 DEF LateBudget
  <2> QED BY <2>2, <2>3
<1> QED BY <1>4, <1>5, <1>6, <1>7

\* What Goto does to the handlers.
LEMMA GotoFields ==
  ASSUME Shape, NEW r \in Req, NEW h \in Handler, Goto(r, h)
  PROVE  /\ req' \in [Req -> Handler]
         /\ \A s \in Req : req'[s] = IF s = r THEN h ELSE req[s]
BY DEF Shape, Goto

\* A step that only moves a handler, not into a commit: it may enter the
\* admitted ones only outside a lockout and keep a challenge only if it had it.
LEMMA MoveIInv ==
  ASSUME IInv, NEW r \in Req, NEW h \in Handler, Goto(r, h),
         UNCHANGED <<attempts, totp, challenge, now, late, guesses>>,
         h.pc # "granting",
         h.pc \in {"checked", "verify"} => ~Locked(attempts, now),
         h.pc \in {"consumed", "row", "verify"} => Holds(r, h.chal),
         UNCHANGED held \/ held' = [held EXCEPT ![r] = totp.enabled]
  PROVE  IInv'
<1>1. /\ req' \in [Req -> Handler]
      /\ \A s \in Req : req'[s] = IF s = r THEN h ELSE req[s]
  BY GotoFields DEF IInv
<1>2. totp.enabled \in BOOLEAN
  <2>1. CASE totp = NoTotp
    BY <2>1 DEF NoTotp
  <2>2. CASE totp \in [secret : Secret, enabled : BOOLEAN]
    BY <2>2
  <2> QED BY <2>1, <2>2 DEF IInv, Shape
<1>3. held' \in [Req -> BOOLEAN] /\ \A s \in Req : held'[s] = held[s] \/ held'[s] = totp.enabled
  BY <1>2 DEF IInv, Shape
<1>4. Shape'
  BY <1>1, <1>3 DEF IInv, Shape
<1>5. LateBudget'
  <2> SUFFICES ASSUME Locked(attempts, now), NEW s \in Req
               PROVE  late[s] <= 1 /\ (Admitted(s)' => late[s] = 0)
    BY DEF LateBudget
  <2>1. Admitted(s)' => Admitted(s)
    BY <1>1 DEF Admitted
  <2> QED BY <2>1 DEF IInv, LateBudget
<1>6. \A s \in Req, c \in Chal : Holds(s, c)' => Holds(s, c)
  BY <1>1 DEF Holds
<1>7. OneHolder' /\ UnspentIsUnjudged'
  BY <1>6 DEF IInv, OneHolder, UnspentIsUnjudged
<1>8. OneGuessPerChallenge'
  BY <1>1 DEF IInv, OneGuessPerChallenge
<1>9. HeldMeansOn'
  BY <1>3 DEF IInv, HeldMeansOn
<1>10. SecondFactorHonoured'
  <2> SUFFICES ASSUME NEW s \in Req, req'[s].pc = "granting", held'[s]
               PROVE  req'[s].chal # NoChal
    BY DEF SecondFactorHonoured
  <2>1. s # r /\ req'[s] = req[s]
    BY <1>1
  <2>2. held'[s] = held[s]
    BY <2>1 DEF IInv, Shape
  <2> QED BY <2>1, <2>2 DEF IInv, SecondFactorHonoured
<1> QED BY <1>4, <1>5, <1>7, <1>8, <1>9, <1>10 DEF IInv

\* A verdict on the password: the handler leaves with no challenge in hand, and
\* reaches its commit only if TOTP is off.
LEMMA PasswordIInv ==
  ASSUME IInv, NEW r \in Req, NEW h \in Handler, Goto(r, h),
         req[r].pc = "checked",
         h.pc \in {"idle", "challenging", "granting"}, h.chal = NoChal,
         h.pc = "granting" => ~totp.enabled,
         Failure(r) \/ Success(r) \/ (UNCHANGED attempts /\ late' = Late(r)),
         UNCHANGED <<totp, challenge, now, guesses, held>>
  PROVE  IInv'
<1>1. /\ req' \in [Req -> Handler]
      /\ \A s \in Req : req'[s] = IF s = r THEN h ELSE req[s]
  BY GotoFields DEF IInv
<1>2. /\ LateBudget'
      /\ late' \in [Req -> Nat]
      /\ attempts'.until \in Nat
  <2>1. Admitted(r) /\ ~Admitted(r)' /\ \A s \in Req : s # r => (Admitted(s)' <=> Admitted(s))
    BY <1>1 DEF Admitted
  <2> QED BY <2>1, VerdictLate
<1>3. Shape'
  BY <1>1, <1>2 DEF IInv, Shape
<1>4. \A s \in Req, c \in Chal : Holds(s, c)' => Holds(s, c)
  BY <1>1 DEF Holds
<1>5. OneHolder' /\ UnspentIsUnjudged' /\ HeldMeansOn'
  BY <1>4 DEF IInv, OneHolder, UnspentIsUnjudged, HeldMeansOn
<1>6. OneGuessPerChallenge' /\ SecondFactorHonoured'
  BY <1>1 DEF IInv, OneGuessPerChallenge, SecondFactorHonoured, HeldMeansOn
<1> QED BY <1>2, <1>3, <1>5, <1>6 DEF IInv

\* A verdict on the code: the first and last for its challenge.
LEMMA CodeIInv ==
  ASSUME IInv, NEW r \in Req, NEW h \in Handler, Goto(r, h),
         req[r].pc = "verify",
         h.pc = "idle" \/ (h.pc = "granting" /\ h.chal = req[r].chal),
         Failure(r) \/ Success(r),
         guesses' = [guesses EXCEPT ![req[r].chal] = @ + 1],
         UNCHANGED <<totp, challenge, now, held>>
  PROVE  IInv'
<1>1. /\ req' \in [Req -> Handler]
      /\ \A s \in Req : req'[s] = IF s = r THEN h ELSE req[s]
  BY GotoFields DEF IInv
<1>2. /\ LateBudget'
      /\ late' \in [Req -> Nat]
      /\ attempts'.until \in Nat
  <2>1. Admitted(r) /\ ~Admitted(r)' /\ \A s \in Req : s # r => (Admitted(s)' <=> Admitted(s))
    BY <1>1 DEF Admitted
  <2> QED BY <2>1, VerdictLate
<1>3. /\ req[r].chal \in Chal
      /\ Holds(r, req[r].chal)
      /\ \A c \in Chal : guesses'[c] = IF c = req[r].chal THEN guesses[c] + 1 ELSE guesses[c]
      /\ guesses' \in [Chal -> Nat]
  BY HandlerFields DEF IInv, Shape, Holds
<1>4. /\ challenge[req[r].chal].status = "consumed"
      /\ guesses[req[r].chal] = 0
      /\ \A s \in Req : Holds(s, req[r].chal) => s = r
  BY <1>3 DEF IInv, OneHolder
<1>5. Shape'
  BY <1>1, <1>2, <1>3 DEF IInv, Shape
<1>6. \A s \in Req, c \in Chal : Holds(s, c)' => Holds(s, c) /\ s # r
  BY <1>1 DEF Holds
<1>7. OneHolder'
  BY <1>3, <1>4, <1>6 DEF IInv, OneHolder
<1>8. UnspentIsUnjudged' /\ HeldMeansOn'
  BY <1>3, <1>4 DEF IInv, UnspentIsUnjudged, HeldMeansOn
<1>9. OneGuessPerChallenge'
  BY <1>1, <1>3, <1>4 DEF IInv, OneGuessPerChallenge
<1>10. SecondFactorHonoured'
  BY <1>1, <1>3 DEF IInv, SecondFactorHonoured
<1> QED BY <1>2, <1>5, <1>7, <1>8, <1>9, <1>10 DEF IInv

\* A row of `_mfa_challenges` moves forward, inserted or consumed; the winner
\* of the guarded UPDATE becomes the only holder.
LEMMA ChallengeIInv ==
  ASSUME IInv, NEW r \in Req, NEW h \in Handler, Goto(r, h), NEW c \in Chal,
         NEW st \in {"pending", "consumed"}, NEW e \in Nat,
         challenge' = [challenge EXCEPT ![c] = [status |-> st, exp |-> e]],
         challenge[c].status # "consumed",
         h.pc = "idle" \/ (h.pc = "consumed" /\ h.chal = c /\ st = "consumed"),
         UNCHANGED <<attempts, totp, now, late, guesses, held>>
  PROVE  IInv'
<1>1. /\ req' \in [Req -> Handler]
      /\ \A s \in Req : req'[s] = IF s = r THEN h ELSE req[s]
  BY GotoFields DEF IInv
<1>2. /\ challenge' \in [Chal -> [status : {"absent", "pending", "consumed"}, exp : Nat]]
      /\ \A d \in Chal : challenge'[d].status = IF d = c THEN st ELSE challenge[d].status
  BY DEF IInv, Shape
<1>3. Shape'
  BY <1>1, <1>2 DEF IInv, Shape
<1>4. LateBudget'
  BY <1>1 DEF IInv, LateBudget, Admitted
<1>5. guesses[c] = 0 /\ \A s \in Req : ~Holds(s, c)
  BY DEF IInv, UnspentIsUnjudged, OneHolder
<1>6. \A s \in Req, d \in Chal :
        Holds(s, d)' => Holds(s, d) \/ (s = r /\ d = c /\ st = "consumed")
  BY <1>1 DEF Holds
<1>7. OneHolder'
  <2> SUFFICES ASSUME NEW s \in Req, NEW d \in Chal, Holds(s, d)'
               PROVE  /\ challenge'[d].status = "consumed"
                      /\ guesses[d] = 0
                      /\ \A z \in Req : Holds(z, d)' => z = s
    BY DEF OneHolder
  <2>1. CASE d = c
    BY <1>2, <1>5, <1>6, <2>1
  <2>2. CASE d # c
    BY <1>2, <1>6, <2>2 DEF IInv, OneHolder
  <2> QED BY <2>1, <2>2
<1>8. UnspentIsUnjudged' /\ HeldMeansOn'
  BY <1>2, <1>5 DEF IInv, UnspentIsUnjudged, HeldMeansOn
<1>9. OneGuessPerChallenge' /\ SecondFactorHonoured'
  <2>1. \A s \in Req : req'[s].pc = "granting" => s # r /\ req'[s] = req[s]
    BY <1>1
  <2>2. \A s \in Req : req[s].pc = "granting" /\ req[s].chal # NoChal => req[s].chal \in Chal
    BY DEF IInv, Shape, Handler, Idle
  <2> QED BY <1>2, <2>1, <2>2 DEF IInv, OneGuessPerChallenge, SecondFactorHonoured
<1> QED BY <1>3, <1>4, <1>7, <1>8, <1>9 DEF IInv

\* Enrolling, enabling and disabling change the TOTP row; when they switch it
\* off, no login can count on it any more.
LEMMA TotpIInv ==
  ASSUME IInv, totp' \in {NoTotp} \cup [secret : Secret, enabled : BOOLEAN],
         UNCHANGED req \/ \E r \in Req : Goto(r, Idle),
         UNCHANGED <<attempts, challenge, now, late, guesses>>,
         \/ totp'.enabled /\ UNCHANGED held
         \/ totp.enabled = totp'.enabled /\ UNCHANGED held
         \/ held' = [r \in Req |-> FALSE]
  PROVE  IInv'
<1>1. /\ req' \in [Req -> Handler]
      /\ \A s \in Req : req'[s] = req[s] \/ req'[s] = Idle
  BY DEF IInv, Shape, Goto, Handler
<1>2. held' \in [Req -> BOOLEAN] /\ \A s \in Req : held'[s] => held[s] /\ totp'.enabled
  BY DEF IInv, Shape, HeldMeansOn
<1>3. Shape'
  BY <1>1, <1>2 DEF IInv, Shape
<1>4. LateBudget'
  BY <1>1 DEF IInv, LateBudget, Admitted, Idle
<1>5. \A s \in Req, c \in Chal : Holds(s, c)' => Holds(s, c)
  BY <1>1 DEF Holds, Idle
<1>6. OneHolder' /\ UnspentIsUnjudged' /\ HeldMeansOn'
  BY <1>2, <1>5 DEF IInv, OneHolder, UnspentIsUnjudged, HeldMeansOn
<1>7. OneGuessPerChallenge' /\ SecondFactorHonoured'
  BY <1>1, <1>2 DEF IInv, OneGuessPerChallenge, SecondFactorHonoured, Idle
<1> QED BY <1>3, <1>4, <1>6, <1>7 DEF IInv

\* Every step keeps the inductive invariant.
LEMMA NextIInv == IInv /\ [Next]_vars => IInv'
<1> SUFFICES ASSUME IInv, [Next]_vars PROVE IInv'
  OBVIOUS
<1>0. /\ Idle \in Handler /\ Idle.pc = "idle" /\ Idle.chal = NoChal
      /\ \A pc \in {"checked", "challenging", "granting", "disabling"} :
           At(pc, NoChal, NoSecret) \in Handler
      /\ \A s \in Secret : At("confirming", NoChal, s) \in Handler
      /\ \A pc \in {"found", "consumed"}, c \in Chal : At(pc, c, NoSecret) \in Handler
      /\ \A pc \in {"row", "verify", "granting"}, c \in Chal, s \in Secret :
           At(pc, c, s) \in Handler
      /\ \A pc, c, s : At(pc, c, s).pc = pc /\ At(pc, c, s).chal = c
  BY DEF Handler, Idle, At
<1>a. totp # NoTotp => totp.secret \in Secret
  BY DEF IInv, Shape
<1>b. totp.enabled => totp # NoTotp
  BY DEF NoTotp
<1>1. ASSUME NEW r \in Req, user_login(r) PROVE IInv'
  <2>1. /\ Goto(r, At("checked", NoChal, NoSecret))
        /\ ~Locked(attempts, now)
        /\ held' = [held EXCEPT ![r] = totp.enabled]
        /\ UNCHANGED <<attempts, totp, challenge, now, late, guesses>>
    BY <1>1 DEF user_login, check
  <2>2. /\ At("checked", NoChal, NoSecret) \in Handler
        /\ At("checked", NoChal, NoSecret).pc = "checked"
    BY <1>0
  <2> QED BY <2>1, <2>2, MoveIInv
<1>2. ASSUME NEW r \in Req, Grant(r) \/ Abandon(r) PROVE IInv'
  BY <1>0, <1>2, MoveIInv DEF Grant, Abandon
<1>3. ASSUME NEW r \in Req, confirm(r) \/ disable(r) PROVE IInv'
  <2>1. CASE confirm(r)
    <3>1. /\ Goto(r, At("confirming", NoChal, totp.secret))
          /\ UNCHANGED <<attempts, totp, challenge, now, late, guesses, held>>
      BY <2>1 DEF confirm
    <3>2. At("confirming", NoChal, totp.secret) \in Handler
      BY <1>0, <1>a, <2>1 DEF confirm
    <3> QED BY <1>0, <3>1, <3>2, MoveIInv
  <2>2. CASE disable(r)
    BY <1>0, <2>2, MoveIInv DEF disable
  <2> QED BY <1>3, <2>1, <2>2
<1>4. ASSUME NEW r \in Req, NEW c \in Chal, FindChallenge(r, c) PROVE IInv'
  BY <1>0, <1>4, MoveIInv DEF FindChallenge
<1>5. ASSUME NEW r \in Req, login_totp(r) PROVE IInv'
  <2>1. req[r].chal \in Chal /\ Holds(r, req[r].chal)
    BY <1>5, HandlerFields DEF login_totp, IInv, Holds
  <2>2. CASE totp.enabled
    BY <1>0, <1>a, <1>b, <1>5, <2>1, <2>2, MoveIInv DEF login_totp
  <2>3. CASE ~totp.enabled
    BY <1>0, <1>5, <2>3, MoveIInv DEF login_totp
  <2> QED BY <2>2, <2>3
<1>6. ASSUME NEW r \in Req, CheckSecondStep(r) PROVE IInv'
  <2>1. req[r].chal \in Chal /\ req[r].secret \in Secret /\ Holds(r, req[r].chal)
    BY <1>6, HandlerFields DEF CheckSecondStep, IInv, Holds
  <2>2. CASE check(attempts, now)
    BY <1>0, <1>6, <2>1, <2>2, MoveIInv DEF CheckSecondStep, check
  <2>3. CASE ~check(attempts, now)
    BY <1>0, <1>6, <2>3, MoveIInv DEF CheckSecondStep
  <2> QED BY <2>2, <2>3
<1>7. ASSUME NEW r \in Req, record_failure_and_pick_error(r) PROVE IInv'
  BY <1>0, <1>7, PasswordIInv DEF record_failure_and_pick_error
<1>8. ASSUME NEW r \in Req, PasswordRight(r) PROVE IInv'
  <2>1. CASE totp.enabled
    BY <1>0, <1>b, <1>8, <2>1, PasswordIInv DEF PasswordRight, is_user_totp_enabled
  <2>2. CASE ~totp.enabled
    BY <1>0, <1>8, <2>2, PasswordIInv DEF PasswordRight, is_user_totp_enabled
  <2> QED BY <2>1, <2>2
<1>9. ASSUME NEW r \in Req, CodeWrong(r) \/ CodeRight(r) PROVE IInv'
  <2>1. req[r].chal \in Chal /\ req[r].secret \in Secret
    BY <1>9, HandlerFields DEF CodeWrong, CodeRight, IInv
  <2>2. CASE CodeWrong(r)
    BY <1>0, <2>2, CodeIInv DEF CodeWrong
  <2>3. CASE CodeRight(r)
    <3>1. /\ At("granting", req[r].chal, req[r].secret) \in Handler
          /\ At("granting", req[r].chal, req[r].secret).pc = "granting"
          /\ At("granting", req[r].chal, req[r].secret).chal = req[r].chal
      BY <1>0, <2>1
    <3>2. /\ req[r].pc = "verify"
          /\ Success(r)
          /\ guesses' = [guesses EXCEPT ![req[r].chal] = @ + 1]
          /\ Goto(r, At("granting", req[r].chal, req[r].secret))
          /\ UNCHANGED <<totp, challenge, now, held>>
      BY <2>3 DEF CodeRight
    <3> QED BY <3>1, <3>2, CodeIInv
  <2> QED BY <1>9, <2>2, <2>3
<1>10. ASSUME NEW r \in Req, NEW c \in Chal, issue_mfa_challenge(r, c) PROVE IInv'
  <2>1. now + Ttl \in Nat
    BY DEF IInv, Shape
  <2> QED BY <1>0, <1>10, <2>1, ChallengeIInv DEF issue_mfa_challenge
<1>11. ASSUME NEW r \in Req, consume(r) PROVE IInv'
  <2>1. req[r].chal \in Chal
    BY <1>11, HandlerFields DEF consume, IInv
  <2>2. challenge[req[r].chal].exp \in Nat
    BY <2>1 DEF IInv, Shape
  <2>3. CASE challenge[req[r].chal].status = "pending"
    <3>1. At("consumed", req[r].chal, NoSecret) \in Handler
      BY <1>0, <2>1
    <3> QED BY <1>0, <1>11, <2>1, <2>2, <2>3, <3>1, ChallengeIInv DEF consume
  <2>4. CASE challenge[req[r].chal].status # "pending"
    BY <1>0, <1>11, <2>4, MoveIInv DEF consume
  <2> QED BY <2>3, <2>4
<1>12. ASSUME NEW s \in Secret, enroll(s) PROVE IInv'
  BY <1>12, TotpIInv DEF enroll
<1>13. ASSUME NEW r \in Req, confirm_enabled(r) PROVE IInv'
  <2>1. CASE totp = NoTotp
    BY <1>13, <2>1, TotpIInv DEF confirm_enabled
  <2>2. CASE totp # NoTotp
    BY <1>a, <1>13, <2>2, TotpIInv DEF confirm_enabled
  <2> QED BY <2>1, <2>2
<1>14. ASSUME NEW r \in Req, DisableDelete(r) PROVE IInv'
  BY <1>14, TotpIInv DEF DisableDelete
<1>17. CASE reset_totp
  BY <1>17, TotpIInv DEF reset_totp
<1>15. CASE Tick
  <2>1. /\ UNCHANGED <<attempts, totp, challenge, req, late, guesses, held>>
        /\ now \in Nat /\ now' = now + 1 /\ attempts.until \in Nat
    BY <1>15 DEF Tick, IInv, Shape
  <2>2. Locked(attempts, now)' => Locked(attempts, now)
    BY <2>1 DEF Locked
  <2> QED BY <2>1, <2>2 DEF IInv, Shape, LateBudget, Admitted, OneHolder, Holds,
        UnspentIsUnjudged, HeldMeansOn, OneGuessPerChallenge, SecondFactorHonoured
<1>16. CASE UNCHANGED vars
  BY <1>16 DEF vars, IInv, Shape, LateBudget, Admitted, Locked, OneHolder, Holds,
        UnspentIsUnjudged, HeldMeansOn, OneGuessPerChallenge, SecondFactorHonoured
<1> QED BY <1>1, <1>2, <1>3, <1>4, <1>5, <1>6, <1>7, <1>8, <1>9, <1>10, <1>11,
           <1>12, <1>13, <1>14, <1>15, <1>16, <1>17 DEF Next

\* The inductive invariant holds in every reachable state.
THEOREM Invariance == Spec => []IInv
BY InitIInv, NextIInv, PTL DEF Spec

\* During a lockout no handler gets more than the one verdict it was admitted
\* for before the lockout began.
THEOREM LateVerdicts == Spec => []OneLateVerdict
<1>1. IInv => OneLateVerdict
  BY DEF IInv, LateBudget, OneLateVerdict
<1> QED BY <1>1, Invariance, PTL

\* A challenge buys one guess at the code.
THEOREM ChallengesBuyOneGuess == Spec => []OneGuessPerChallenge
<1>1. IInv => OneGuessPerChallenge
  BY DEF IInv
<1> QED BY <1>1, Invariance, PTL

\* The password alone is not enough while TOTP stays enabled.
THEOREM SecondFactor == Spec => []SecondFactorHonoured
<1>1. IInv => SecondFactorHonoured
  BY DEF IInv
<1> QED BY <1>1, Invariance, PTL

-----------------------------------------------------------------------------
(* The failure series.  That Retain, which picks positions by rank, finds    *)
(* one for every rank is an induction, made here through the least counter-  *)
(* example: the library's minimum principle for well-founded relations.      *)

\* Every non-empty set of naturals has a least element.
LEMMA Least ==
  ASSUME NEW T, T \subseteq Nat, T # {}
  PROVE  \E x \in T : \A y \in T : x <= y
<1>1. PICK x \in T : \A y \in T : ~ (<<y, x>> \in OpToRel(<, Nat))
  BY WFMin, NatLessThanWellFounded
<1>2. \A y \in T : ~ (y < x)
  BY <1>1 DEF OpToRel
<1> QED BY <1>2

\* A set of positions up to n is finite and has at most n of them.
LEMMA Positions ==
  ASSUME NEW n \in Nat, NEW I \in SUBSET (1..n)
  PROVE  IsFiniteSet(I) /\ Cardinality(I) \in Nat /\ Cardinality(I) <= n
<1>1. IsFiniteSet(1..n) /\ Cardinality(1..n) = IF 1 > n THEN 0 ELSE n - 1 + 1
  BY FS_Interval
<1>2. Cardinality(1..n) = n
  BY <1>1
<1>3. IsFiniteSet(I) /\ Cardinality(I) <= Cardinality(1..n)
  BY <1>1, FS_Subset
<1>4. Cardinality(I) \in Nat
  BY <1>3, FS_CardinalityType
<1> QED BY <1>2, <1>3, <1>4

\* Every rank up to the size of a set of positions is taken.
LEMMA RankIsTaken ==
  ASSUME NEW n \in Nat, NEW I \in SUBSET (1..n), NEW j \in 1..Cardinality(I)
  PROVE  \E i \in I : Rank(I, i) = j
<1> DEFINE Up(m) == {k \in I : k <= m}
<1>1. IsFiniteSet(I) /\ Cardinality(I) \in Nat
  BY Positions
<1>2. \A m \in Nat : IsFiniteSet(Up(m)) /\ Cardinality(Up(m)) \in Nat
  <2> TAKE m \in Nat
  <2>1. Up(m) \in SUBSET (1..n)
    OBVIOUS
  <2> QED BY <2>1, Positions
<1>3. \A k \in I : k \in Nat /\ 1 <= k /\ k <= n
  OBVIOUS
<1>4. Up(n) = I
  BY <1>3
<1>5. Up(0) = {}
  <2>1. \A k \in I : ~(k <= 0)
    BY <1>3
  <2> QED BY <2>1
<1>6. Cardinality(Up(0)) = 0
  BY <1>5, FS_EmptySet
<1>7. \A m \in Nat, k \in I : k <= m + 1 <=> k <= m \/ k = m + 1
  BY <1>3
<1>8. \A m \in Nat : m + 1 \notin I => Up(m + 1) = Up(m)
  BY <1>7
<1>9. \A m \in Nat : m + 1 \in I => Up(m + 1) = Up(m) \cup {m + 1} /\ m + 1 \notin Up(m)
  <2> TAKE m \in Nat
  <2> HAVE m + 1 \in I
  <2>1. ~(m + 1 <= m)
    OBVIOUS
  <2>2. \A k : k \in Up(m + 1) <=> k \in Up(m) \/ k = m + 1
    BY <1>7
  <2> QED BY <2>1, <2>2
<1>10. \A m \in Nat : m + 1 \in I => Cardinality(Up(m + 1)) = Cardinality(Up(m)) + 1
  <2> SUFFICES ASSUME NEW m \in Nat, m + 1 \in I
               PROVE  Cardinality(Up(m + 1)) = Cardinality(Up(m)) + 1
    OBVIOUS
  <2>1. Up(m + 1) = Up(m) \cup {m + 1} /\ m + 1 \notin Up(m) /\ IsFiniteSet(Up(m))
    BY <1>2, <1>9
  <2> HIDE DEF Up
  <2> QED BY <2>1, FS_AddElement
<1>11. /\ \A m \in Nat : Rank(I, m) \in Nat
       /\ Rank(I, 0) = 0 /\ Rank(I, n) >= j
       /\ \A m \in Nat : m + 1 \notin I => Rank(I, m + 1) = Rank(I, m)
       /\ \A m \in Nat : m + 1 \in I => Rank(I, m + 1) = Rank(I, m) + 1
  <2>1. \A m : Rank(I, m) = Cardinality(Up(m))
    BY DEF Rank
  <2> HIDE DEF Up
  <2>2. Rank(I, n) >= j
    BY <1>1, <1>4, <2>1
  <2> QED BY <1>2, <1>6, <1>8, <1>10, <2>1, <2>2
<1> DEFINE T == {m \in Nat : Rank(I, m) >= j}
<1>12. T \subseteq Nat /\ T # {}
  BY <1>11
<1>13. PICK m \in T : \A y \in T : m <= y
  <2> HIDE DEF T
  <2> QED BY <1>12, Least
<1>14. m \in Nat /\ m # 0 /\ Rank(I, m) >= j
  BY <1>11, <1>13, <1>1
<1>15. PICK p \in Nat : m = p + 1
  BY <1>14
<1>16. Rank(I, p) < j
  BY <1>11, <1>13, <1>15, <1>1
<1>17. m \in I /\ Rank(I, m) = j
  BY <1>1, <1>11, <1>14, <1>15, <1>16
<1> QED BY <1>17

\* What retain leaves is no longer than before and holds only entries from the positions
\* kept.
LEMMA RetainFacts ==
  ASSUME NEW S, NEW s \in Seq(S), NEW I \in SUBSET (1..Len(s))
  PROVE  /\ Retain(s, I) \in Seq(S)
         /\ Len(Retain(s, I)) = Cardinality(I) /\ Cardinality(I) <= Len(s)
         /\ \A j \in 1..Len(Retain(s, I)) : \E i \in I : Retain(s, I)[j] = s[i]
<1>1. Len(s) \in Nat /\ DOMAIN s = 1..Len(s) /\ \A i \in 1..Len(s) : s[i] \in S
  OBVIOUS
<1>2. IsFiniteSet(I) /\ Cardinality(I) \in Nat /\ Cardinality(I) <= Len(s)
  BY <1>1, Positions
<1>3. \A j \in 1..Cardinality(I) : \E i \in I : Retain(s, I)[j] = s[i]
  <2> TAKE j \in 1..Cardinality(I)
  <2>1. \E i \in I : Rank(I, i) = j
    BY <1>1, RankIsTaken
  <2> DEFINE x == CHOOSE i \in I : Rank(I, i) = j
  <2>2. x \in I
    BY <2>1
  <2>3. Retain(s, I)[j] = s[x]
    BY DEF Retain
  <2> QED BY <2>2, <2>3
<1>4. Retain(s, I) \in [1..Cardinality(I) -> S]
  <2>1. \A j \in 1..Cardinality(I) : Retain(s, I)[j] \in S
    BY <1>1, <1>3
  <2>2. Retain(s, I) = [j \in 1..Cardinality(I) |-> Retain(s, I)[j]]
    BY DEF Retain
  <2> QED BY <2>1, <2>2
<1>5. Retain(s, I) \in Seq(S) /\ Len(Retain(s, I)) = Cardinality(I)
  BY <1>2, <1>4
<1> QED BY <1>2, <1>3, <1>5

\* note_failure keeps the budget: only an unlocked, hence short, series is extended.
LEMMA NoteFailureBudget ==
  ASSUME NEW e \in AttemptState, NEW t \in Nat, BudgetKept(e)
  PROVE  note_failure(e, t) \in AttemptState /\ BudgetKept(note_failure(e, t))
<1> DEFINE kept == IF e.locked THEN <<>> ELSE Recent(e, t)
           fs == Append(kept, t)
           full == Len(fs) >= MaxFailures
<1>1. e.failures \in Seq(Nat) /\ e.locked \in BOOLEAN /\ e.until \in Nat
  BY DEF AttemptState
<1>2. Recent(e, t) \in Seq(Nat) /\ Len(Recent(e, t)) <= Len(e.failures)
  <2> DEFINE I == {i \in DOMAIN e.failures : e.failures[i] + Window > t}
  <2>1. I \in SUBSET (1..Len(e.failures))
    BY <1>1
  <2> HIDE DEF I
  <2>2. Retain(e.failures, I) \in Seq(Nat) /\ Len(Retain(e.failures, I)) <= Len(e.failures)
    BY <1>1, <2>1, RetainFacts
  <2> QED BY <2>2 DEF Recent, I
<1>3. CASE Locked(e, t)
  BY <1>3 DEF note_failure
<1>4. CASE ~Locked(e, t)
  <2>1. /\ kept \in Seq(Nat) /\ Len(kept) \in Nat
        /\ Len(kept) = 0 \/ (~e.locked /\ Len(kept) <= Len(e.failures))
    BY <1>1, <1>2
  <2>2. Len(kept) = 0 \/ Len(kept) < MaxFailures
    BY <1>1, <2>1 DEF BudgetKept
  <2> HIDE DEF kept
  <2>3. fs \in Seq(Nat) /\ Len(fs) = Len(kept) + 1
    BY <2>1
  <2> HIDE DEF fs
  <2>4. /\ full \in BOOLEAN
        /\ full <=> Len(fs) >= MaxFailures /\ Len(fs) > 0
        /\ Len(fs) <= MaxFailures \/ Len(fs) = 1
    BY <2>1, <2>2, <2>3
  <2>5. note_failure(e, t) = [failures |-> fs, locked |-> full,
                              until |-> IF full THEN t + Lockout ELSE 0]
    BY <1>4 DEF note_failure, fs, kept
  <2> HIDE DEF full
  <2>6. (IF full THEN t + Lockout ELSE 0) \in Nat
    BY <2>4
  <2> QED BY <2>3, <2>4, <2>5, <2>6 DEF AttemptState, BudgetKept
<1> QED BY <1>3, <1>4

\* The tracker's part of the state is an invariant of its own.
TrackerInv == now \in Nat /\ attempts \in AttemptState /\ LockoutBudget

\* A fresh entry satisfies it: no failures, no lockout.
LEMMA NewAttemptsBudget == NewAttempts \in AttemptState /\ BudgetKept(NewAttempts)
BY DEF NewAttempts, AttemptState, BudgetKept

\* Every step leaves the entry alone, records a failure in it or removes it.
LEMMA AttemptsMove ==
  ASSUME [Next]_vars
  PROVE  /\ attempts' \in {attempts, note_failure(attempts, now), NewAttempts}
         /\ now' \in {now, now + 1}
BY DEF Next, vars, user_login, record_failure_and_pick_error, PasswordRight, Grant, consume,
       login_totp, CheckSecondStep, CodeWrong, CodeRight, confirm, confirm_enabled, disable,
       DisableDelete, Abandon, issue_mfa_challenge, FindChallenge, enroll, reset_totp, Tick,
       Failure, Success, note_success

\* Under every interleaving of the two login steps a lockout is in force exactly when a
\* full series is recorded, and no series outgrows max_failures (security.rs).
THEOREM BudgetIsKept == Spec => []LockoutBudget
<1>1. Init => TrackerInv
  BY NewAttemptsBudget DEF Init, TrackerInv, LockoutBudget
<1>2. TrackerInv /\ [Next]_vars => TrackerInv'
  <2> SUFFICES ASSUME TrackerInv, [Next]_vars PROVE TrackerInv'
    OBVIOUS
  <2>1. /\ now' \in Nat
        /\ attempts' \in {attempts, note_failure(attempts, now), NewAttempts}
    BY AttemptsMove DEF TrackerInv
  <2>2. \A e \in {attempts, note_failure(attempts, now), NewAttempts} :
          e \in AttemptState /\ BudgetKept(e)
    BY NoteFailureBudget, NewAttemptsBudget DEF TrackerInv, LockoutBudget
  <2> QED BY <2>1, <2>2 DEF TrackerInv, LockoutBudget
<1>3. TrackerInv => LockoutBudget
  BY DEF TrackerInv
<1> QED BY <1>1, <1>2, <1>3, PTL DEF Spec
=============================================================================
