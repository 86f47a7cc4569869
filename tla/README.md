# RustBase: models, checks and proofs

RustBase is a multi-tenant backend in one Rust process: a master level, workspaces
("realms") below it and apps below those, each with its own SQLite file, an axum HTTP
API on tokio, a JavaScript hooks runtime and a realtime broker. This directory holds
TLA+ modules that model its core logic, the TLC configurations that check them and
theorems checked by TLAPS.

## Inventory

What each part keeps, what changes it, and what makes it hard. All sources are under
`src/crates/`.

| Part | State | Operations | What is hard, what must hold |
|---|---|---|---|
| Refresh tokens (`rustbase-db/tokens.rs`, `rustbase-api/auth/{login,refresh,logout}.rs`) | `_refresh_tokens` in `system.db` (master admins) and in every workspace's `auth.db` (users and workspace admins together) | login inserts; refresh looks up and later rotates; logout revokes | lookup and rotation are separate statements; a redeemed token must be dead, a chain must keep its owner and rank, a dead session must not return |
| Password reset (`password_resets.rs`, `auth/password_reset.rs`) | `_password_resets` | request; confirm = find, consume, write password, invalidate siblings | four statements, no transaction; a token must work once, whatever races or crashes |
| Login throttling (`security.rs`) | failures and `locked_until` per subject in a `DashMap` | check, note_failure, note_success | the verdict comes long after `check`; window and lockout boundaries |
| Password login and TOTP (`auth/login.rs`, `auth/totp.rs`, `user_totp.rs`, `mfa_challenges.rs`) | `_user_totp`, `_mfa_challenges` | login, second step, enroll, confirm, disable, admin reset | TOTP state is read and used across awaits; a challenge must buy one guess |
| E-mail OTP (`auth/email_otp.rs`, `email_otps.rs`) | `_email_otps` | request, login (consume, find-or-create user) | attempts counted outside the statement that stores them; racing signups |
| Policies (`rustbase-core/config.rs`, `rustbase-api/policies.rs`, `policy_engine.rs`) | one `policies` table per master, workspace and app | PUT with validation and clamping cascade, DELETE | the levels are in different files, so nothing is atomic; the chain of bounds must hold |
| E-mail verification (`auth/verify_email.rs`, `email_verifications.rs`) | `_email_verifications` | request, confirm | same two-statement consume as password reset |
| OAuth (`auth/oauth.rs`, `oauth_*.rs`) | states, links, providers | start, callback, find-or-link the user | two first callbacks of one account; state must be one-shot |
| Access-token revocation (`rustbase-auth/revocation.rs`) | a map in memory, from subjects to the time they were revoked | revoke, is_revoked, purge | nothing in the program calls revoke, so the map is always empty |
| First-run setup (`setup.rs`, `middleware/setup_gate.rs`) | the seed admin's password, a cached flag | setup | check, then UPDATE, then mark the flag, under concurrent requests |
| Workspaces, apps, pools (`workspaces.rs`, `apps.rs`, `pool.rs`) | rows, directories, LRU caches of pools | create, delete, `pool_for` | eviction and deletion racing a reopening, also by requests that never ask for the row |
| Migrations (`migrations.rs`) | `_migrations` per file | apply at open | script and bookkeeping are separate commits |
| Collections (`rustbase-db/collections.rs`) | a table per collection and its meta row | create, patch, delete | several statements, one of which fails or is never reached |
| Records and access rules (`records.rs`, `access_rules.rs`, `rule_template.rs`) | collection tables | CRUD with rule, hooks, realtime publication | rule judged on a row that changes before the write |
| Filters (`filter.rs`, `filter_parser.rs`, `filter_sql.rs`) | none | parse, evaluate, translate to SQL | the two evaluations must agree |
| Realtime (`rustbase-realtime`, `realtime.rs`) | topic -> broadcast channel | subscribe, publish | channel removed while somebody joins; lagging subscribers |
| Files (`files.rs`, `rustbase-storage`) | row plus blob | upload, delete | one of the two fails |
| Hooks (`rustbase-runtime`, `hook_bridge.rs`, `custom_routes.rs`) | one engine and CPU deadline per app | reload, dispatch, cron | concurrent dispatches share a deadline |
| Mailer quota (`mailer.rs`) | counter per day | send | one counter per instance, reload makes a new one |
| HTTP middleware and routing (`rustbase-api/router.rs`, `auth/extract.rs`, every handler) | tokens in clients' hands | one scope check per handler | a token is believed by signature and expiry alone, workspaces come back under an old id |
| Server process (`rustbase-server`) | keys, caches and flags in memory | boot, crash, restart | every `?` of `main` may end the process between two commits |
| Audit, UI, SDK | - | - | append-only rows nobody reads back; no server state |

How they interact: handlers call the `rustbase-db` functions, each of which awaits one SQL
statement or one transaction. Every auth endpoint shares the throttle's map; the two
login steps share `_mfa_challenges` and `_user_totp`; all logins end in
`commit_user_login`, which inserts the refresh row. Deleting a user reaches the rows of
other parts through foreign keys only. A policy PUT reads its parent's file, writes its
own and then sweeps its children's. Record writes go through access rules, hooks and
the realtime broker.

`PROJECT.json` lists every part with its status, every line where something hard to
test happens (`hazards`) and the property that covers it.

## Modelling conventions

* A handler is an async task. **One awaited SQL statement or transaction, one access
  to a `DashMap` entry, one file or object-store operation is one atomic action**; steps
  of different handlers interleave freely. SQLite serialises statements on one file, so
  nothing finer is observable.
* `req[r]` (`entry`, `conn`, `writer`, `admin` elsewhere) is what handler `r` remembers
  across its awaits: the program counter and the values read so far. A handler serves any
  number of requests one after the other.
* `Abandon(r)` (`Dropped` in `Tenants`, `RemovalEnds` in `Gateway`) ends a handler between two
  steps. It stands for a dropped connection (axum drops the future), a failed statement or a
  hook's veto; what the handler has done stays. `Crash` ends all of them
  and loses what is in memory; it is an action of its own where memory and disk are
  modelled together (`Boot`, `Gateway`, `Records`; `Die` in `Tenants`, `Restart` in `Accounts` and `Realtime`).
* `Tick` advances the clock by one unit at any moment. Times to live are small numbers of
  units; code compares times only, so the unit does not matter.
* Random tokens, keys and secrets are model values or numbers that are drawn at most once.
  A clear token and its digest are one value. Whether a password, a code or a provider's
  answer is right is a nondeterministic input.
* Definitions named like a Rust function model that function. `Faulty variant` operators
  are plausible wrong versions used to confirm that each property can fail.
* History variables (marked `history`) are never read by an action's guard.
* **Worlds.** The modules with many operations (`Gateway`, `Records`, `Realtime`, `Hooks`)
  take as a constant a set of bounded mixes of work (`Worlds`, `Budgets`): so many requests
  of each kind, crashes, ticks. Each behaviour starts by picking one and counts it down
  (`left`, `budget`). A world goes deep into one interaction and leaves the others out, where
  one bound on everything would be either too shallow or too large. The counters only ever
  disable a step, so a world's behaviours are behaviours of the code.

## Modules

| Module | Models | State and actions |
|---|---|---|
| `Boot` | `main` from start to listening, `apply_migrations` on `system.db`, the stored secrets, first-run setup | scripts committed and recorded, seed admin, keys, the gate's flag; one action per statement of `main` and of the setup handler, `Crash`, a refused configuration |
| `Gateway` (extends `Boot`) | which request reaches which handler | access tokens, workspaces and the databases at their paths and in their cached pools, sessions; logins, refreshes, creation of workspaces, apps and admins, deletion of a workspace as its three steps; `build_router` is the guard of every route, read from each handler |
| `Tenants` | workspaces, apps, their files, both LRU pool caches, engines loaded | rows, files with an identity besides their path, caches (sets of entries with an age, so that the least recently used one is known); create, use, delete statement by statement, use without asking for the row (`Unasked`), `Dropped`, `Die`, the boot's `load_all_hooks` |
| `RefreshTokens` | one `_refresh_tokens` table and its endpoints | `rows`, `users`; login (verify, commit), refresh (find, rotate) for three subject kinds, logout, user deletion |
| `SingleUse` | abstract: a one-shot token | `Issue`, `Redeem`, `Retire`, `Erase`, all atomic |
| `PasswordReset` | `_password_resets`, request and confirm | `rows`, `passwd`; request, issue, find, consume, set_password_hash, invalidate_all_for_user, user deletion |
| `Accounts` | users of a workspace, e-mail verification, OAuth sign-in, provider administration | `user`, `link`, `nonce`, `token`, `provider`, `kek`; one action per statement of `confirm`, `callback`, `resolve_user`, register, admin verify and delete; a restart may change the key |
| `LoginAttempts` | the throttle entry of one subject | operators check, note_failure, note_success |
| `TotpLogin` (extends `LoginAttempts`) | password login, second step and TOTP management of one user | `attempts`, `totp`, `challenge`; one action per statement of user_login, login_totp, enroll, confirm, disable, the admin's reset_totp |
| `EmailOtp` (extends `LoginAttempts`) | OTP login of one address | `rows`, `user`, `attempts`; issue, the statements of consume, find-or-create, register |
| `PolicySpec` | allows, clamp, validate_chain | operators |
| `PolicyCascade` (extends `PolicySpec`) | one policy field over a master, workspaces and apps | `pol`; PUT at three levels (validate, upsert, sweep, clamp), DELETE |
| `Records` | collections, access rules, record CRUD, uploaded files of one app | tables, `_collections`, `_access_rules`, `_files`, blobs; every DDL statement, lookup, rule, hook and write as a step, failing statements, `Abandon`, `Crash` |
| `FilterSyntax` | JSON values, column conversion, `FilterNode` | operators, none of them recursive |
| `Filters` (extends `FilterSyntax`) | filter parser, in-memory evaluation, translation to SQL, rule templates | operators over bounded texts and trees; SQLite's typing and three-valued logic, integers and floats, a JSON column and the implicit `id` |
| `SubscriptionFilters` (extends `Filters`) | the rule's and the client's filter of a subscription | operators |
| `Realtime` (extends `FilterSyntax`) | WebSocket subscriptions, the broker, record publication | tokens, connections, channels and their logs, writers; one action per `DashMap` operation or statement, `Restart` |
| `Hooks` | the JavaScript runtime of one app | generations with reference counts, context lock, CPU deadline, schedulers, mail counters; dispatch, route, cron until its schedule is over (`ScheduleEnds`), natives, load and reload |
| `...Proofs` | theorems about the module of that name | |
| `MC...` | the instances TLC runs | |

Two compositions: `Gateway` runs on top of `Boot`, whose gate, admin password and signing
key decide whether any token is minted or believed; `Realtime` passes events through the
filters and templates of `Filters`, which it takes as the constant operators `ClientFilter`, `RuleFilter`
and `Matches`: `Realtime.cfg` gives them the operators of `SubscriptionFilters` and `Filters`. What
the proofs need to know of them is the assumption `RuleFilters` (a rule's filter lets through only what the
rule demands; its conjunction with a client's filter lets through no more), which TLC evaluates on the
recursive parser and evaluator at the start of the run. Three tables implement one abstract specification:
`PasswordReset` once and `Accounts` twice (`VerifyTokens`, `OAuthStates`) instantiate
`SingleUse` with a refinement mapping.

Where a model narrows the code:

* `RefreshTokens` keeps the rows of `system.db` and of one workspace in one function, since
  the kind column separates them (logout reaches master rows only, as in the code).
* `TotpLogin` and `EmailOtp` follow one user or address; others only share tables whose
  statements are keyed by it. Neither has deletion of the user.
* `PolicyCascade` follows one field over a fixed set of workspaces and apps, and a field's
  specs are of one kind. Its workspaces are the realms the cascade visits; the built-in
  realm `master`, where a workspace PUT is accepted but which the sweep skips, is left out.
* `Gateway` leaves out the AppAdmin role: guards mention it, but no login issues such a token.
  `pool_for` and the creation of a tenant are one step each there; `Tenants` takes them apart.
* `Tenants` abstracts the contents of a database to its applied scripts, its apps and the
  rows under which somebody wrote to it. Engines are loaded and used there, not reloaded.
* `Accounts` has one OAuth provider. `Records` has one collection beside the internal tables it
  reads (`_collections`, `_access_rules`, `_files`; nothing in it reads the others), and of a record's fields only the
  owner has a value. Its app is there throughout. `Realtime` follows one collection with one
  record. `Hooks` follows one app with one hook file; the natives of
  records, audit and fetch are one blocking step each, with an answer or an error.
* `Filters` starts after the lexer: a text is a sequence of tokens, a string a short
  sequence of numbers, among them the wildcards of LIKE.

## Runs

| Run | Shows | Bounds and what fits in them |
|---|---|---|
| `Gateway` | `ServesOnFullSchema`, `SubsequentSetupsRefused`, `ScopesHold`, `PredecessorsFade`, `SetupIsForever`, liveness `ComesUp` | 2 setup handlers, 3 scripts, 2 workspaces, Ttl and leeway 1, 4 worlds: the boot alone with 2 crashes, a bad configuration and 4 setups; all roles in two tenants; a tenant that comes back, over time and over a restart, its deletion taken in three steps; 575,397 states |
| `Tenants` | `AckedIsMigrated`, `FreshTenant` | 2 handlers, `master` and one more workspace, 1 app, caches of 1 pool (so every second use evicts), 1 script, 3 rows, 4 files, 1 crash, 5 requests: create, use, delete, re-create, use, and requests that do not ask for the row in between; 3,054,929 states |
| `RefreshTokens` | `RedeemedIsRevoked`, `LineageKeepsIdentity`, `DeadUntilLogin` | 2 handlers, 3 tokens, 3 subjects (one per kind), Ttl 1, clock 0..2: a login, a double redemption and expiry all fit; 286,684 states |
| `RefreshRace` | violation of `RedeemedOnce`: two refreshes that found one live token both get a successor | as above, clock 0..1 |
| `PasswordReset` | `OneTokenOneWrite`, `SettledTokensAreSpent`, refinement `ImplementsSingleUse` | 2 handlers, 3 tokens, 2 users: two siblings of one user and a token of another; 82,047 states |
| `Accounts` | `VerifiedIsVouchedFor`, `OAuthLoginsAreVerified`, `OneUserPerAccount`, refinements `SingleUseHolds` | 2 handlers, 2 users, 2 addresses, 1 provider account, 2 nonces, 1 link, 1 key (or none), 1 restart, 3 requests: two callbacks of one account, or a confirm, a deletion and a re-registration; 282,673 states |
| `TotpLogin` | `LockoutBudget`, `OneLateVerdict`, `OneGuessPerChallenge`, `SecondFactorHonoured` | 2 handlers, 2 challenges, 2 secrets, max_failures 2, window 2, lockout 1, clock 0..2: a lockout starts, ends and a new series begins; 766,635 states |
| `EmailOtp` | `OneCodeInFlight`, `SessionsAreVerified`, `OnlyNewestCodeWins` | 2 handlers, 2 codes, MAX_ATTEMPTS 3, clock 0..2: a code is replaced, exhausted, expires; 1,414,438 states |
| `PolicyCascade` | `ChainHolds`, `MasterPutSettles` | 1 PUT at a time, 2 workspaces (one with 2 apps, one with none), ranges within 0..2, allow-lists over two names, free values; deletes at any moment, cascades cut anywhere; 1,472,650 states |
| `Records` | `SchemaAgrees`, `NoInheritedRule`, `AccessWithinRules`, `UploadsAreComplete` | 2 handlers, 1 collection and the 3 internal tables of the model, 2 fields (one unique), 1 record, 1 user, 1 file, 7 worlds: up to 3 DDL requests with a crash, or against rules, or against records and hooks; 4 file requests with a crash; failing and abandoned statements in all of them; 365,101 states |
| `Realtime` | `NoSilentLoss`, `EventsWithinRule`, `FilterPathsAgree`, `PrecedenceHolds` | 2 connections, 2 writers, Ttl and leeway 1, channels of capacity 1 (so the second event lags a subscriber), 5 budgets: the life of tokens over 3 seconds, or the broker under 2 writes and a change of the rule, with restarts; 144,277 states. `FilterPathsAgree` and `PrecedenceHolds` are about pure operators and are evaluated in the initial states |
| `Hooks` | `RequestIsOwn`, `CpuBounded`, `SchedulersFollowTheMap`, `QuotaHolds` | 2 entries, 2 administrators, CPU budget 1 tick, 3 generations, 2 days, 5 worlds: entries against the shared deadline, overlapping reloads, mail at a quota of 1 over midnight; schedules that run out; 532,947 states |

**Bounds.** Two handlers are enough for the races between a read and the write that
follows it: each such window involves one row, and the theorems below lift many of the results to any
number. What needs three (a third request in the window of two others) is reached
because a handler that has finished serves again. Caches, channels and quotas are at their limit with one
element, so that limits are met in few steps.

**Fairness.** Only `Boot` and `Gateway` state any: weak fairness of the steps of `main`
and of the restart. The service unit of `docs/guide/deployment.md` restarts a failed process
(`Restart=on-failure`), and `main` runs its statements without waiting for anybody.
`ComesUp` needs no more. Nobody has to send a request, and a handler may be abandoned at
any await, so no progress of a request is claimed anywhere.

**Symmetry** is over handlers, tokens, nonces, challenges, secrets, users and addresses,
where a module compares them for equality only. `Gateway`, checked for liveness, uses
none; subjects of `RefreshTokens`, the levels of `PolicyCascade` and the workspaces of
`Tenants` differ from each other and are not permuted.

**Deadlock** is checked in `RefreshTokens`, `RefreshRace` and `PolicyCascade`. It is
not in the others: there the random values, codes, ticks or requests of the bounds can be
used up, and then nothing is left to do. That is the end of the bounded instance, not a state the server
hangs in.

## What the runs say about the code

What holds, where one might doubt it:

* Migrations never leave a row without its script, and no process serves on part of the
  schema (`ServesOnFullSchema`). The converse is the hole: a crash between a script's
  COMMIT and its row makes every later boot run the script again and fail on it, which is
  the exception in `ComesUp`.
* Two racing setups can both be answered 201, the later UPDATE winning; one that
  *arrives* after a 201 cannot (`SubsequentSetupsRefused`).
* Tokens are never looked up, and still a caller only reaches handlers of its own scope
  (`ScopesHold`). The access tokens of a deleted workspace fit a workspace re-created
  under the same id until they expire, but none of them can be refreshed unless a request opened the
  workspace while the DELETE was in flight (`PredecessorsFade`). `workspace_admin_login` and
  `workspace_admin_refresh` do not ask `system.db` for the workspace's row, as the users' endpoints
  do. After the deletion that is harmless, since the session row they need went with the database;
  between the eviction and the removal they cache a pool of the doomed database again, and the
  predecessor's sessions go on through it, also after a re-creation. A removal that fails leaves the
  database, with its sessions, to the successor.
* A re-created workspace's database starts empty unless a request overlapped the deletion or the
  deletion died between its row and its folder (`FreshTenant`). Login, policy and engine requests do not
  look for the row (`Unasked`): after a deletion they create a blank `workspace.db` or `app.db` under
  the deleted id and cache a pool of it, with no migration applied. What survives a deletion
  altogether are the hook engines that are loaded and the scripts under `data/hooks/<ws>/<app>`;
  `FreshTenant` is about databases and pools. Pools are never closed by an eviction, so a
  handler that is in flight keeps writing to an unlinked file.
* Verification links and OAuth states are one-shot (`SingleUseHolds`), and a callback that
  died between link and flag is repaired by the next (`OAuthLoginsAreVerified`). Nothing but
  find-before-link keeps a provider account with one user, and two first callbacks at once can
  break that (`OneUserPerAccount` excepts them).
* Table and schema of a collection agree at rest, except after overlapping DDL or a request that
  got only halfway: an ALTER that failed after an earlier one, a meta statement that failed (the
  clean-up DROP of a create is never run), a dropped connection or a crash. Deleting the collection heals
  it (`SchemaAgrees`). `DELETE .../collections/_collections` is not refused, nor are
  `_access_rules` and `_files`: the handler drops the internal table, and with it the schema of every
  collection, every rule or every file's row.
* Rule and write are separate statements; `AccessWithinRules` therefore holds of requests
  during which neither the rule, nor the record, nor the schema changed. An update is
  published after its commit and from a second read (`api/records.rs:337`), so events can
  overtake each other.
* A subscriber whose stream stays open misses nothing silently; one that loses the race
  with the removal of its channel sees its stream end (`NoSilentLoss`).
* SQL and in-memory evaluation agree for filters without `~`, on declared columns other than JSON
  whose fields have a value of their column's type, where numbers are compared for equality only
  between integers that a double holds or between floats (`FilterPathsAgree`). Outside of that they differ: a record
  created with `1.0`, or an updated one, whose numbers come back as floats, passes `n = 1` in a listing and not in an
  event; a JSON column is text to SQL and a tree in memory; `id`, `created_at` and `updated_at`
  can be listed by (`api/records.rs:149`) but are not among the fields of an event.
* A hook's CPU budget is kept by an entry that is alone in its generation; two that
  overlap share one deadline cell and may disarm each other (`CpuBounded`). The interrupt
  skips `finally`, so a later cron job can find an old `$app.request` (`RequestIsOwn`). The mail quota
  is per generation: a reload starts a new counter (`QuotaHolds`). A mail that the relay took and whose
  confirmation got lost is refunded like one that was not sent, so the cap is on confirmed mails.
  A schedule with no further date ends its task, and nothing notices.

One disagreement with a comment has a run of its own, `RefreshRace`: rotation revokes with an UPDATE that does
not ask whether the row is still live, so a token can be redeemed by as many handlers as had looked
it up, though never twice by one (theorem `DistinctRedeemers`), and it is dead afterwards.

The following definitions state what a comment or document says and the code does not do.
They are kept in their modules; TLC finds the counterexample when the name is
added to the module's configuration.

| Definition | Module | What happens |
|---|---|---|
| `NoTokenOfDeletedUser` | `RefreshTokens` | refresh rows survive the deletion of their user and refresh does not look at `users`; the existing chain goes on |
| `ParallelRequestIsDeadLetter` | `PasswordReset` | a confirm that has consumed its token still writes over the password of one that finished meanwhile |
| `EnabledSecretIsProven` | `TotpLogin` | an enroll between confirm's read and its UPDATE enables a secret nobody proved |
| `HardCap` | `EmailOtp` | racing wrong guesses count as one; with one request at a time the cap holds (`HardCapIfSequential`) |
| `ChainHolds` with two requests | `PolicyCascade` | a child validated against a bound that is replaced before it is stored |
| `RetriesOnNextBoot` | `Boot` | "the migration stays pending and retries on the next boot": after the crash described above the retry fails each time |
| `VanishTogether` | `Tenants` | "vanish in one transaction": row, pools and folder go one after the other |
| `HooksForEachApp` | `Tenants` | "load hooks for each `(workspace, app)`": the first workspace that fails ends the whole sweep of `load_all_hooks`, and `main` only logs it |
| `FailedCreateCleansUp` | `Records` | the DROP that should follow a failed INSERT of the meta row is composed and never run, so the table stays |

`GateFollowsPassword`, `OneSigningKey` (`Boot`), `PoolsBounded` (`Tenants`) and every
module's `TypeOK` hold on the same instances and are left out of the configurations, which
keep to the properties that several actors are needed to break.

Met on the way, without a definition: serde deserialises a `RangePolicy` with `min > max`,
past `RangePolicy::new`; `clamp` then falls back to the inverted parent, which allows no child
(`ClampFits` assumes it away). `system_put` does not compare the kind of a spec
with what the children hold; `clamp` leaves a child of another kind alone.
`docs/concepts/hierarchical-policies.md` speaks of one transaction over all the
files of a cascade; the code has none, which is why `ChainHolds` excepts torn cascades
and `MasterPutSettles` says what repairs them. The migrations of a workspace's and an app's
database run at their creation only (`workspaces.rs:81`, `apps.rs:87`), so scripts added by a later
release do not reach databases that exist. `RevocationSet::revoke` has no caller, so every access token is
good until it expires. Audit rows are written on a best-effort basis. `docs/guide/hooks.md:71` says a reload
"cancels old tasks before re-registering"; the code starts the new generation's tasks before the old one is
dropped. `docs/reference/hooks-api.md:194` says `$app.request` is `null` for cron jobs and set
inside request handlers; custom routes do not set it, and a dispatch that was interrupted leaves it to a later cron job.
`docs/guide/hooks.md:110`, `docs/guide/policies.md:72`, `docs/reference/hooks-api.md:41` and
`docs/concepts/hierarchical-policies.md:57` call the policy of the mail quota `mailer.daily_cap`, the code reads
`mailer.daily_quota` (`rustbase-api/src/mailer.rs:159`).

## Proofs

TLAPS proves the following for every value of the constants allowed by the named
assumptions of the modules (distinct "none" values, positive times to live, naturals for
the bounds).

* **`RefreshTokensProofs`**: `TypeCorrect`, `RedeemedTokensAreRevoked`, `LineageIdentity`,
  `DistinctRedeemers`, `RevocationIsFinal`, `SessionsEnd`. The invariants are not inductive
  because a rotation writes what an earlier step read. The inductive invariant adds that
  what a handler carries still agrees with the table (`HandlersAgree`: rows are never
  removed and never change owner), that only issued rows have parents, and that a
  handler between lookup and rotation has not redeemed that token before
  (`PendingIsFirst`). `RedeemedOnceIfSequential`: with a single handler a token is
  redeemed once, so the race of `RefreshRace` is the only way to break it.
* **`PasswordResetProofs`**: `TypeCorrect`, `OneWritePerToken`, `SettledAreSpent`, and
  `Implements`, the refinement of `SingleUse`: the guarded UPDATE is `Redeem`, sibling
  invalidation is `Retire`, deletion of the user `Erase`, everything else stutters. The inductive
  invariant adds `HandlersAgree`, `OneHolder` (one handler holds a
  consumed token whose write is to come) and `UnspentIsUnused`.
* **`TotpLoginProofs`**: `LateVerdicts`, `ChallengesBuyOneGuess`, `SecondFactor`, `BudgetIsKept`
  (`LockoutBudget`). The last is about the throttle alone (`TrackerInv`): every step leaves the entry alone,
  records a failure or removes the entry (`AttemptsMove`), and recording one keeps the failures of the
  window in order (`RetainFacts`: the position a failure moves to is its rank among those retained,
  shown with the library's minimum of a non-empty set of naturals in place of an induction). For the others the inductive
  invariant adds `LateBudget` (during a lockout an admitted handler has had no verdict),
  `OneHolder` (a won challenge has one winner and no verdict yet), `UnspentIsUnjudged` and
  `HeldMeansOn`.
* **`EmailOtpProofs`**: `CodesAreReplaced`, `CodesVerifyUsers`, `NewestCodeWins`, and
  `HardCapIfSequential`. The inductive invariant adds
  that ids are issued in order, that a pending row has attempts left, that winners are
  spent and that a handler inside consume holds an issued row.
* **`AdministrationProofs`**, on `PolicySpec` and `PolicyCascade`: `AllowsIsTransitive` on ranges,
  allow-lists and free values,
  `ClampFits` and `ClampIsIdempotent`, over all integers and all sets of names.
  `TogglesAreNotTransitive`: a locked toggle allows an open one of the same value, which
  allows a locked one of the other, so comparing neighbours does not hold an app to
  the master's lock. On top of these, for any number of workspaces and apps, `ChainIsKept`
  (`ChainHolds`) and `MasterPutsSettle` (`MasterPutSettles`). Both have two hypotheses: one PUT at a time,
  as in the run (overlapping PUTs are not claimed to keep the chain), and a field whose specs are
  of one kind, no toggles and no inverted ranges (the toggle is refuted above). The inductive
  invariant says, for the position of the cascade, which levels already fit the new spec and which are
  still to be clamped (`Loose`), and that what is stored stays of the field's kind (`Sort`).
* **`AdministrationProofs`**, on `Hooks` (independent of the policies; its specification is `HSpec`):
  `RequestsAreOwn`, `BudgetsHold`, `SchedulersAreRight`, `QuotaIsKept`,
  for finite sets of entries and administrators. The inductive invariant `HInv` counts: `strong[g]` is the number of entries
  inside generation `g`, plus the administrators that keep it, plus one if it is in the map, and a
  generation that is counted and not being loaded has its scheduler iff its expression is valid and its schedule not over (`RefsInv`); the
  counter of a day is what was sent plus what is being sent (`MailInv`). Besides, a context has one holder and what an
  interrupted dispatch left in `$app.request` is known (`ContextInv`), and an entry nobody joined finds the
  deadline it armed (`ClockInv`).
* **`GatewayProofs`**: on `Boot`'s `Spec`, `SchemaIsComplete`, `SecondSetupIsRefused`,
  `PasswordIsForever`, for any number of scripts, crashes, refused configurations and setup
  requests. The inductive invariant adds that the loop of `apply_migrations` has recorded every
  script before its position (`LoopCovers`), that each stage of `main` finds what the stages before
  it stored (`StagesHold`), and that a setup once answered leaves a password behind
  (`PasswordStays`). `GatewayImplementsBoot` shows that each step of the gateway is a step of `Boot`
  or a stutter, and `BootsUnderTraffic` carries the three results over to `GSpec`. For the gateway
  itself, `CallersStayInScope` and `PredecessorsAreOut`, from an invariant `GInv`: the claims of every
  token, and of every login or refresh in flight, name the workspace the session was opened in
  (`Bearer`), no two workspaces work on one database (`Owned`), the sessions stored in a database are its own
  workspace's (`Fits`), and unless a request raced a DELETE a cached pool is on the database at its path and
  gone once the DELETE has evicted it (`Coherent`).
* **`GatewayProofs`**, on `Tenants` (independent of the gateway; its specification is `TSpec`):
  `AnsweredIsMigrated` (`AckedIsMigrated`) and `TenantsAreFresh` (`FreshTenant`), for any number of
  workspaces, apps, scripts, requests and crashes and any capacity of the caches. The inductive invariant
  `TInv` (theorem `TenantsKept`) is long because a request carries a pool across many awaits, during which the row,
  the folder and the cache may go and come back. It says of each request in flight (`CallOK`) that what it read of
  its row and the file it holds still stand unless a delete overlapped it (`Seen`, `Handled`), that the row of a create
  is its own (`Numbered`), that nobody else migrates its file (`Counting`) and that a delete finds the caches as it left
  them (`Evicted`); of two requests, that neither deletes the other's workspace unrecorded (`PairOK`);
  and of the stores, that a file has one path (`Stored`), that a cached pool works on the present file of its
  path (`Pooled`), that after a finished delete there are blank files at most (`Swept`) and that a database was written under its present row
  only (`Written`), the last three unless a request overlapped a delete or a delete died half way.
* **`RecordsProofs`**: `SchemasAgree`, `RulesAreNotInherited`, `AccessesAreAllowed`,
  `UploadsComplete`. The inductive invariant says for each program counter of the one DDL request
  on a collection which of table and schema is ahead and by which columns (`Progress`, `Solo`), which is also
  what decides whether a request that fails or is abandoned leaves them apart (`NotHalfway`); that the
  foreign key leaves no rule without a meta row (`RulesInv`); that a request whose ground nobody disturbed
  carries the rule in force and a row that passes it (`Authorised`); and that a handler about to
  remove a blob has taken its row (`FilesInv`).
* **`RecordsProofs`**, on `Realtime` (its specification is `RtSpec`): `NothingIsLost` (`NoSilentLoss`) and
  `RecordsWithinRule` (`EventsWithinRule`), over restarts, for any number of connections and writers, any lifetime, leeway and channel
  capacity, and any filters that meet the assumption `RuleFilters`. The inductive invariant `RtInv` (theorem `RealtimeKept`) says that
  the map holds the only Sender of the only channel alive, and that channels carry published events (`Brokered`);
  that an open stream stands at a place of its channel (`Joined`), so that a publish finds a receiver
  there and appends; and that a subscription's filter lets through only what its rule allows, before
  anything was received (`Screened`).
* **`AccountsProofs`**: `TypesHold`, `OnlyTheProvenAreVerified`, `OAuthLoginsVerified`,
  `AccountsAreLinkedOnce`, and `BothAreSingleUse`: verification links and OAuth nonces each refine
  `SingleUse` (`Issue` is the request's or `/authorize`'s INSERT, `Redeem` the guarded UPDATE, `Erase` the
  deletion of the user, the rest stutters). The inductive invariant says what a handler knows at each
  await (`Placed`), that a provider account is linked once and a handler that looked for its link in
  vain still would not find one unless callbacks overlapped (`LinkInv`), and that who is pending was never
  redeemed (`ShotInv`).

Only model-checked:

* `ComesUp`: liveness under fairness is out of the prover's reach.
* `FilterPathsAgree` and `PrecedenceHolds`: parser, evaluator and translation are recursive over texts
  and trees, and what a recursive definition computes for every input needs an induction over data. For the
  same reason `RuleFilters`, on which `RecordsWithinRule` rests, is an assumption that TLC evaluates for the code's
  own rules and filters and no theorem.
* The `TypeOK` of the modules other than `RefreshTokens`, `PasswordReset` and `Accounts` is not stated as a
  theorem of its own; the inductive invariants contain the part of it that they need.

## Not modelled

* Cryptography, argon2, JWT and JSON encoding, HTTP wording, cookies, SMTP: calls into
  libraries. What the code makes of their answers (which key verifies, which opens a
  secret, whether a send failed) is modelled.
* Audit rows: append-only, best-effort, read by listings only. Who may read them is in `Gateway`.
* CORS, security headers, body limits and the rate limiter: configuration of external layers.
* Listings and paging: reads of one statement; record listings are modelled for their rule and filter.
* Configuration values, the litestream file, metrics, static assets, OpenAPI output: I/O.
* What JavaScript computes, and the engine's memory and stack limits.
* The lexer of the filter language, and the blob back ends behind the object store.
* The revocation set of access tokens: nothing in the program revokes one, so the set is empty wherever it
  is asked.
* Dropping the internal tables no model reads (`_migrations`, `policies`, `audit_log`) through the collections
  endpoint. `_collections`, `_access_rules` and `_files` are in `Records`.
* Reloads of hooks in `Tenants` and deletion of the app in `Hooks`.
* The dashboard and the SDKs keep no server state.

## Plan

Modelled and proved so far is what the tables above say. Left: deletion of the user as an action of
`TotpLogin` and `EmailOtp`; the realm `master` in `PolicyCascade` (`policy_engine.rs:48`); renaming of
tenants; a second OAuth provider.
