-------------------------------- MODULE Boot --------------------------------
(***************************************************************************)
(* The server process from start to serving, the migrations it applies to  *)
(* system.db on the way, and the first-run setup wizard.  A row, a script  *)
(* and its bookkeeping row, a secret: each is one commit, and the process  *)
(* may crash between any two of them.  main() runs its statements in       *)
(* order; a `?` that fails ends the process and the service manager starts *)
(* it again.                                                               *)
(***************************************************************************)
EXTENDS Naturals, Sequences, FiniteSets

CONSTANTS
  Req,         \* concurrent POST /_/setup requests
  Scripts,     \* SYSTEM_MIGRATIONS, scripts 1 .. Scripts in list order
  MaxCrash,    \* bound: crashes
  MaxBad,      \* bound: boots with a configuration that is refused
  MaxKeys      \* bound: keys drawn from the random generator

ASSUME BootConstants ==
  /\ Scripts \in Nat \ {0}
  /\ MaxCrash \in Nat /\ MaxBad \in Nat /\ MaxKeys \in Nat
  /\ "norow" \notin Req /\ "null" \notin Req

NoKey == 0
Secret == {"master_signing_key", "master_jwt_rsa_pkcs8_v1"}

VARIABLES
  \* system.db
  committed,   \* scripts whose transaction committed
  recorded,    \* ids in _migrations
  master,      \* the workspaces row with is_master = 1 exists
  admin,       \* the seed row's password: "norow", "null", or the request whose password is stored
  secret,      \* _secrets: a key, or NoKey
  \* the process
  pc,          \* the statement main() is at
  already,     \* ids apply_migrations read before its loop
  nextScript,  \* position of the loop
  bad,         \* what is wrong with this boot's configuration, or "none"
  held,        \* keys in memory
  initialized, \* AppState.initialized
  req,         \* setup handlers in flight
  \* bounds and history
  crashes, badBoots, keys,
  served,      \* history: RS256 keys tokens were issued under
  setupDone    \* history: a setup was answered 201

db == <<committed, recorded, master, admin, secret>>
proc == <<pc, already, nextScript, bad, held, initialized>>
hist == <<crashes, badBoots, keys, served, setupDone>>
vars == <<db, proc, req, hist>>

Fault == {"none", "config", "metrics", "kek", "smtp", "s3", "port"}
Idle == [pc |-> "idle", late |-> FALSE]

Init ==
  /\ committed = {} /\ recorded = {} /\ master = FALSE /\ admin = "norow"
  /\ secret = [s \in Secret |-> NoKey]
  /\ pc = "down" /\ already = {} /\ nextScript = 1 /\ bad = "none"
  /\ held = [s \in Secret |-> NoKey] /\ initialized = FALSE
  /\ req = [r \in Req |-> Idle]
  /\ crashes = 0 /\ badBoots = 0 /\ keys = 0 /\ served = {} /\ setupDone = FALSE

-----------------------------------------------------------------------------
(* main() up to the listener. *)

\* Everything in memory is gone; setup handlers die with the process.
Exit ==
  /\ pc' = "down" /\ already' = {} /\ nextScript' = 1 /\ bad' = "none"
  /\ held' = [s \in Secret |-> NoKey] /\ initialized' = FALSE
  /\ req' = [r \in Req |-> Idle]

\* A `?` in main() that fails: the process ends, the database keeps its rows.
Fail == Exit /\ UNCHANGED <<db, hist>>

\* The file and the environment parse, and replication has a bucket.
load(b) == b # "config"
\* Metrics without a token are refused.
observability_init(b) == b # "metrics"

\* main() begins with both.
Start ==
  /\ pc = "down"
  /\ \E b \in Fault :
       /\ b # "none" => badBoots < MaxBad
       /\ badBoots' = IF b = "none" THEN badBoots ELSE badBoots + 1
       /\ bad' = b
       /\ pc' = IF load(b) /\ observability_init(b) THEN "ensure" ELSE "down"
  /\ UNCHANGED <<db, already, nextScript, held, initialized, req, crashes, keys, served, setupDone>>

\* apply_migrations creates its own table and reads which scripts are recorded.
ReadApplied ==
  /\ pc = "ensure"
  /\ already' = recorded /\ nextScript' = 1 /\ pc' = "script"
  /\ UNCHANGED <<db, bad, held, initialized, req, hist>>

\* Every listed script is plain CREATE TABLE or RENAME COLUMN, with no
\* IF NOT EXISTS: on a database that already has its effect it fails.
SYSTEM_MIGRATIONS(s) == s \notin committed

\* Faulty variant: the bookkeeping row goes first.
ScriptAfterRow ==
  /\ pc = "script" /\ nextScript \in 1 .. Scripts /\ nextScript \notin already
  /\ recorded' = recorded \cup {nextScript} /\ pc' = "record"
  /\ UNCHANGED <<committed, master, admin, secret, already, nextScript, bad, held, initialized, req, hist>>

\* apply_one, first commit: BEGIN; script; COMMIT.  A failing script rolls back and
\* ends the boot.
ApplyScript ==
  /\ pc = "script" /\ nextScript \in 1 .. Scripts /\ nextScript \notin already
  /\ \/ /\ SYSTEM_MIGRATIONS(nextScript)
        /\ committed' = committed \cup {nextScript} /\ pc' = "record"
        /\ UNCHANGED <<recorded, master, admin, secret, already, nextScript, bad, held, initialized, req, hist>>
     \/ ~SYSTEM_MIGRATIONS(nextScript) /\ Fail

\* apply_one, second commit: the _migrations row.
RecordScript ==
  /\ pc = "record"
  /\ recorded' = recorded \cup {nextScript}
  /\ nextScript' = nextScript + 1 /\ pc' = "script"
  /\ UNCHANGED <<committed, master, admin, secret, already, bad, held, initialized, req, hist>>

\* The loop's `continue`, and its end.
SkipScript ==
  /\ pc = "script"
  /\ \/ nextScript \in already /\ nextScript' = nextScript + 1 /\ pc' = pc
     \/ nextScript > Scripts /\ pc' = "realm" /\ UNCHANGED nextScript
  /\ UNCHANGED <<db, already, bad, held, initialized, req, hist>>

\* INSERT OR IGNORE of the master workspace.
ensure_master_realm ==
  /\ pc = "realm"
  /\ master' = TRUE /\ pc' = "seed"
  /\ UNCHANGED <<committed, recorded, admin, secret, already, nextScript, bad, held, initialized, req, hist>>

\* Faulty variant: the seed row is written on every boot.
SeedAlways ==
  /\ pc = "seed"
  /\ admin' = "null" /\ pc' = "check"
  /\ UNCHANGED <<committed, recorded, master, secret, already, nextScript, bad, held, initialized, req, hist>>

\* Faulty variant: a plain INSERT, which the UNIQUE username refuses the second time.
SeedUnguarded ==
  /\ pc = "seed"
  /\ \/ /\ admin = "norow" /\ admin' = "null" /\ pc' = "check"
        /\ UNCHANGED <<committed, recorded, master, secret, already, nextScript, bad, held, initialized, req, hist>>
     \/ admin # "norow" /\ Fail

\* The seed admin is inserted, with no password, only when there is no admin at all.
ensure_seed_master_admin ==
  /\ pc = "seed"
  /\ admin' = (IF admin = "norow" THEN "null" ELSE admin) /\ pc' = "check"
  /\ UNCHANGED <<committed, recorded, master, secret, already, nextScript, bad, held, initialized, req, hist>>

master_admin_is_initialized == admin \in Req

\* The cached flag is read off the database once per boot.
CheckInitialized ==
  /\ pc = "check"
  /\ initialized' = master_admin_is_initialized /\ pc' = "key1"
  /\ UNCHANGED <<db, already, nextScript, bad, held, req, hist>>

get_secret(s) == secret[s]

\* put_secret and the key kept in memory.
put_secret(s, k) ==
  /\ secret' = [secret EXCEPT ![s] = k]
  /\ held' = [held EXCEPT ![s] = k]

\* The stored value if there is one, else the fresh key is persisted and used.
get_or_init_secret(s, fresh) ==
  \/ /\ get_secret(s) # NoKey
     /\ held' = [held EXCEPT ![s] = get_secret(s)]
     /\ UNCHANGED <<secret, keys>>
  \/ /\ get_secret(s) = NoKey
     /\ keys < MaxKeys /\ keys' = keys + 1
     /\ put_secret(s, fresh)

\* Random keys: each differs from every earlier one.
generate == keys + 1
generate_rsa_with_pkcs8 == keys + 1

\* The HS256 key kept for verification of old tokens.
LoadSigningKey ==
  /\ pc = "key1" /\ get_or_init_secret("master_signing_key", generate)
  /\ pc' = "key2"
  /\ UNCHANGED <<committed, recorded, master, admin, already, nextScript, bad, initialized, req, crashes, badBoots, served, setupDone>>

\* The RS256 keypair new tokens are signed with.
LoadRsaKey ==
  /\ pc = "key2" /\ get_or_init_secret("master_jwt_rsa_pkcs8_v1", generate_rsa_with_pkcs8)
  /\ pc' = "kek"
  /\ UNCHANGED <<committed, recorded, master, admin, already, nextScript, bad, initialized, req, crashes, badBoots, served, setupDone>>

\* resolve_kek refuses a malformed RUSTBASE_KEK; an absent one does not stop the boot.
ResolveKek ==
  /\ pc = "kek"
  /\ \/ bad = "kek" /\ Fail
     \/ bad # "kek" /\ pc' = "mail" /\ UNCHANGED <<db, already, nextScript, bad, held, initialized, req, hist>>

\* SmtpMailer::new fails on a bad [mail.smtp] rather than fall back to the log.
ChooseMailer ==
  /\ pc = "mail"
  /\ \/ bad = "smtp" /\ Fail
     \/ bad # "smtp" /\ pc' = "storage" /\ UNCHANGED <<db, already, nextScript, bad, held, initialized, req, hist>>

\* Storage::s3 likewise; then AppState is built.  Hooks that do not load do not stop the boot.
ChooseStorage ==
  /\ pc = "storage"
  /\ \/ bad = "s3" /\ Fail
     \/ bad # "s3" /\ pc' = "listen" /\ UNCHANGED <<db, already, nextScript, bad, held, initialized, req, hist>>

\* The router gets its layers and the port is bound, unless it is taken.
Listen ==
  /\ pc = "listen"
  /\ \/ bad = "port" /\ Fail
     \/ /\ bad # "port" /\ pc' = "serving"
        /\ served' = served \cup {held["master_jwt_rsa_pkcs8_v1"]}
        /\ UNCHANGED <<db, already, nextScript, bad, held, initialized, req, crashes, badBoots, keys, setupDone>>

\* The process dies anywhere.
Crash ==
  /\ pc # "down" /\ crashes < MaxCrash
  /\ Exit /\ crashes' = crashes + 1
  /\ UNCHANGED <<db, badBoots, keys, served, setupDone>>

-----------------------------------------------------------------------------
(* POST /_/setup, open before setup completes (setup_gate). *)

Move(r, to) == req' = [req EXCEPT ![r].pc = to]

is_initialized == initialized
mark_initialized == initialized' = TRUE

\* Before setup only the wizard itself, health and public reads pass.
is_allowed_before_setup(route) == route \in {"setup", "healthz", "jwks", "dashboard"}
setup_gate(route) == is_initialized \/ is_allowed_before_setup(route)

\* The request passes the gate; a password that fails validation is refused at once.
SetupStart(r) ==
  /\ pc = "serving" /\ req[r].pc = "idle" /\ setup_gate("setup")
  /\ req' = [req EXCEPT ![r] = [pc |-> "guard", late |-> setupDone]]
  /\ UNCHANGED <<db, proc, hist>>

\* Faulty variant: no idempotency guard.
SetupUnguarded(r) ==
  /\ req[r].pc = "guard"
  /\ Move(r, "find")
  /\ UNCHANGED <<db, proc, hist>>

\* The idempotency guard reads the database, not the cached flag.
SetupGuard(r) ==
  /\ req[r].pc = "guard"
  /\ Move(r, IF master_admin_is_initialized THEN "conflict" ELSE "find")
  /\ UNCHANGED <<db, proc, hist>>

find_master_admin_by_username == admin # "norow"

\* The seed row is looked up; without it the request answers 500.
SetupFind(r) ==
  /\ req[r].pc = "find"
  /\ Move(r, IF find_master_admin_by_username THEN "write" ELSE "error")
  /\ UNCHANGED <<db, proc, hist>>

\* set_master_admin_password updates the row by id, whatever it holds.
SetupWrite(r) ==
  /\ req[r].pc = "write"
  /\ admin' = r /\ Move(r, "mark")
  /\ UNCHANGED <<committed, recorded, master, secret, proc, hist>>

\* mark_initialized opens the gate and the request is answered 201.
SetupMark(r) ==
  /\ req[r].pc = "mark"
  /\ mark_initialized /\ setupDone' = TRUE /\ Move(r, "created")
  /\ UNCHANGED <<db, pc, already, nextScript, bad, held, crashes, badBoots, keys, served>>

\* A finished handler's slot is free again.
SetupEnd(r) ==
  /\ req[r].pc \in {"conflict", "error", "created"}
  /\ req' = [req EXCEPT ![r] = Idle]
  /\ UNCHANGED <<db, proc, hist>>

\* One handler's steps.
Setup(r) ==
  \/ SetupStart(r) \/ SetupGuard(r) \/ SetupFind(r) \/ SetupWrite(r)
  \/ SetupMark(r) \/ SetupEnd(r)

\* main() itself.
Main ==
  \/ Start \/ ReadApplied \/ ApplyScript \/ RecordScript \/ SkipScript
  \/ ensure_master_realm \/ ensure_seed_master_admin \/ CheckInitialized
  \/ LoadSigningKey \/ LoadRsaKey \/ ResolveKek \/ ChooseMailer \/ ChooseStorage \/ Listen

Next == Main \/ Crash \/ \E r \in Req : Setup(r)

\* The service unit restarts a failed process and main() keeps running its statements;
\* nobody has to send a setup request.
Spec == Init /\ [][Next]_vars /\ WF_vars(Main)

-----------------------------------------------------------------------------
(* Properties. *)

Stage == {"down", "ensure", "script", "record", "realm", "seed", "check",
          "key1", "key2", "kek", "mail", "storage", "listen", "serving"}

\* Shape of the state.
TypeOK ==
  /\ committed \subseteq 1 .. Scripts /\ recorded \subseteq 1 .. Scripts
  /\ master \in BOOLEAN /\ admin \in Req \cup {"norow", "null"}
  /\ secret \in [Secret -> 0 .. MaxKeys] /\ held \in [Secret -> 0 .. MaxKeys]
  /\ pc \in Stage /\ already \subseteq 1 .. Scripts /\ nextScript \in 1 .. Scripts + 1
  /\ bad \in Fault /\ initialized \in BOOLEAN
  /\ req \in [Req -> [pc : {"idle", "guard", "find", "write", "mark", "conflict", "error", "created"},
                      late : BOOLEAN]]
  /\ crashes \in 0 .. MaxCrash /\ badBoots \in 0 .. MaxBad /\ keys \in 0 .. MaxKeys
  /\ served \subseteq 1 .. MaxKeys /\ setupDone \in BOOLEAN

\* A serving process has the whole system schema under it, its master workspace row
\* and a seed admin, and every script _migrations lists really ran: apply_one commits
\* the script before the row, so no crash can leave a row without its schema.
ServesOnFullSchema ==
  /\ recorded \subseteq committed
  /\ pc = "serving" => committed = 1 .. Scripts /\ recorded = committed /\ master /\ admin # "norow"

\* The gate is open only when some admin password is stored (setup marks the flag after
\* the UPDATE, main() recomputes it from the row), and a handler that is about to
\* answer 201 finds the seed row with a password.
GateFollowsPassword ==
  /\ setup_gate("api") => master_admin_is_initialized
  /\ \A r \in Req : req[r].pc \in {"mark", "created"} => master_admin_is_initialized

\* "Subsequent calls return 409" (setup.rs): a setup request that arrives after another
\* was answered 201 is never answered 201 itself, crashes and restarts in between or not.
SubsequentSetupsRefused ==
  \A r \in Req : req[r].late => req[r].pc \in {"guard", "conflict"}

\* Restarting keeps sessions valid: every process that ever served signed its tokens
\* with one and the same RS256 key, also when the first boot crashed around storing it.
OneSigningKey == Cardinality(served) <= 1

\* No step, boot or crash ever takes a stored password away or closes an open gate of a
\* running process.
SetupIsForever ==
  [][/\ admin \in Req => admin' \in Req
     /\ pc = "serving" /\ initialized /\ pc' = "serving" => initialized']_vars


\* Once crashes and bad configurations are over the server comes up and stays up,
\* unless a crash fell between a script's COMMIT and its _migrations row: then every
\* later boot runs that script again and fails on it.
ComesUp == <>[](pc = "serving") \/ <>(committed # recorded /\ pc = "down")

\* The comment on apply_one: "the migration stays pending and retries on the next boot".
RetriesOnNextBoot == <>(pc = "serving")
=============================================================================
