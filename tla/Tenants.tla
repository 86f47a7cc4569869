------------------------------ MODULE Tenants -------------------------------
(***************************************************************************)
(* Workspaces and apps: rows in system.db and workspace.db, the database   *)
(* files they stand for, the LRU caches of open pools, and the hook        *)
(* engines loaded for them.  Creating and deleting a tenant is a sequence  *)
(* of separate commits and file operations; handlers interleave at every   *)
(* await and the process may crash between any two of them.                *)
(*                                                                         *)
(* A pool keeps working on the file it opened, also after the path was     *)
(* unlinked (POSIX); files therefore have an identity besides their path.  *)
(***************************************************************************)
EXTENDS Naturals, Sequences, FiniteSets

CONSTANTS
  Workspace,    \* workspace ids
  Master,       \* the built-in one
  App,          \* app ids
  Call,         \* concurrent requests
  ScriptCount,  \* length of WORKSPACE_MIGRATIONS and of APP_MIGRATIONS
  Cap,          \* capacity of each pool cache
  MaxRow,       \* bound: workspace rows ever inserted
  MaxFile,      \* bound: database files ever created
  MaxDeath,     \* bound: crashes
  MaxCall       \* bound: requests

ASSUME TenantConstants ==
  /\ Master \in Workspace /\ App # {}
  /\ {ScriptCount, Cap, MaxRow, MaxFile} \subseteq Nat \ {0} /\ {MaxDeath, MaxCall} \subseteq Nat

Key == {<<w>> : w \in Workspace} \cup (Workspace \X App)
NoFile == 0
NoPools == [n \in {1, 2} |-> {}]

VARIABLES
  realm,    \* system.db: 0, or the number of the INSERT that created w's row
  realms,   \* how many there have been
  file,     \* the file a path names
  body,     \* contents of the files ever created
  pools,    \* pools[1]: workspace pools, pools[2]: app pools; age 0 is the most recent
  hooks,    \* (workspace, app) pairs with a loaded engine
  up,       \* "down", "loading" or "serving"
  queue,    \* workspaces load_all_hooks has still to visit
  call,     \* handlers in flight
  deaths, calls,
  acked,    \* history: rows whose creation was answered 201
  overlap,  \* history: workspaces deleted while another request used them
  cut       \* history: workspaces whose delete died between row and folder

store == <<realm, realms, file, body>>
tHist == <<deaths, calls, acked, overlap, cut>>
tVars == <<store, pools, hooks, up, queue, call, tHist>>

NoCall == [pc |-> "idle", op |-> "none", w |-> Master, a |-> CHOOSE a \in App : TRUE,
           row |-> 0, k |-> <<Master>>, h |-> NoFile, i |-> 0]
Empty == [done |-> 0, rec |-> 0, apps |-> {}, writers |-> {}]

TInit ==
  /\ realm = [w \in Workspace |-> IF w = Master THEN 1 ELSE 0] /\ realms = 1
  /\ file = [k \in Key |-> NoFile] /\ body = <<>>
  /\ pools = NoPools /\ hooks = {}
  /\ up = "serving" /\ queue = {}
  /\ call = [r \in Call |-> NoCall]
  /\ deaths = 0 /\ calls = 0 /\ acked = {} /\ overlap = {} /\ cut = {}

-----------------------------------------------------------------------------
(* Rows. *)

find_workspace(w) == realm[w] # 0

create_realm(w) == realm' = [realm EXCEPT ![w] = realms + 1] /\ realms' = realms + 1

delete_realm(w) == realm' = [realm EXCEPT ![w] = IF w = Master THEN @ ELSE 0]

\* The apps and workspace_admins tables come with the first script.
Queryable(f) == body[f].done >= 1

find_app(f, a) == a \in body[f].apps
create_app(f, a) == body' = [body EXCEPT ![f].apps = @ \cup {a}]
delete_app(f, a) == body' = [body EXCEPT ![f].apps = @ \ {a}]
list_apps(f) == body[f].apps

-----------------------------------------------------------------------------
(* The pool managers. *)

Kind(k) == Len(k)
Cached(k) == {e \in pools[Kind(k)] : e.k = k}
Handle(k) == (CHOOSE e \in Cached(k) : TRUE).f

\* What is left of a cache without some entries, and a cache with a new most recent one.
Without(c, out) ==
  {[k |-> e.k, f |-> e.f, age |-> Cardinality({d \in c \ out : d.age < e.age})] : e \in c \ out}
Newest(c, k, f) ==
  {[k |-> k, f |-> f, age |-> 0]} \cup {[k |-> e.k, f |-> e.f, age |-> e.age + 1] : e \in c}

\* LruCache::get moves the entry to the front.
Touch(k) == pools' = [pools EXCEPT ![Kind(k)] = Newest(Without(@, Cached(k)), k, Handle(k))]

\* LruCache::put evicts the least recently used entry beyond the capacity.
Put(k, f) == pools' = [pools EXCEPT ![Kind(k)] = {e \in Newest(@, k, f) : e.age < Cap}]

evict(k) == [pools EXCEPT ![Kind(k)] = Without(@, Cached(k))]
\* Faulty variant: only the workspace's own pool is dropped.
EvictNoApps(w) == pools
evict_realm(w) == [pools EXCEPT ![2] = Without(pools[2], {e \in pools[2] : e.k[1] = w})]

\* open_pool creates the directory and the file when they are missing.
open_pool(k) ==
  \/ file[k] # NoFile /\ UNCHANGED <<file, body>>
  \/ /\ file[k] = NoFile /\ Len(body) < MaxFile
     /\ body' = Append(body, Empty)
     /\ file' = [file EXCEPT ![k] = Len(body) + 1]

-----------------------------------------------------------------------------
(* Handlers, one request each. *)

At(r, pc) == up = "serving" /\ call[r].pc = pc
Go(r, pc) == call' = [call EXCEPT ![r].pc = pc]
End(r) == call' = [call EXCEPT ![r] = NoCall]
InFlight(w) == {r \in Call : call[r].pc # "idle" /\ call[r].w = w}

\* Who opens a pool without asking system.db for the row: workspace_admin_login and
\* workspace_admin_refresh, the policies' app_put, and whatever a loaded engine runs (a
\* custom route, a cron task) by a native call.
Unasked == {"login", "policy", "engine"}

Started(op, w, a) ==
  [pc |-> IF op \in Unasked THEN "get" ELSE "exists", op |-> op, w |-> w, a |-> a, row |-> 0, k |-> IF op = "engine" THEN <<w, a>> ELSE <<w>>, h |-> NoFile, i |-> 0]

\* A request arrives and is authorised, or an engine begins to run a script.
Arrive(r, op, w, a) ==
  /\ At(r, "idle") /\ calls < MaxCall /\ calls' = calls + 1
  /\ op = "engine" => <<w, a>> \in hooks
  /\ call' = [call EXCEPT ![r] = Started(op, w, a)]
  /\ overlap' = IF \E q \in InFlight(w) : "delete" \in {op, call[q].op}
                THEN overlap \cup {w} ELSE overlap
  /\ UNCHANGED <<store, pools, hooks, up, queue, deaths, acked, cut>>

\* The existence check that opens every other handler: a create must not find the row, the
\* others must (require_realm_exists).
Exists(r) ==
  LET q == call[r] IN
  /\ At(r, "exists")
  /\ IF find_workspace(q.w) = (q.op = "create") THEN End(r)
     ELSE call' = [call EXCEPT ![r].row = realm[q.w],
                             ![r].pc = CASE q.op = "create" -> "insert"
                                         [] q.op = "delete" -> "evict"
                                         [] OTHER -> "get"]
  /\ UNCHANGED <<store, pools, hooks, up, queue, tHist>>

\* workspaces::create inserts the row; a concurrent create took the primary key.
InsertRow(r) ==
  LET w == call[r].w IN
  /\ At(r, "insert")
  /\ \/ find_workspace(w) /\ End(r) /\ UNCHANGED <<realm, realms>>
     \/ /\ ~find_workspace(w) /\ realms < MaxRow
        /\ create_realm(w)
        /\ call' = [call EXCEPT ![r].pc = "get", ![r].row = realms + 1]
  /\ UNCHANGED <<file, body, pools, hooks, up, queue, tHist>>

\* Where pool_for returns to.
AfterPool(q) == CASE q.op \in {"login", "engine"} \/ (q.op = "policy" /\ Kind(q.k) = 2) -> "use"
                  [] q.op = "create" \/ (q.op = "createapp" /\ Kind(q.k) = 2) -> "read"
                  [] q.op = "admin" -> "write"
                  [] OTHER -> "findapp"

\* pool_for, first lock: a cached pool is used as it is.
PoolGet(r) ==
  LET q == call[r] IN
  /\ At(r, "get")
  /\ \/ /\ Cached(q.k) # {} /\ Touch(q.k)
        /\ call' = [call EXCEPT ![r].h = Handle(q.k),
                              ![r].pc = AfterPool(q)]
     \/ Cached(q.k) = {} /\ Go(r, "open") /\ UNCHANGED pools
  /\ UNCHANGED <<store, hooks, up, queue, tHist>>

\* pool_for, unlocked: the file is opened, or created.
PoolOpen(r) ==
  LET q == call[r] IN
  /\ At(r, "open")
  /\ open_pool(q.k)
  /\ call' = [call EXCEPT ![r].h = file'[q.k], ![r].pc = "put"]
  /\ UNCHANGED <<realm, realms, pools, hooks, up, queue, tHist>>

\* pool_for, second lock: whoever put one first wins, the other pool is dropped.
PoolPut(r) ==
  LET q == call[r] IN
  /\ At(r, "put")
  /\ \/ /\ Cached(q.k) # {} /\ Touch(q.k)
        /\ call' = [call EXCEPT ![r].h = Handle(q.k),
                              ![r].pc = AfterPool(q)]
     \/ Cached(q.k) = {} /\ Put(q.k, q.h) /\ Go(r, AfterPool(q))
  /\ UNCHANGED <<store, hooks, up, queue, tHist>>

\* apply_migrations on the pool: read what is recorded,
MigrateRead(r) ==
  /\ At(r, "read")
  /\ call' = [call EXCEPT ![r].i = body[call[r].h].rec + 1, ![r].pc = "script"]
  /\ UNCHANGED <<store, pools, hooks, up, queue, tHist>>

\* then per script one commit (a script that already ran fails: 500),
MigrateScript(r) ==
  LET q == call[r] IN
  /\ At(r, "script") /\ q.i <= ScriptCount
  /\ \/ /\ body[q.h].done < q.i
        /\ body' = [body EXCEPT ![q.h].done = q.i] /\ Go(r, "record")
     \/ body[q.h].done >= q.i /\ End(r) /\ UNCHANGED body
  /\ UNCHANGED <<realm, realms, file, pools, hooks, up, queue, tHist>>

\* and one for its _migrations row.
MigrateRecord(r) ==
  LET q == call[r] IN
  /\ At(r, "record")
  /\ body' = [body EXCEPT ![q.h].rec = q.i]
  /\ call' = [call EXCEPT ![r].i = q.i + 1, ![r].pc = "script"]
  /\ UNCHANGED <<realm, realms, file, pools, hooks, up, queue, tHist>>

\* Faulty variant: 201 before the migrations ran.
AnswerEarly(r) ==
  /\ At(r, "read")
  /\ acked' = acked \cup {call[r].row} /\ End(r)
  /\ UNCHANGED <<store, pools, hooks, up, queue, deaths, calls, overlap, cut>>

\* workspaces::create answers 201.
AnswerWorkspace(r) ==
  LET q == call[r] IN
  /\ At(r, "script") /\ q.i > ScriptCount /\ Kind(q.k) = 1
  /\ acked' = acked \cup {q.row} /\ End(r)
  /\ UNCHANGED <<store, pools, hooks, up, queue, deaths, calls, overlap, cut>>

\* apps::create loads the hooks found on disk (a failure is only logged, so a pair in
\* hooks was at least visited) and answers 201.
AnswerApp(r) ==
  LET q == call[r] IN
  /\ At(r, "script") /\ q.i > ScriptCount /\ Kind(q.k) = 2
  /\ hooks' = hooks \cup {<<q.w, q.a>>} /\ End(r)
  /\ UNCHANGED <<store, pools, up, queue, tHist>>

\* workspaces::delete, cached pools first.
DeleteEvict(r) ==
  /\ At(r, "evict") /\ Go(r, "evictapps")
  /\ pools' = evict(<<call[r].w>>)
  /\ UNCHANGED <<store, hooks, up, queue, tHist>>

DeleteEvictApps(r) ==
  /\ At(r, "evictapps") /\ Go(r, "delrow")
  /\ pools' = evict_realm(call[r].w)
  /\ UNCHANGED <<store, hooks, up, queue, tHist>>

\* Then the row; a concurrent delete already took it (RowNotFound, 500).
DeleteRow(r) ==
  LET w == call[r].w IN
  /\ At(r, "delrow") /\ delete_realm(w)
  /\ IF find_workspace(w) THEN Go(r, "rmdir") ELSE End(r)
  /\ UNCHANGED <<realms, file, body, pools, hooks, up, queue, tHist>>

\* Then the folder, with every app database below it; a failure leaves the folder.
DeleteFolder(r) ==
  LET w == call[r].w IN
  /\ At(r, "rmdir") /\ End(r)
  /\ \/ file' = [k \in Key |-> IF k[1] = w THEN NoFile ELSE file[k]] /\ UNCHANGED cut
     \/ cut' = cut \cup {w} /\ UNCHANGED file
  /\ UNCHANGED <<realm, realms, body, pools, hooks, up, queue, deaths, calls, acked, overlap>>

\* apps::create, apps::delete and app_put look the app up; a workspace.db without tables
\* is a 500.  app_put goes on with the app's own database.
FindApp(r) ==
  LET q == call[r] IN
  /\ At(r, "findapp")
  /\ IF ~Queryable(q.h) \/ find_app(q.h, q.a) = (q.op = "createapp") THEN End(r)
     ELSE IF q.op = "policy" THEN call' = [call EXCEPT ![r].k = <<q.w, q.a>>, ![r].pc = "get"]
     ELSE Go(r, IF q.op = "createapp" THEN "insapp" ELSE "evictapp")
  /\ UNCHANGED <<store, pools, hooks, up, queue, tHist>>

\* apps::create inserts the row and goes on with the app's own database.
InsertApp(r) ==
  LET q == call[r] IN
  /\ At(r, "insapp")
  /\ \/ find_app(q.h, q.a) /\ End(r) /\ UNCHANGED body
     \/ /\ ~find_app(q.h, q.a) /\ create_app(q.h, q.a)
        /\ call' = [call EXCEPT ![r].k = <<q.w, q.a>>, ![r].pc = "get"]
  /\ UNCHANGED <<realm, realms, file, pools, hooks, up, queue, tHist>>

\* apps::delete: pool, row, folder; the engine stays loaded.
DeleteAppEvict(r) ==
  /\ At(r, "evictapp") /\ Go(r, "delapp")
  /\ pools' = evict(<<call[r].w, call[r].a>>)
  /\ UNCHANGED <<store, hooks, up, queue, tHist>>

DeleteAppRow(r) ==
  LET q == call[r] IN
  /\ At(r, "delapp") /\ delete_app(q.h, q.a)
  /\ IF find_app(q.h, q.a) THEN Go(r, "rmapp") ELSE End(r)
  /\ UNCHANGED <<realm, realms, file, pools, hooks, up, queue, tHist>>

DeleteAppFolder(r) ==
  LET q == call[r] IN
  /\ At(r, "rmapp") /\ End(r)
  /\ file' \in {file, [file EXCEPT ![<<q.w, q.a>>] = NoFile]}
  /\ UNCHANGED <<realm, realms, body, pools, hooks, up, queue, tHist>>

\* workspace_admins::create: the tenant's own data.
insert_realm_admin(r) ==
  LET q == call[r] IN
  /\ At(r, "write") /\ End(r)
  /\ body' = IF Queryable(q.h) THEN [body EXCEPT ![q.h].writers = @ \cup {q.row}] ELSE body
  /\ UNCHANGED <<realm, realms, file, pools, hooks, up, queue, tHist>>

\* What those that never asked for the row do with their pool: the rows they read and write
\* belong to what is in that database already, and in one without tables every statement
\* fails.  record_audit of a login and a script's next native call open the pool once more.
UsePool(r) ==
  /\ At(r, "use")
  /\ End(r) \/ (call[r].op # "policy" /\ Go(r, "get"))
  /\ UNCHANGED <<store, pools, hooks, up, queue, tHist>>

\* A statement fails or the connection drops at an await (for the folder that is the second
\* disjunct of DeleteFolder).
Dropped(r) ==
  /\ up = "serving" /\ call[r].pc \notin {"idle", "rmdir"} /\ End(r)
  /\ UNCHANGED <<store, pools, hooks, up, queue, tHist>>

-----------------------------------------------------------------------------
(* Crash and restart. *)

Die ==
  /\ up # "down" /\ deaths < MaxDeath /\ deaths' = deaths + 1
  /\ up' = "down" /\ queue' = {} /\ pools' = NoPools /\ hooks' = {}
  /\ cut' = cut \cup {call[r].w : r \in {r \in Call : call[r].pc = "rmdir"}}
  /\ call' = [r \in Call |-> NoCall]
  /\ UNCHANGED <<store, calls, acked, overlap>>

\* list_realms: master first, then by age (Oldest).
list_realms == {w \in Workspace : realm[w] # 0}
Oldest(ws) == {w \in ws : \A v \in ws : realm[w] <= realm[v]}

Restart ==
  /\ up = "down"
  /\ up' = "loading" /\ queue' = list_realms
  /\ UNCHANGED <<store, pools, hooks, call, tHist>>

\* load_all_hooks, one workspace: no database file yet means skip; one without tables
\* is an error that ends the whole walk, logged by main().  Loading is tried for every
\* app and may fail on its own.
LoadHooks ==
  /\ up = "loading"
  /\ \E w \in Oldest(queue) : LET f == file[<<w>>] IN
     \/ f = NoFile /\ queue' = queue \ {w} /\ UNCHANGED <<pools, hooks>>
     \/ /\ f # NoFile /\ Put(<<w>>, f)
        /\ \/ ~Queryable(f) /\ queue' = {} /\ UNCHANGED hooks
           \/ /\ Queryable(f) /\ queue' = queue \ {w}
              /\ hooks' = hooks \cup ({w} \X list_apps(f))
  /\ UNCHANGED <<store, up, call, tHist>>

Serve ==
  /\ up = "loading" /\ queue = {} /\ up' = "serving"
  /\ UNCHANGED <<store, pools, hooks, queue, call, tHist>>

\* "master" can neither be created nor deleted, and its database never gets tables, so
\* every other request on it does what "admin" does: open the pool and answer 500.
Op(w) == IF w = Master THEN {"admin"}
         ELSE {"create", "delete", "createapp", "deleteapp", "admin"} \cup Unasked

Step(r) ==
  \/ Exists(r) \/ InsertRow(r) \/ PoolGet(r) \/ PoolOpen(r) \/ PoolPut(r)
  \/ MigrateRead(r) \/ MigrateScript(r) \/ MigrateRecord(r)
  \/ AnswerWorkspace(r) \/ AnswerApp(r)
  \/ DeleteEvict(r) \/ DeleteEvictApps(r) \/ DeleteRow(r) \/ DeleteFolder(r)
  \/ FindApp(r) \/ InsertApp(r) \/ DeleteAppEvict(r) \/ DeleteAppRow(r) \/ DeleteAppFolder(r)
  \/ insert_realm_admin(r) \/ UsePool(r) \/ Dropped(r)

TNext ==
  \/ \E r \in Call, w \in Workspace, a \in App : \E op \in Op(w) : Arrive(r, op, w, a)
  \/ \E r \in Call : Step(r)
  \/ Die \/ Restart \/ LoadHooks \/ Serve

TSpec == TInit /\ [][TNext]_tVars

-----------------------------------------------------------------------------
(* Properties. *)

\* Shape of the state.
TTypeOK ==
  /\ realm \in [Workspace -> 0 .. MaxRow] /\ realms \in 1 .. MaxRow
  /\ file \in [Key -> 0 .. MaxFile] /\ Len(body) <= MaxFile
  /\ \A f \in DOMAIN body :
       /\ body[f].done \in 0 .. ScriptCount /\ body[f].rec \in 0 .. body[f].done
       /\ body[f].apps \subseteq App /\ body[f].writers \subseteq 1 .. MaxRow
  /\ \A k \in Key : file[k] \in {NoFile} \cup DOMAIN body
  /\ hooks \subseteq Workspace \X App /\ up \in {"down", "loading", "serving"}
  /\ \A r \in Call : call[r].h \in {NoFile} \cup DOMAIN body
  /\ deaths \in 0 .. MaxDeath

\* The caches stay within their capacity and hold one pool per database, whatever
\* handlers open at the same time (pool_for looks again after the open).
PoolsBounded ==
  \A n \in {1, 2} :
    /\ Cardinality(pools[n]) <= Cap
    /\ \A d, e \in pools[n] : d.k = e.k => d = e

\* A workspace whose creation was answered 201 has, as long as its row is there, a
\* database with every migration applied: over crashes and evictions, unless a delete
\* of that workspace overlapped another request on it.
AckedIsMigrated ==
  \A w \in Workspace : realm[w] \in acked /\ w \notin overlap =>
    file[<<w>>] # NoFile /\ body[file[<<w>>]].rec = ScriptCount

\* The databases of a deleted workspace are out of a successor's reach.  With its row gone
\* and no request on it in flight, whatever file is at one of its paths is blank (a late
\* login or an engine that is still loaded re-creates them) and a cached pool works on that
\* very file.  A re-created workspace reaches, on disk and through the cache, only what was
\* written under its own row.  The two ways the code lets a predecessor's databases through
\* are excluded: a request on the workspace that overlapped the delete (it can cache a pool
\* after the eviction), and a delete that died between its row and its folder.  This is
\* about databases and pools: the engines and the scripts under data/hooks survive.
FreshTenant ==
  \A w \in Workspace \ (overlap \cup cut) :
    IF realm[w] = 0
    THEN InFlight(w) = {} =>
           \A k \in {k \in Key : k[1] = w} :
             /\ file[k] # NoFile => body[file[k]] = Empty
             /\ \A e \in Cached(k) : e.f = file[k]
    ELSE /\ file[<<w>>] # NoFile => body[file[<<w>>]].writers \subseteq {realm[w]}
         /\ \A e \in Cached(<<w>>) : e.f = file[<<w>>]

\* rest-api.md: "Deleting cascades: all apps, users, files, policies, audit entries under
\* the workspace vanish in one transaction".  What a workspace's database holds was
\* written under its present row.
VanishTogether ==
  \A w \in Workspace : realm[w] # 0 /\ file[<<w>>] # NoFile =>
    body[file[<<w>>]].writers \subseteq {realm[w]}

\* architecture.md: on start the server will "load hooks for each `(workspace, app)`".
HooksForEachApp ==
  [][up = "loading" /\ up' = "serving" =>
       \A w \in Workspace : realm[w] # 0 /\ file[<<w>>] # NoFile =>
         {w} \X body[file[<<w>>]].apps \subseteq hooks]_tVars
=============================================================================
