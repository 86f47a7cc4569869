------------------------------ MODULE Gateway ------------------------------
(***************************************************************************)
(* Who reaches which handler.  On top of Boot, whose setup gate, stored    *)
(* password and signing key everything here depends on: logins and         *)
(* refreshes that mint access tokens, workspaces that come, go and come    *)
(* back under the same id, and the guards of every endpoint.  An access    *)
(* token is believed by signature and expiry alone; what it says about     *)
(* roles and workspaces may be out of date by the time it is presented.    *)
(*                                                                         *)
(* A workspace's accounts and sessions are in a database of its own.  A    *)
(* cached pool keeps working on the database it opened, also when the      *)
(* folder has been removed, so databases are told apart by number.         *)
(*                                                                         *)
(* No login issues app-admin tokens, so that role is left out.  What a     *)
(* handler does behind its guard is the business of the other modules;     *)
(* the halves of pool_for and of a creation are apart in Tenants.          *)
(***************************************************************************)
EXTENDS Boot

CONSTANTS
  Ws,        \* workspace ids
  Ttl,       \* default_access_ttl, in ticks
  Leeway,    \* jsonwebtoken's default leeway
  Worlds     \* bounds: what a behaviour may still do, per kind of step

ASSUME GatewayConstants ==
  /\ Ttl \in Nat \ {0} /\ Leeway \in Nat
  /\ "nowhere" \notin Ws
  /\ Worlds \subseteq [{"mints", "ops", "ticks", "crash", "bad", "setups"} -> Nat]

Nowhere == "nowhere"
Role == {"MasterAdmin", "WorkspaceAdmin", "User"}

VARIABLES
  row,      \* workspace ids with a row in system.db
  at,       \* the database at workspace w's path, 0 without one
  cached,   \* the database a cached pool of w works on, 0 without one
  dbs,      \* databases ever made
  has,      \* <<d, x>>: database d holds an account of role x, or the row of the app
  sess,     \* refresh tokens, each with the database it is in
  removal,  \* DELETE handlers in flight
  gone,     \* when the workspace's last database went
  raced,    \* history: workspaces a request opened while a DELETE of them was in flight
  token,    \* access tokens in somebody's hands that have not expired
  mint,     \* login and refresh handlers about to issue a token
  now,
  left      \* what remains of the behaviour's bounds

files == <<at, cached, dbs, raced>>
tenants == <<row, files, has, sess, removal, gone>>
gateway == <<tenants, token, mint, now>>
gvars == <<vars, gateway, left>>

Nothing == [w \in Ws |-> 0]
NoToken == [role |-> "none", ws |-> Nowhere, home |-> Nowhere, db |-> 0, began |-> 0, exp |-> 0, key |-> NoKey]

GInit ==
  /\ Init
  /\ row = {} /\ at = Nothing /\ cached = Nothing /\ dbs = 0 /\ raced = {}
  /\ has = {} /\ sess = {} /\ removal = {} /\ gone = Nothing
  /\ token = {} /\ mint = {} /\ now = 0
  /\ left \in Worlds

Spend(what) == left[what] > 0 /\ left' = [left EXCEPT ![what] = @ - 1]

\* Requests get past the gate of a serving process.
Open == pc = "serving" /\ setup_gate("api")

-----------------------------------------------------------------------------
(* A workspace's database, as a request gets at it. *)

\* The cached pool's, else the one at the path, else a new and blank one.
Db(w) == CASE cached[w] # 0 -> cached[w]
           [] cached[w] = 0 /\ at[w] # 0 -> at[w]
           [] cached[w] = 0 /\ at[w] = 0 -> dbs + 1

Has(w, what) == <<Db(w), what>> \in has

\* Every request on a workspace ends up here, also those that then find nothing.
pool_for(w) ==
  /\ cached' = [cached EXCEPT ![w] = Db(w)]
  /\ IF Db(w) > dbs THEN dbs' = Db(w) /\ at' = [at EXCEPT ![w] = Db(w)] ELSE UNCHANGED <<dbs, at>>
  /\ raced' = IF \E x \in removal : x.w = w THEN raced \cup {w} ELSE raced

\* Requests on other workspaces push this one's pool out of the cache.
lru_evict(w) ==
  /\ Open /\ Spend("ops") /\ cached[w] # 0 /\ cached' = [cached EXCEPT ![w] = 0]
  /\ UNCHANGED <<vars, row, at, dbs, raced, has, sess, removal, gone, token, mint, now>>

-----------------------------------------------------------------------------
(* Tokens. *)

issue(m) == token' = token \cup {[role |-> m.role, ws |-> m.ws, home |-> m.home, db |-> m.db,
                                  began |-> m.began, exp |-> now + Ttl,
                                  key |-> held["master_jwt_rsa_pkcs8_v1"]]}

\* Signature and expiry; nothing is looked up.
verify(t) == t.key = held["master_jwt_rsa_pkcs8_v1"] /\ now <= t.exp + Leeway

\* The Authorization header, or else the rb_at cookie; a bad header is not replaced.
read_cookie(h, c) == IF h = NoToken THEN c ELSE h
extract_claims(t) == t # NoToken /\ verify(t)

ClaimsAdmin(t, w) == t.role = "WorkspaceAdmin" /\ t.ws = w
AdminAuth(t) == t.role # "User"
require_master(t) == AdminAuth(t) /\ t.role = "MasterAdmin"
require_workspace_access(t, w) ==
  AdminAuth(t) /\ (t.role = "MasterAdmin" \/ ClaimsAdmin(t, w))
require_app_access(t, w) ==
  AdminAuth(t) /\ (t.role = "MasterAdmin" \/ ClaimsAdmin(t, w))
is_admin_for_app(t, w) == t.role = "MasterAdmin" \/ ClaimsAdmin(t, w)
user_workspace(t) == IF t.role = "User" THEN t.ws ELSE Nowhere
require_user_in_workspace(t, w) == user_workspace(t) = w

require_workspace_exists(w) == w \in row
require_app_exists(w) == require_workspace_exists(w) /\ Has(w, "app")

\* Most handler files have a check of their own.
users_workspace_pool(w) == require_workspace_exists(w)
oauth_admin_workspace_pool(w) == require_workspace_exists(w)
apps_require_realm_exists(w) == w \in row
policies_require_realm_exists(w) == w \in row
policies_open_app_pool(w) == policies_require_realm_exists(w) /\ Has(w, "app")
collections_open_app_pool(w) == w \in row /\ Has(w, "app")
files_open_app_pool(w) == w \in row /\ Has(w, "app")
access_rules_open_app_and_check(w) == w \in row /\ Has(w, "app")
hooks_require_app_exists(w) == w \in row /\ Has(w, "app")

-----------------------------------------------------------------------------
(* Logins and refreshes: look up, and later store the session and sign.  The *)
(* other user logins (TOTP, e-mail code, OAuth) have user_login's shape, and  *)
(* a master admin's refresh gives it nothing its login does not.              *)

Begin(op, role, w, home, d) ==
  /\ Open /\ Spend("mints")
  /\ mint' = mint \cup {[op |-> op, role |-> role, ws |-> w, home |-> home, db |-> d, began |-> now]}
  /\ UNCHANGED <<vars, row, has, sess, removal, gone, token, now>>

master_admin_login ==
  master_admin_is_initialized /\ Begin("login", "MasterAdmin", Nowhere, Nowhere, 0) /\ UNCHANGED files

\* Unauthorized; the pool stays open.
Refuse == Open /\ Spend("ops") /\ UNCHANGED <<vars, row, has, sess, removal, gone, token, mint, now>>

\* The account is found in the workspace's own database, or it is not.
LogIn(role, w) ==
  /\ pool_for(w)
  /\ Refuse \/ (Has(w, role) /\ Begin("login", role, w, w, Db(w)))
\* An admin login does not ask system.db for the workspace, a user login does.
workspace_admin_login(w) == LogIn("WorkspaceAdmin", w)
user_login(w) == require_workspace_exists(w) /\ LogIn("User", w)

\* The session must be of the endpoint's kind and in the path's database; the claims
\* name the path's workspace.
find_active_refresh_token(s, role, w) == s \in sess /\ s.db = Db(w) /\ s.role = role
Refresh(s, role, w) ==
  find_active_refresh_token(s, role, w) /\ pool_for(w) /\ Begin("refresh", role, w, s.home, s.db)
workspace_admin_refresh(s, w) == Refresh(s, "WorkspaceAdmin", w)
user_refresh(s, w) == require_workspace_exists(w) /\ Refresh(s, "User", w)

\* The handler's pool is the one it opened, wherever that database is by now.
insert_refresh_token(m) ==
  sess' = IF m.home = Nowhere THEN sess ELSE sess \cup {[role |-> m.role, home |-> m.home, db |-> m.db]}

\* A login in a workspace is recorded there: the pool is opened once more.
record_audit(m) == IF m.op = "login" /\ m.home # Nowhere THEN pool_for(m.home) ELSE UNCHANGED files

\* All of it, or a storage error and no answer.
Mint(m) ==
  /\ pc = "serving" /\ m \in mint /\ mint' = mint \ {m}
  /\ \/ issue(m) /\ insert_refresh_token(m) /\ record_audit(m)
     \/ UNCHANGED <<token, sess, files>>
  /\ UNCHANGED <<vars, row, has, removal, gone, now, left>>

-----------------------------------------------------------------------------
(* Requests that change who may do what. *)

\* What a request may present, in its header, its cookie or both.
Claims == {read_cookie(h, c) : h, c \in token \cup {NoToken}}
Callers == {t \in Claims : Open /\ extract_claims(t)}

\* A request on w that leaves its database with what it holds now.
Change(w, facts) ==
  /\ pool_for(w) /\ has' = facts /\ Spend("ops")
  /\ UNCHANGED <<vars, sess, removal, gone, token, mint, now>>

\* POST /api/workspaces: a cached pool or a leftover database is adopted.
workspaces_create(w) ==
  /\ {t \in Callers : require_master(t)} # {} /\ w \notin row
  /\ row' = row \cup {w} /\ Change(w, has)

\* Faulty variant: the cached pool stays.
EvictNothing(w) == UNCHANGED cached

evict_pool(w) == cached' = [cached EXCEPT ![w] = 0]

\* DELETE /api/workspaces/:id finds the row and drops the pool,
workspaces_delete(w) ==
  /\ {t \in Callers : require_master(t)} # {} /\ w \in row /\ Spend("ops")
  /\ evict_pool(w) /\ removal' = removal \cup {[w |-> w, step |-> "row"]}
  /\ raced' = IF \E x \in removal : x.w = w THEN raced \cup {w} ELSE raced
  /\ UNCHANGED <<vars, row, at, dbs, has, sess, gone, token, mint, now>>

Removing(x, step) == pc = "serving" /\ x \in removal /\ x.step = step
\* then it deletes the row, which another request may have done already,
delete_realm_row(x) ==
  /\ Removing(x, "row") /\ row' = row \ {x.w}
  /\ removal' = (removal \ {x}) \cup (IF x.w \in row THEN {[x EXCEPT !.step = "folder"]} ELSE {})
  /\ UNCHANGED <<vars, files, has, sess, gone, token, mint, now, left>>
\* and then the folder with everything in it.
remove_dir_all(x) ==
  /\ Removing(x, "folder") /\ removal' = removal \ {x}
  /\ at' = [at EXCEPT ![x.w] = 0] /\ gone' = [gone EXCEPT ![x.w] = now]
  /\ UNCHANGED <<vars, row, cached, dbs, raced, has, sess, token, mint, now, left>>
\* A statement or the removal fails, or the connection drops: the rest stays as it is.
RemovalEnds(x) ==
  /\ pc = "serving" /\ x \in removal /\ removal' = removal \ {x}
  /\ UNCHANGED <<vars, row, files, has, sess, gone, token, mint, now, left>>

Add(w, what) == Change(w, has \cup {<<Db(w), what>>}) /\ UNCHANGED row

\* POST admins, master only; POST apps and DELETE apps/:app; POST auth/users/register, anybody.
workspace_admins_create(w) ==
  {t \in Callers : require_master(t)} # {} /\ require_workspace_exists(w) /\ Add(w, "WorkspaceAdmin")
apps_create(w) ==
  {t \in Callers : require_workspace_access(t, w)} # {} /\ require_workspace_exists(w) /\ Add(w, "app")
apps_delete(w) ==
  /\ {t \in Callers : require_workspace_access(t, w)} # {} /\ require_app_exists(w)
  /\ Change(w, has \ {<<Db(w), "app">>}) /\ UNCHANGED row
user_register(w) ==
  Open /\ require_workspace_exists(w) /\ Add(w, "User")

-----------------------------------------------------------------------------
(* The other endpoints, by their guards. *)

workspaces_list(t) == require_master(t)
workspaces_get(t, w) == require_master(t) /\ w \in row
workspaces_update(t, w) == require_master(t) /\ w \in row
policies_system_list(t) == require_master(t)
policies_system_get(t) == require_master(t)
policies_system_put(t) == require_master(t)
policies_system_delete(t) == require_master(t)
audit_system_list(t) == require_master(t)

SystemPath(t, w) ==
  \/ workspaces_list(t) \/ workspaces_get(t, w) \/ workspaces_update(t, w)
  \/ policies_system_list(t) \/ policies_system_get(t) \/ policies_system_put(t) \/ policies_system_delete(t)
  \/ audit_system_list(t)

\* Faulty variant: the extractor is there and the require_* call is not.
UsersListUnchecked(t, w) == AdminAuth(t) /\ users_workspace_pool(w)

users_list(t, w) == require_workspace_access(t, w) /\ users_workspace_pool(w)
users_get(t, w) == require_workspace_access(t, w) /\ users_workspace_pool(w)
users_verify(t, w) == require_workspace_access(t, w) /\ users_workspace_pool(w)
users_reset_totp(t, w) == require_workspace_access(t, w) /\ users_workspace_pool(w)
users_delete(t, w) == require_workspace_access(t, w) /\ users_workspace_pool(w)
oauth_admin_list(t, w) == require_workspace_access(t, w) /\ oauth_admin_workspace_pool(w)
oauth_admin_get(t, w) == require_workspace_access(t, w) /\ oauth_admin_workspace_pool(w)
oauth_admin_put(t, w) == require_workspace_access(t, w) /\ oauth_admin_workspace_pool(w)
oauth_admin_delete(t, w) == require_workspace_access(t, w) /\ oauth_admin_workspace_pool(w)
policies_workspace_list(t, w) == require_workspace_access(t, w) /\ policies_require_realm_exists(w)
policies_workspace_get(t, w) == require_workspace_access(t, w) /\ policies_require_realm_exists(w)
policies_workspace_put(t, w) == require_workspace_access(t, w) /\ policies_require_realm_exists(w)
policies_workspace_delete(t, w) == require_workspace_access(t, w) /\ policies_require_realm_exists(w)
audit_workspace_list(t, w) == require_workspace_access(t, w) /\ require_workspace_exists(w)
apps_list(t, w) == require_workspace_access(t, w) /\ apps_require_realm_exists(w)
apps_get(t, w) == require_workspace_access(t, w) /\ apps_require_realm_exists(w) /\ Has(w, "app")
apps_update(t, w) == require_workspace_access(t, w) /\ apps_require_realm_exists(w) /\ Has(w, "app")

WorkspacePath(t, w) ==
  \/ users_list(t, w) \/ users_get(t, w) \/ users_verify(t, w) \/ users_reset_totp(t, w) \/ users_delete(t, w)
  \/ oauth_admin_list(t, w) \/ oauth_admin_get(t, w) \/ oauth_admin_put(t, w) \/ oauth_admin_delete(t, w)
  \/ policies_workspace_list(t, w) \/ policies_workspace_get(t, w)
  \/ policies_workspace_put(t, w) \/ policies_workspace_delete(t, w)
  \/ audit_workspace_list(t, w) \/ apps_list(t, w) \/ apps_get(t, w) \/ apps_update(t, w)

collections_list(t, w) == require_app_access(t, w) /\ collections_open_app_pool(w)
collections_get(t, w) == require_app_access(t, w) /\ collections_open_app_pool(w)
collections_create(t, w) == require_app_access(t, w) /\ collections_open_app_pool(w)
collections_patch(t, w) == require_app_access(t, w) /\ collections_open_app_pool(w)
collections_delete(t, w) == require_app_access(t, w) /\ collections_open_app_pool(w)
access_rules_list(t, w) == require_app_access(t, w) /\ access_rules_open_app_and_check(w)
access_rules_put(t, w) == require_app_access(t, w) /\ access_rules_open_app_and_check(w)
access_rules_delete(t, w) == require_app_access(t, w) /\ access_rules_open_app_and_check(w)
files_list(t, w) == require_app_access(t, w) /\ files_open_app_pool(w)
files_upload(t, w) == require_app_access(t, w) /\ files_open_app_pool(w)
files_download(t, w) == require_app_access(t, w) /\ files_open_app_pool(w)
files_meta(t, w) == require_app_access(t, w) /\ files_open_app_pool(w)
files_delete(t, w) == require_app_access(t, w) /\ files_open_app_pool(w)
policies_app_list(t, w) == require_app_access(t, w) /\ policies_open_app_pool(w)
policies_app_get(t, w) == require_app_access(t, w) /\ policies_open_app_pool(w)
\* app_put looks the app up without asking for the workspace's row.
policies_app_put(t, w) == require_app_access(t, w) /\ Has(w, "app")
policies_app_delete(t, w) == require_app_access(t, w) /\ policies_open_app_pool(w)
audit_app_list(t, w) == require_app_access(t, w) /\ require_app_exists(w)
hooks_list(t, w) == require_app_access(t, w) /\ hooks_require_app_exists(w)
hooks_get(t, w) == require_app_access(t, w) /\ hooks_require_app_exists(w)
hooks_put(t, w) == require_app_access(t, w) /\ hooks_require_app_exists(w)
hooks_delete(t, w) == require_app_access(t, w) /\ hooks_require_app_exists(w)
hooks_reload(t, w) == require_app_access(t, w) /\ hooks_require_app_exists(w)

AppPath(t, w) ==
  \/ collections_list(t, w) \/ collections_get(t, w) \/ collections_create(t, w)
  \/ collections_patch(t, w) \/ collections_delete(t, w)
  \/ access_rules_list(t, w) \/ access_rules_put(t, w) \/ access_rules_delete(t, w)
  \/ files_list(t, w) \/ files_upload(t, w) \/ files_download(t, w) \/ files_meta(t, w) \/ files_delete(t, w)
  \/ policies_app_list(t, w) \/ policies_app_get(t, w) \/ policies_app_put(t, w) \/ policies_app_delete(t, w)
  \/ audit_app_list(t, w)
  \/ hooks_list(t, w) \/ hooks_get(t, w) \/ hooks_put(t, w) \/ hooks_delete(t, w) \/ hooks_reload(t, w)

\* Records and their events, over HTTP or a socket: admins, and users under the rules.
records(t, w) == require_app_exists(w) /\ (is_admin_for_app(t, w) \/ user_workspace(t) = w)
record_events(t, w) == require_app_exists(w) /\ (is_admin_for_app(t, w) \/ user_workspace(t) = w)
record_events_ws(t, w) == require_app_exists(w) /\ (is_admin_for_app(t, w) \/ user_workspace(t) = w)
PrincipalPath(t, w) == records(t, w) \/ record_events(t, w) \/ record_events_ws(t, w)

\* A user about itself.
totp_enroll(t, w) == require_user_in_workspace(t, w) /\ require_workspace_exists(w)
totp_confirm(t, w) == require_user_in_workspace(t, w) /\ require_workspace_exists(w)
totp_disable(t, w) == require_user_in_workspace(t, w) /\ require_workspace_exists(w)
verify_email_request(t, w) == require_user_in_workspace(t, w) /\ require_workspace_exists(w)
UserPath(t, w) == totp_enroll(t, w) \/ totp_confirm(t, w) \/ totp_disable(t, w) \/ verify_email_request(t, w)

\* The routes, by the scope their paths name.
Path == {"system", "workspace", "app", "principal", "user"}
build_router(path, t, w) ==
  CASE path = "system" -> SystemPath(t, w)
    [] path = "workspace" -> WorkspacePath(t, w)
    [] path = "app" -> AppPath(t, w)
    [] path = "principal" -> PrincipalPath(t, w)
    [] path = "user" -> UserPath(t, w)

-----------------------------------------------------------------------------

\* Time; what has expired for good is forgotten.
Tick ==
  /\ Spend("ticks") /\ now' = now + 1
  /\ token' = {t \in token : now + 1 <= t.exp + Leeway}
  /\ UNCHANGED <<vars, tenants, mint>>

\* Boot's own steps.
Booting ==
  /\ Main /\ UNCHANGED gateway
  /\ IF badBoots' > badBoots THEN Spend("bad") ELSE UNCHANGED left
Crashing ==
  /\ Crash /\ Spend("crash") /\ mint' = {} /\ removal' = {} /\ cached' = Nothing
  /\ UNCHANGED <<row, at, dbs, raced, has, sess, gone, token, now>>
SettingUp(r) ==
  /\ Setup(r) /\ UNCHANGED gateway
  /\ IF req[r].pc = "idle" THEN Spend("setups") ELSE UNCHANGED left

GNext ==
  \/ Booting \/ Crashing \/ Tick
  \/ \E r \in Req : SettingUp(r)
  \/ master_admin_login
  \/ \E w \in Ws :
       \/ workspace_admin_login(w) \/ user_login(w) \/ user_register(w)
       \/ \E s \in sess : workspace_admin_refresh(s, w) \/ user_refresh(s, w)
       \/ workspaces_create(w) \/ workspaces_delete(w) \/ workspace_admins_create(w)
       \/ apps_create(w) \/ apps_delete(w) \/ lru_evict(w)
  \/ \E m \in mint : Mint(m)
  \/ \E x \in removal : delete_realm_row(x) \/ remove_dir_all(x) \/ RemovalEnds(x)

\* As in Boot: the process is restarted and keeps running; nobody has to send a request.
GSpec == GInit /\ [][GNext]_gvars /\ WF_gvars(Booting)

-----------------------------------------------------------------------------

\* Who the caller really is, not what its token claims.
Covers(path, t, w) ==
  CASE path = "system" -> t.role = "MasterAdmin"
    [] path \in {"workspace", "app"} -> t.role = "MasterAdmin" \/ (t.role = "WorkspaceAdmin" /\ t.home = w)
    [] path = "principal" -> t.role = "MasterAdmin" \/ t.home = w
    [] path = "user" -> t.role = "User" /\ t.home = w

\* No request that can be made now reaches a handler before setup or outside its caller's
\* scope: system paths are for master admins, a workspace's paths for its own admins, user
\* paths for its own users - where "own" is the workspace the session was opened in, over
\* logins, refreshes on any path, restarts, and workspaces deleted and re-created.
ScopesHold ==
  \A path \in Path, w \in Ws : \A t \in Callers :
    build_router(path, t, w) => master_admin_is_initialized /\ Covers(path, t, w)

\* Access tokens are not revoked when their workspace goes.  A token of a database that is
\* no longer there (a re-created workspace accepts it, the claims match) comes from a login or
\* refresh that had begun before the removal: nothing a predecessor's people still hold can
\* be refreshed, so they are out when the last such token expires.  Excepted are workspaces
\* that some request opened while a DELETE of them was in flight: a login or refresh between
\* the eviction and the removal caches a pool of the doomed database again, and as long as
\* that pool stays cached the predecessor's sessions go on, also after a re-creation.  And a
\* removal that fails or never comes leaves the database, and who is in it, to a successor.
PredecessorsFade ==
  \A t \in token : t.role # "MasterAdmin" /\ t.home \notin raced /\ t.db # at[t.home] =>
    t.began <= gone[t.home]
=============================================================================
