---------------------------- MODULE PolicyCascade ----------------------------
(***************************************************************************)
(* One policy field at its three levels: the `policies` tables of the       *)
(* system, of each workspace and of each app (rustbase-db/policies.rs), the *)
(* endpoints that set and delete it (rustbase-api/policies.rs) and the      *)
(* clamping cascade below a PUT (rustbase-db/policy_engine.rs).             *)
(*                                                                         *)
(* The levels live in different database files, so there is no transaction  *)
(* around a PUT: every read and every upsert is a step of its own, and a    *)
(* request may end between any two of them.                                 *)
(***************************************************************************)
EXTENDS PolicySpec

CONSTANTS
  Req,        \* concurrently running PUT requests
  Workspace,  \* the realms the cascade visits: all but the built-in "master"
  App,
  Home,       \* Home[a]: the workspace of app a
  Master,     \* the system level
  Families    \* the sets of specs admins send: one kind of knob each

ASSUME PolicyAssumption ==
  /\ Home \in [App -> Workspace]
  /\ Master \notin Workspace \cup App
  /\ Workspace \cap App = {}

Node == {Master} \cup Workspace \cup App

AppsOf(w) == {a \in App : Home[a] = w}

VARIABLES
  pol,     \* pol[n]: the spec stored for the field at level n
  family,  \* the family the field belongs to; it never changes
  req,     \* what each request remembers across its awaits
  torn     \* history: a cascade was cut short and no master PUT completed since

vars == <<pol, family, req, torn>>

\* spec: what is being put.  top: the master spec app_put has read.  whole: a
\* master PUT.  wss, apps: still to be swept.  bound: workspace_current.  node,
\* after: the level to be written next and its new spec.
Idle == [pc |-> "idle", whole |-> FALSE, spec |-> NoPolicy, top |-> NoPolicy,
         wss |-> {}, apps |-> {}, bound |-> NoPolicy, node |-> Master, after |-> NoPolicy]

Request(specs) ==
  [pc : {"idle", "chain", "put", "sweep", "clamp"}, whole : BOOLEAN,
   spec : specs, top : specs, wss : SUBSET Workspace, apps : SUBSET App,
   bound : specs, node : Node, after : specs]

\* Stored specs, pending clamps included, stay within the field's family.
TypeOK ==
  LET specs == family \cup {NoPolicy}
  IN /\ family \in Families
     /\ pol \in [Node -> specs]
     /\ req \in [Req -> Request(specs)]
     /\ torn \in BOOLEAN

Init ==
  /\ pol = [n \in Node |-> NoPolicy]
  /\ family \in Families
  /\ req = [r \in Req |-> Idle]
  /\ torn = FALSE

\* The request goes on as h, or ends if h has nothing left to sweep; a master
\* PUT that ends has passed over every level.
Proceed(r, h) ==
  IF h.pc = "sweep" /\ h.wss = {} /\ h.apps = {}
    THEN /\ req' = [req EXCEPT ![r] = Idle]
         /\ torn' = (torn /\ ~h.whole)
    ELSE /\ req' = [req EXCEPT ![r] = h]
         /\ UNCHANGED torn

-----------------------------------------------------------------------------
(* PUT and DELETE of the field *)

\* No bound above the master: the upsert comes at once, then the cascade.
system_put(r, s) ==
  /\ req[r] = Idle
  /\ pol' = [pol EXCEPT ![Master] = s]
  /\ Proceed(r, [Idle EXCEPT !.pc = "sweep", !.whole = TRUE, !.spec = s, !.wss = Workspace])
  /\ UNCHANGED family

\* Read the master spec and validate; a violation answers an error.
workspace_put(r, w, s) ==
  /\ req[r] = Idle
  /\ validate_chain(<<pol[Master], s>>)
  /\ req' = [req EXCEPT ![r] = [Idle EXCEPT !.pc = "put", !.spec = s, !.bound = s,
                                            !.apps = AppsOf(w), !.node = w, !.after = s]]
  /\ UNCHANGED <<pol, family, torn>>

\* Faulty variant: the app is checked against the master only.
AppChainWithoutWorkspace(r) ==
  /\ req[r].pc = "chain"
  /\ req' = [req EXCEPT ![r] =
       IF validate_chain(<<@.top, @.spec>>) THEN [@ EXCEPT !.pc = "put"] ELSE Idle]
  /\ UNCHANGED <<pol, family, torn>>

\* app_put reads the master spec first ...
app_put(r, a, s) ==
  /\ req[r] = Idle
  /\ req' = [req EXCEPT ![r] = [Idle EXCEPT !.pc = "chain", !.spec = s, !.top = pol[Master],
                                            !.node = a, !.after = s]]
  /\ UNCHANGED <<pol, family, torn>>

\* ... then the workspace's, and validates the chain of the three.
AppChain(r) ==
  /\ req[r].pc = "chain"
  /\ req' = [req EXCEPT ![r] =
       IF validate_chain(<<@.top, pol[Home[@.node]], @.spec>>)
         THEN [@ EXCEPT !.pc = "put"]
         ELSE Idle]
  /\ UNCHANGED <<pol, family, torn>>

\* Store the validated or the clamped spec and go on with what is left to sweep.
upsert_policy(r) ==
  /\ req[r].pc \in {"put", "clamp"}
  /\ pol' = [pol EXCEPT ![req[r].node] = req[r].after]
  /\ Proceed(r, [req[r] EXCEPT !.pc = "sweep"])
  /\ UNCHANGED family

\* system_delete, workspace_delete, app_delete: one statement, no cascade.
delete_policy(n) ==
  /\ pol[n] # NoPolicy
  /\ pol' = [pol EXCEPT ![n] = NoPolicy]
  /\ UNCHANGED <<family, req, torn>>

-----------------------------------------------------------------------------
(* The cascade *)

\* Faulty variant: the bound of the apps is taken before the workspace is clamped.
CascadeBoundBeforeClamp(r, w) ==
  /\ req[r].pc = "sweep"
  /\ req[r].apps = {}
  /\ w \in req[r].wss
  /\ LET h == [req[r] EXCEPT !.wss = @ \ {w}, !.apps = AppsOf(w), !.node = w,
                             !.bound = IF pol[w] = NoPolicy THEN req[r].spec ELSE pol[w]]
     IN Proceed(r, IF pol[w] = NoPolicy \/ allows(h.spec, pol[w]) THEN h
                   ELSE [h EXCEPT !.pc = "clamp", !.after = clamp(h.spec, pol[w])])
  /\ UNCHANGED <<pol, family>>

\* cascade_master_to_realms_and_apps takes the next workspace.  Its apps will be
\* held to what it stores (clamped first if it does not fit), or to the master's
\* spec if it stores nothing.
cascade_master_to_realms_and_apps(r, w) ==
  /\ req[r].pc = "sweep"
  /\ req[r].apps = {}
  /\ w \in req[r].wss
  /\ LET h == [req[r] EXCEPT !.wss = @ \ {w}, !.apps = AppsOf(w), !.node = w]
         after == clamp(h.spec, pol[w])
     IN Proceed(r, IF pol[w] = NoPolicy THEN [h EXCEPT !.bound = h.spec]
                   ELSE IF allows(h.spec, pol[w]) THEN [h EXCEPT !.bound = pol[w]]
                   ELSE [h EXCEPT !.pc = "clamp", !.bound = after, !.after = after])
  /\ UNCHANGED <<pol, family>>

\* The app loop of both cascades: read one app's spec, clamp it if it does not
\* fit the bound.
cascade_realm_to_apps(r, a) ==
  /\ req[r].pc = "sweep"
  /\ a \in req[r].apps
  /\ LET h == [req[r] EXCEPT !.apps = @ \ {a}, !.node = a]
     IN Proceed(r, IF pol[a] = NoPolicy \/ allows(h.bound, pol[a]) THEN h
                   ELSE [h EXCEPT !.pc = "clamp", !.after = clamp(h.bound, pol[a])])
  /\ UNCHANGED <<pol, family>>

\* A failed statement, a dropped connection or a crash ends the request; what it
\* has stored stays.
Abandon(r) ==
  /\ req[r] # Idle
  /\ req' = [req EXCEPT ![r] = Idle]
  /\ torn' = (torn \/ req[r].pc \in {"sweep", "clamp"})
  /\ UNCHANGED <<pol, family>>

Next ==
  \/ \E r \in Req :
       \/ \E s \in family :
            \/ system_put(r, s)
            \/ \E w \in Workspace : workspace_put(r, w, s)
            \/ \E a \in App : app_put(r, a, s)
       \/ AppChain(r)
       \/ upsert_policy(r)
       \/ \E w \in Workspace : cascade_master_to_realms_and_apps(r, w)
       \/ \E a \in App : cascade_realm_to_apps(r, a)
       \/ Abandon(r)
  \/ \E n \in Node : delete_policy(n)

Spec == Init /\ [][Next]_vars

-----------------------------------------------------------------------------
(* Properties *)

AtRest == \A r \in Req : req[r] = Idle

\* Every stored value is within the bound of the nearest level above that sets
\* one (config.rs: "rejects values outside the parent's bound", and clamps them
\* when a parent tightens), whenever no PUT is running and no cascade is torn:
\* deletes at any moment, reruns after a crash and chains with gaps included.
ChainHolds ==
  (AtRest /\ ~torn) =>
    /\ \A w \in Workspace : validate_chain(<<pol[Master], pol[w]>>)
    /\ \A a \in App : validate_chain(<<pol[Master], pol[Home[a]], pol[a]>>)

\* A completed master PUT leaves nothing to clamp: each workspace and app is
\* within the spec just put, however torn the levels were before it.
MasterPutSettles ==
  [][\A r \in Req :
       (req[r].whole /\ req'[r] = Idle /\ ~torn')
         => \A n \in Workspace \cup App : pol'[n] = NoPolicy \/ allows(req[r].spec, pol'[n])]_vars

\* "Locked: Children must use this value" (TogglePolicy): no toggle below a
\* locked one has the other value.
LockedReachesApps ==
  (AtRest /\ ~torn /\ pol[Master].kind = "toggle" /\ pol[Master].locked) =>
    \A n \in Workspace \cup App : pol[n] # NoPolicy => pol[n].value = pol[Master].value
=============================================================================
