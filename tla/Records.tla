------------------------------ MODULE Records ------------------------------
(***************************************************************************)
(* The data of one app: collections and the tables behind them, access     *)
(* rules, record CRUD, and uploaded files with their blobs.  Nothing here  *)
(* uses a transaction: every SQL statement, ALTER TABLE and object-store   *)
(* call is a step of its own, other requests run in between, and there the *)
(* statement may fail, the connection drop or the process die.  Of a       *)
(* record's fields only `owner`, the one an access rule compares with the  *)
(* caller, has its value modelled.                                         *)
(***************************************************************************)
EXTENDS Naturals, FiniteSets

CONSTANTS
  Req,        \* concurrent requests
  Coll,       \* collection ids an admin may create
  Internal,   \* tables of data.db that are no collections (RESERVED_COLLECTION_IDS)
  Field,      \* field names
  Owner,      \* the field an ownership rule compares
  Unique,     \* fields the schemas declare `unique`
  Rec,        \* record ids
  User,       \* end users of the workspace
  File,       \* file ids
  Worlds      \* bounds: how many requests of each kind, and crashes, a behaviour may have

ASSUME RecordConstants ==
  /\ Owner \in Field /\ Unique \subseteq Field /\ Coll \cap Internal = {}
  /\ {"_collections", "_access_rules", "_files"} \subseteq Internal
  /\ Worlds \subseteq [{"ddl", "rules", "records", "hook", "files", "crash"} -> Nat]

Name == Coll \cup Internal
Catalog == "_collections"
RuleTable == "_access_rules"
FileTable == "_files"
Admin == "admin"
Hook == "hook"                  \* the app's own JavaScript, through $app.records
Principal == User \cup {Admin}
Null == "null"
Absent == "absent"
Verb == {"list", "view", "create", "update", "delete"}

VARIABLES
  table,    \* sqlite: [there, cols, row], the table named after each id
  meta,     \* _collections: [there, fields]
  rule,     \* _access_rules: "none" (no row), "null", "open" or "own"
  file,     \* _files: "none", "row" or "gone"
  blob,     \* the object store
  req,      \* handlers in flight
  left,     \* what remains of the behaviour's bounds
  torn,     \* history: ids whose DDL overlapped, failed halfway or was cut short
  born,     \* history: verbs whose rule was put since the meta row was inserted
  access,   \* history: undisturbed record accesses were all within the rules
  uploaded  \* history: uploads answered 201 that nobody asked to delete

data == <<table, meta, rule, file, blob>>
vars == <<data, req, left, torn, born, access, uploaded>>

NoTable == [there |-> FALSE, cols |-> {}, row |-> [i \in Rec |-> Absent]]
NoMeta == [there |-> FALSE, fields |-> {}]
Idle == [pc |-> "idle", n |-> Absent, who |-> Absent, verb |-> Absent, id |-> Absent,
         old |-> {}, new |-> {}, add |-> {}, drop |-> {}, val |-> Absent, rule |-> "none",
         dirty |-> FALSE]

Init ==
  /\ table = [n \in Name |-> [NoTable EXCEPT !.there = n \in Internal]]
  /\ meta = [n \in Coll |-> NoMeta]
  /\ rule = [n \in Coll |-> [v \in Verb |-> "none"]]
  /\ file = [f \in File |-> "none"] /\ blob = {}
  /\ req = [r \in Req |-> Idle]
  /\ left \in Worlds
  /\ torn = {} /\ born = [n \in Coll |-> {}] /\ access = TRUE /\ uploaded = {}

-----------------------------------------------------------------------------
(* Request plumbing. *)

At(r, pc) == req[r].pc = pc
End(r) == req' = [req EXCEPT ![r] = Idle]
Go(r, pc) == req' = [req EXCEPT ![r].pc = pc]
Spend(kind) == left[kind] > 0 /\ left' = [left EXCEPT ![kind] = @ - 1]
Begin(r, kind, q) == At(r, "idle") /\ Spend(kind) /\ req' = [req EXCEPT ![r] = q]

\* DDL requests on n, other than r.
Working(n) == {q \in Req : req[q].n = n /\ req[q].pc \in {"mkTable", "mkMeta", "alter", "rmMeta"}}
Overlap(r, n) == IF Working(n) \ {r} # {} THEN torn \cup {n} ELSE torn

\* Every record request on N in flight has lost the ground it was authorised on.
Disturb(N, q) == [r \in Req |-> IF q[r].n \in N THEN [q[r] EXCEPT !.dirty = TRUE] ELSE q[r]]

\* DDL that has done some of its statements and not all of them.
Halfway(q) ==
  \/ q.pc \in {"mkMeta", "rmMeta"}
  \/ q.pc = "alter" /\ ~(q.new \ q.old = q.add /\ q.old \ q.new = q.drop)

\* The request ends where it is; what it did stays.
Cut(r) == End(r) /\ torn' = IF Halfway(req[r]) THEN torn \cup {req[r].n} ELSE torn

\* Its next statement fails, or its connection drops.
Abandon(r) == ~At(r, "idle") /\ Cut(r) /\ UNCHANGED <<data, left, born, access, uploaded>>

-----------------------------------------------------------------------------
(* Collections. *)

is_valid_ident(n) == n \in Name
Reserved(n) == n \in Internal
validate_schema(n, S) == is_valid_ident(n) /\ S \subseteq Field
find_collection(n) == n \in Coll /\ meta[n].there

\* CREATE TABLE without IF NOT EXISTS, one column per field.
columns_sql(S) == [NoTable EXCEPT !.there = TRUE, !.cols = S]
create_table(n, S) == ~table[n].there /\ table' = [table EXCEPT ![n] = columns_sql(S)]

\* INSERT INTO _collections; the primary key refuses a second row.
insert_meta(n, S) == table[Catalog].there /\ ~meta[n].there /\ meta' = [meta EXCEPT ![n] = [there |-> TRUE, fields |-> S]]

\* POST collections: 409 when the meta row is there,
CreateFind(r, n, S) ==
  /\ table[Catalog].there /\ ~find_collection(n) /\ validate_schema(n, S) /\ ~Reserved(n)
  /\ Begin(r, "ddl", [Idle EXCEPT !.pc = "mkTable", !.n = n, !.new = S])
  /\ torn' = Overlap(r, n)
  /\ UNCHANGED <<data, born, access, uploaded>>

\* then the table: one that is there already is a 500,
CreateTable(r) ==
  LET n == req[r].n IN
  /\ At(r, "mkTable")
  /\ \/ table[n].there /\ End(r) /\ UNCHANGED table
     \/ create_table(n, req[r].new) /\ Go(r, "mkMeta")
  /\ UNCHANGED <<meta, rule, file, blob, left, torn, born, access, uploaded>>

\* and the meta row.  When the INSERT fails the clean-up DROP is composed and never run.
CreateMeta(r) ==
  LET n == req[r].n IN
  /\ At(r, "mkMeta")
  /\ \/ /\ insert_meta(n, req[r].new) /\ born' = [born EXCEPT ![n] = {}]
        /\ req' = Disturb({n}, [req EXCEPT ![r] = Idle]) /\ UNCHANGED torn
     \/ (meta[n].there \/ ~table[Catalog].there) /\ Cut(r) /\ UNCHANGED <<meta, born>>
  /\ UNCHANGED <<table, rule, file, blob, left, access, uploaded>>

\* patch_collection reads the row and computes the difference; a drop needs `force`.
PatchFind(r, n, S, force) ==
  LET old == meta[n].fields IN
  /\ validate_schema(n, S) /\ find_collection(n) /\ (old \ S = {} \/ force)
  /\ Begin(r, "ddl", [Idle EXCEPT !.pc = "alter", !.n = n, !.old = old, !.new = S,
                           !.add = S \ old, !.drop = old \ S])
  /\ torn' = Overlap(r, n)
  /\ UNCHANGED <<data, born, access, uploaded>>

\* SQLite refuses ADD COLUMN of a UNIQUE or an existing column ...
add_column_ok(t, f) == t.there /\ f \notin Unique /\ f \notin t.cols
\* ... and DROP COLUMN of a UNIQUE or a missing one.
drop_column_ok(t, f) == t.there /\ f \notin Unique /\ f \in t.cols

\* One ALTER TABLE .. ADD COLUMN per new field; the first that fails is the last,
PatchAdd(r) ==
  LET n == req[r].n IN
  /\ At(r, "alter")
  /\ \E f \in req[r].add :
       \/ ~add_column_ok(table[n], f) /\ Cut(r) /\ UNCHANGED table
       \/ /\ add_column_ok(table[n], f)
          /\ table' = [table EXCEPT ![n].cols = @ \cup {f}]
          /\ req' = [req EXCEPT ![r].add = @ \ {f}] /\ UNCHANGED torn
  /\ UNCHANGED <<meta, rule, file, blob, left, born, access, uploaded>>

\* then one .. DROP COLUMN per removed one, data included,
PatchDrop(r) ==
  LET n == req[r].n IN
  /\ At(r, "alter") /\ req[r].add = {}
  /\ \E f \in req[r].drop :
       \/ ~drop_column_ok(table[n], f) /\ Cut(r) /\ UNCHANGED table
       \/ /\ drop_column_ok(table[n], f)
          /\ table' = [table EXCEPT ![n].cols = @ \ {f},
                ![n].row = [i \in Rec |-> IF f = Owner /\ @[i] # Absent THEN Null ELSE @[i]]]
          /\ req' = Disturb({n}, [req EXCEPT ![r].drop = @ \ {f}]) /\ UNCHANGED torn
  /\ UNCHANGED <<meta, rule, file, blob, left, born, access, uploaded>>

\* Faulty variant: an early return when nothing is left to add.
MetaOnlyOnAdd(r) ==
  LET n == req[r].n IN
  /\ At(r, "alter") /\ req[r].add = {} /\ req[r].drop = {} /\ End(r)
  /\ meta' = [meta EXCEPT ![n].fields = IF @ \subseteq req[r].new THEN req[r].new ELSE @]
  /\ UNCHANGED <<table, rule, file, blob, left, torn, born, access, uploaded>>

\* and finally the meta row, if it is still there.
PatchMeta(r) ==
  LET n == req[r].n IN
  /\ At(r, "alter") /\ req[r].add = {} /\ req[r].drop = {}
  /\ \/ /\ table[Catalog].there /\ End(r) /\ UNCHANGED torn
        /\ meta' = IF meta[n].there THEN [meta EXCEPT ![n].fields = req[r].new] ELSE meta
     \/ ~table[Catalog].there /\ Cut(r) /\ UNCHANGED meta
  /\ UNCHANGED <<table, rule, file, blob, left, born, access, uploaded>>

\* DROP TABLE IF EXISTS, whatever table has the name.  The rows of an internal one are
\* meta rows, with the rules that refer to them, rules, or files.
drop_table(n) ==
  /\ table' = [table EXCEPT ![n] = NoTable]
  /\ meta' = IF n = Catalog THEN [c \in Coll |-> NoMeta] ELSE meta
  /\ rule' = IF n \in {Catalog, RuleTable} THEN [c \in Coll |-> [v \in Verb |-> "none"]] ELSE rule
  /\ file' = IF n = FileTable THEN [f \in File |-> IF file[f] = "row" THEN "gone" ELSE file[f]] ELSE file

\* Faulty variant: rules keep living without their collection.
DeleteMetaOnly(n) ==
  meta' = [c \in Coll |-> IF c = n THEN NoMeta ELSE meta[c]] /\ UNCHANGED rule

\* DELETE FROM _collections, if the row is there; its rules go by ON DELETE CASCADE.
delete_meta(n) ==
  /\ meta' = [c \in Coll |-> IF c = n THEN NoMeta ELSE meta[c]]
  /\ rule' = [c \in Coll |-> IF c = n THEN [v \in Verb |-> "none"] ELSE rule[c]]

\* DELETE collections/:name drops the table first,
DeleteDrop(r, n) ==
  /\ is_valid_ident(n) /\ drop_table(n)
  /\ At(r, "idle") /\ Spend("ddl")
  /\ req' = Disturb(IF n \in {Catalog, RuleTable} THEN Coll ELSE {},
                    [req EXCEPT ![r] = [Idle EXCEPT !.pc = "rmMeta", !.n = n]])
  /\ torn' = CASE n = Catalog -> torn \cup Coll
             [] n # Catalog /\ Working(n) = {} -> torn \ {n}
             [] n # Catalog /\ Working(n) # {} -> torn \cup {n}
  /\ uploaded' = IF n = FileTable THEN {} ELSE uploaded
  /\ UNCHANGED <<blob, born, access>>

\* and only then finds out whether there is such a collection (204 or 404).
DeleteMeta(r) ==
  LET n == req[r].n IN
  /\ At(r, "rmMeta")
  /\ \/ /\ table[Catalog].there /\ delete_meta(n)
        /\ req' = Disturb({n}, [req EXCEPT ![r] = Idle]) /\ UNCHANGED torn
     \/ ~table[Catalog].there /\ Cut(r) /\ UNCHANGED <<meta, rule>>
  /\ UNCHANGED <<table, file, blob, left, born, access, uploaded>>

-----------------------------------------------------------------------------
(* Access rules. *)

get_rule(n, v) == rule[n][v]

\* No row (or no table) and NULL mean admins only, "" and "true" any user, the rest is a filter.
classify_rule(f) == CASE f \in {"none", "null"} -> "deny" [] f = "open" -> "allow" [] f = "own" -> "evaluate"

\* PUT access_rules/:action looks the collection up,
PutRuleFind(r, n, v, f) ==
  /\ find_collection(n)
  /\ Begin(r, "rules", [Idle EXCEPT !.pc = "setRule", !.n = n, !.verb = v, !.rule = f])
  /\ UNCHANGED <<data, torn, born, access, uploaded>>

\* Upsert; the foreign key refuses a rule without a collection.
set_rule(n, v, f) == rule' = [rule EXCEPT ![n][v] = f]

\* and upserts the rule, if the collection and the table are still there.
PutRule(r) ==
  LET n == req[r].n  v == req[r].verb IN
  /\ At(r, "setRule")
  /\ IF find_collection(n) /\ table[RuleTable].there
     THEN /\ set_rule(n, v, req[r].rule)
          /\ born' = [born EXCEPT ![n] = @ \cup {v}]
          /\ req' = Disturb({n}, [req EXCEPT ![r] = Idle])
     ELSE UNCHANGED <<rule, born>> /\ End(r)
  /\ UNCHANGED <<table, meta, file, blob, left, torn, access, uploaded>>

\* DELETE access_rules/:action removes the row.
DeleteRule(n, v) ==
  /\ Spend("rules")
  /\ find_collection(n) /\ rule[n][v] # "none"
  /\ rule' = [rule EXCEPT ![n][v] = "none"]
  /\ req' = Disturb({n}, req)
  /\ UNCHANGED <<table, meta, file, blob, torn, born, access, uploaded>>

-----------------------------------------------------------------------------
(* Records. *)

\* The caller passes the rule f on a row with this owner.
Passes(who, f, owner) ==
  \/ who \in {Admin, Hook}
  \/ classify_rule(f) = "allow"
  \/ classify_rule(f) = "evaluate" /\ owner = who

\* open_app_and_schema takes a snapshot of the schema; val is the `owner` the body carries.
OpenSchema(r, n, who, v, i, val) ==
  /\ find_collection(n)
  /\ Begin(r, "records", [Idle EXCEPT !.pc = "authorize", !.n = n, !.who = who, !.verb = v, !.id = i,
                           !.val = val, !.old = meta[n].fields])
  /\ UNCHANGED <<data, torn, born, access, uploaded>>

\* authorize_record_action: admins pass; a template rule becomes a filter over declared
\* fields, and there is nothing for it to filter on a create.
authorize_record_action(r) ==
  LET q == req[r]
      f == get_rule(q.n, q.verb)
      denied == q.who # Admin /\ (\/ classify_rule(f) = "deny"
                                  \/ classify_rule(f) = "evaluate" /\ Owner \notin q.old
                                  \/ classify_rule(f) = "evaluate" /\ q.verb = "create") IN
  /\ At(r, "authorize")
  /\ req' = [req EXCEPT ![r] = IF denied THEN Idle
       ELSE [@ EXCEPT !.pc = IF q.verb = "create" THEN "write" ELSE "lookup", !.rule = f, !.dirty = FALSE]]
  /\ UNCHANGED <<data, left, torn, born, access, uploaded>>

\* Faulty variant: the rule's filter is not ANDed in.
ListUnfiltered(q, ids) == {i \in ids : table[q.n].there /\ table[q.n].row[i] # Absent}

\* SELECT of the rows among ids that pass the rule's filter.
list_records(q, ids) ==
  {i \in ids : table[q.n].there /\ table[q.n].row[i] # Absent /\ Passes(q.who, q.rule, table[q.n].row[i])}

\* Request r touches rows of these owners: do the rules in force now allow it?
Record(r, owners) ==
  access' = \/ req[r].dirty /\ access
            \/ access /\ \A o \in owners : Passes(req[r].who, get_rule(req[r].n, req[r].verb), o)

Owners(q, ids) == {table[q.n].row[i] : i \in ids}

\* GET records: the page of rows the rule lets through.
List(r) ==
  LET q == req[r] IN
  /\ At(r, "lookup") /\ q.verb = "list" /\ End(r)
  /\ Record(r, Owners(q, list_records(q, Rec)))
  /\ UNCHANGED <<data, left, torn, born, uploaded>>

\* GET records/:id.
Get(r) ==
  LET q == req[r] IN
  /\ At(r, "lookup") /\ q.verb = "view" /\ End(r)
  /\ Record(r, Owners(q, list_records(q, {q.id})))
  /\ UNCHANGED <<data, left, torn, born, uploaded>>

\* PATCH and DELETE fetch the row under the rule for the before-hook: 404 without one.
Fetch(r, verb) ==
  LET q == req[r] IN
  /\ At(r, "lookup") /\ q.verb = verb
  /\ IF list_records(q, {q.id}) = {} THEN End(r) ELSE Go(r, "write")
  /\ UNCHANGED <<data, left, torn, born, access, uploaded>>
UpdateFetch(r) == Fetch(r, "update")
DeleteFetch(r) == Fetch(r, "delete")

\* A before-hook throws: 4xx, nothing written.
HookVeto(r) ==
  /\ At(r, "write") /\ req[r].who # Hook /\ End(r)
  /\ UNCHANGED <<data, left, torn, born, access, uploaded>>

\* The statements return the table they leave, or nothing when they fail.
\* INSERT of the snapshot's columns under a fresh id.
create_record(q, t) ==
  IF t.there /\ q.old \subseteq t.cols
  THEN {[t EXCEPT !.row[q.id] = IF Owner \in q.old THEN q.val ELSE Null]} ELSE {}

\* UPDATE of the patched fields the snapshot knows, by id alone.
update_record(q, t) ==
  LET sets == IF q.val = Null THEN {} ELSE {Owner} \cap q.old IN
  IF t.there /\ sets \subseteq t.cols /\ t.row[q.id] # Absent
  THEN {[t EXCEPT !.row[q.id] = IF sets # {} THEN q.val ELSE @]} ELSE {}

\* DELETE by id alone.
delete_record(q, t) ==
  IF t.there /\ t.row[q.id] # Absent THEN {[t EXCEPT !.row[q.id] = Absent]} ELSE {}

\* The write ends the request; others that looked at the row did so on other data.
Commit(r, verb, outcome, owner) ==
  LET n == req[r].n IN
  /\ At(r, "write") /\ req[r].verb = verb
  /\ \/ outcome = {} /\ End(r) /\ UNCHANGED <<table, access>>
     \/ /\ \E t \in outcome : table' = [table EXCEPT ![n] = t]
        /\ req' = Disturb({n}, [req EXCEPT ![r] = Idle])
        /\ Record(r, {owner})
  /\ UNCHANGED <<meta, rule, file, blob, left, torn, born, uploaded>>

\* POST, PATCH and DELETE after the before-hook returned.
Create(r) ==
  /\ req[r].id \in Rec /\ table[req[r].n].row[req[r].id] = Absent
  /\ Commit(r, "create", create_record(req[r], table[req[r].n]), Null)
Update(r) ==
  /\ req[r].id \in Rec
  /\ Commit(r, "update", update_record(req[r], table[req[r].n]), table[req[r].n].row[req[r].id])
Delete(r) ==
  /\ req[r].id \in Rec
  /\ Commit(r, "delete", delete_record(req[r], table[req[r].n]), table[req[r].n].row[req[r].id])

\* $app.records: the schema is looked up and the statement runs, past every rule and hook.
HookOpen(r, v, n, i, val) ==
  /\ find_collection(n)
  /\ Begin(r, "hook", [Idle EXCEPT !.pc = "write", !.n = n, !.who = Hook, !.verb = v, !.id = i,
                                   !.val = val, !.old = meta[n].fields])
  /\ UNCHANGED <<data, torn, born, access, uploaded>>
HookCreate(r, n, i, val) == HookOpen(r, "create", n, i, val)
HookUpdate(r, n, i, val) == HookOpen(r, "update", n, i, val)
HookDelete(r, n, i) == HookOpen(r, "delete", n, i, Null)

-----------------------------------------------------------------------------
(* Files: the row is the source of truth, the blob follows. *)

insert_file(f) == file' = [file EXCEPT ![f] = "row"]
delete_file(f) == file' = [file EXCEPT ![f] = "gone"]

\* The object store: a put or delete that fails leaves it as it is.
put(f) == blob' = blob \cup {f}
remove(f) == blob' = blob \ {f}

\* POST files inserts the row under a fresh id,
Upload(r, f) ==
  /\ table[FileTable].there /\ file[f] = "none" /\ insert_file(f)
  /\ Begin(r, "files", [Idle EXCEPT !.pc = "put", !.id = f])
  /\ UNCHANGED <<table, meta, rule, blob, torn, born, access, uploaded>>

\* Faulty variant: the result of the put is not looked at.
PutUnchecked(r) ==
  LET f == req[r].id IN
  /\ At(r, "put") /\ End(r)
  /\ put(f) \/ UNCHANGED blob
  /\ uploaded' = IF file[f] = "row" THEN uploaded \cup {f} ELSE uploaded
  /\ UNCHANGED <<table, meta, rule, file, left, torn, born, access>>

\* then stores the bytes; a failed put is a 500 and the row stays.
PutBlob(r) ==
  LET f == req[r].id IN
  /\ At(r, "put") /\ End(r)
  /\ \/ UNCHANGED <<blob, uploaded>>
     \/ put(f) /\ uploaded' = IF file[f] = "row" THEN uploaded \cup {f} ELSE uploaded
  /\ UNCHANGED <<table, meta, rule, file, left, torn, born, access>>

\* DELETE files/:id takes the row first,
DeleteFile(r, f) ==
  /\ file[f] = "row" /\ delete_file(f)
  /\ Begin(r, "files", [Idle EXCEPT !.pc = "unlink", !.id = f])
  /\ uploaded' = uploaded \ {f}
  /\ UNCHANGED <<table, meta, rule, blob, torn, born, access>>

\* and the bytes on a best-effort basis.
DeleteBlob(r) ==
  /\ At(r, "unlink") /\ End(r)
  /\ remove(req[r].id) \/ UNCHANGED blob
  /\ UNCHANGED <<table, meta, rule, file, left, torn, born, access, uploaded>>

-----------------------------------------------------------------------------

\* The process dies: requests in flight are cut where they are.
Crash ==
  /\ Spend("crash")
  /\ torn' = torn \cup {req[r].n : r \in {q \in Req : Halfway(req[q])}}
  /\ req' = [r \in Req |-> Idle]
  /\ UNCHANGED <<data, born, access, uploaded>>

Handlers(r) ==
  \/ \E n \in Name, S \in SUBSET Field : CreateFind(r, n, S)
  \/ CreateTable(r) \/ CreateMeta(r)
  \/ \E n \in Coll, S \in SUBSET Field, force \in BOOLEAN : PatchFind(r, n, S, force)
  \/ PatchAdd(r) \/ PatchDrop(r) \/ PatchMeta(r)
  \/ \E n \in Name : DeleteDrop(r, n)
  \/ DeleteMeta(r)
  \/ \E n \in Coll, v \in Verb, f \in {"null", "open", "own"} : PutRuleFind(r, n, v, f)
  \/ PutRule(r)
  \/ \E n \in Coll, who \in Principal, v \in Verb, i \in Rec, val \in User \cup {Null} :
       /\ v \in {"list", "view", "delete"} => val = Null
       /\ OpenSchema(r, n, who, v, i, val)
  \/ authorize_record_action(r) \/ List(r) \/ Get(r)
  \/ UpdateFetch(r) \/ DeleteFetch(r) \/ HookVeto(r)
  \/ Create(r) \/ Update(r) \/ Delete(r)
  \/ \E n \in Coll, i \in Rec, val \in User \cup {Null} : HookCreate(r, n, i, val) \/ HookUpdate(r, n, i, val)
  \/ \E n \in Coll, i \in Rec : HookDelete(r, n, i)
  \/ \E f \in File : Upload(r, f) \/ DeleteFile(r, f)
  \/ PutBlob(r) \/ DeleteBlob(r)
  \/ Abandon(r)

Next ==
  \/ \E r \in Req : Handlers(r)
  \/ \E n \in Coll, v \in Verb : DeleteRule(n, v)
  \/ Crash

Spec == Init /\ [][Next]_vars

-----------------------------------------------------------------------------

\* create_collection, patch_collection and delete_collection run several statements.  A
\* collection nobody is working on has a table with exactly the columns its schema says, or
\* neither table nor meta row.  Excepted are collections whose DDL requests overlapped, and
\* those of which a request got only halfway: an ALTER failed after an earlier one, a meta
\* statement failed (the clean-up DROP of a create is never run), the connection dropped or the
\* process died in between.  Deleting the collection heals them.  Deleting the table
\* `_collections` itself, which the endpoint does not refuse, orphans every other table.
SchemaAgrees ==
  \A n \in Coll \ torn : Working(n) = {} =>
    /\ table[n].there = meta[n].there
    /\ table[n].cols = meta[n].fields

\* A collection re-created under an old id starts admins-only: every rule in force was put
\* since the meta row was inserted, never inherited from the collection deleted before
\* (DeleteRule and DeleteMeta against PutRuleFind .. PutRule).
NoInheritedRule ==
  \A n \in Coll : meta[n].there => \A v \in Verb : rule[n][v] # "none" => v \in born[n]

\* The rule is checked statements before the write, with the hook's JavaScript in between.
\* When no rule, row or schema changed meanwhile, every record a user reads, creates, changes
\* or deletes is one the rules allow it at that very moment.
AccessWithinRules == access

\* An upload answered 201 that nobody asked to delete, by itself or with the whole table
\* `_files`, can be downloaded: row and blob.
UploadsAreComplete == \A f \in uploaded : file[f] = "row" /\ f \in blob

\* What the clean-up comment of create_collection promises: a create whose INSERT fails
\* leaves no table behind that the next attempt would be wedged on.
FailedCreateCleansUp ==
  [][\A r \in Req : LET n == req[r].n IN
       At(r, "mkMeta") /\ meta[n].there /\ CreateMeta(r) => ~table'[n].there]_vars

=============================================================================
