--------------------------- MODULE RecordsProofs ---------------------------
(***************************************************************************)
(* The promises of an app's data, for any number of collections, fields,    *)
(* records, users, files and concurrent requests: schemas agree with their  *)
(* tables, rules are never inherited, record accesses are within the rules, *)
(* and acknowledged uploads are complete; and those of the realtime streams *)
(* over it, for any number of connections and writers: nothing is lost      *)
(* silently, and events are within the rule.                                *)
(***************************************************************************)
EXTENDS Records, Realtime, TLAPS

Value == User \cup {Null, Absent}
Rules == {"none", "null", "open", "own"}
Table == [there : BOOLEAN, cols : SUBSET Field, row : [Rec -> Value]]
Request ==
  [pc : {"idle", "mkTable", "mkMeta", "alter", "rmMeta", "setRule", "authorize", "lookup", "write", "put", "unlink"},
   n : Name \cup {Absent}, who : Principal \cup {Hook, Absent}, verb : Verb \cup {Absent},
   id : Rec \cup File \cup {Absent}, old : SUBSET Field, new : SUBSET Field, add : SUBSET Field,
   drop : SUBSET Field, val : Value, rule : Rules, dirty : BOOLEAN]

\* DDL, and the statements that read or write a collection's records or rules.
Ddl == {"mkTable", "mkMeta", "alter", "rmMeta"}
OnRecords == {"authorize", "lookup", "write"}

\* A handler names what its path named.
Placed(h) ==
  /\ h.pc \in {"mkTable", "mkMeta", "alter", "setRule"} \cup OnRecords => h.n \in Coll
  /\ h.pc = "rmMeta" => h.n \in Name
  /\ h.pc \in {"setRule"} \cup OnRecords => h.verb \in Verb
  /\ h.pc \in OnRecords => h.id \in Rec

TypeOK ==
  /\ table \in [Name -> Table]
  /\ meta \in [Coll -> [there : BOOLEAN, fields : SUBSET Field]]
  /\ rule \in [Coll -> [Verb -> Rules]]
  /\ file \in [File -> {"none", "row", "gone"}]
  /\ req \in [Req -> Request] /\ \A r \in Req : Placed(req[r])
  /\ born \in [Coll -> SUBSET Verb]

\* Files: a handler that is about to delete a blob has taken its row.
FilesInv ==
  /\ \A f \in uploaded : f \in File /\ file[f] = "row" /\ f \in blob
  /\ \A r \in Req : /\ req[r].pc = "put" => req[r].id \in File
                    /\ req[r].pc = "unlink" => req[r].id \in File /\ file[req[r].id] = "gone"

\* Rules: the foreign key leaves none without a collection.
RulesInv ==
  \A n \in Coll, v \in Verb : rule[n][v] # "none" => meta[n].there /\ v \in born[n]

\* Records: a request whose ground nobody disturbed carries the rule in force, and what it
\* is about to write passes that rule.
Authorised(h) ==
  h.pc \in {"lookup", "write"} /\ h.who # Hook /\ ~h.dirty =>
    /\ h.rule = rule[h.n][h.verb]
    /\ h.pc = "write" /\ h.verb = "create" => Passes(h.who, h.rule, Null)
    /\ h.pc = "write" /\ h.verb # "create" =>
         table[h.n].row[h.id] = Absent \/ Passes(h.who, h.rule, table[h.n].row[h.id])
AccessInv == access = TRUE /\ \A r \in Req : Authorised(req[r])

\* Schemas: how far the one DDL request on a collection has come.
Agree(n) == table[n].there = meta[n].there /\ table[n].cols = meta[n].fields
Progress(n, h) ==
  /\ h.pc = "mkTable" => Agree(n) /\ ~meta[n].there
  /\ h.pc = "mkMeta" => table[n].there /\ table[n].cols = h.new /\ ~meta[n].there
  /\ h.pc = "alter" =>
       /\ table[n].there /\ meta[n].there /\ h.old = meta[n].fields
       /\ h.add \subseteq h.new \ h.old /\ h.drop \subseteq h.old \ h.new
       /\ table[n].cols = (h.old \cup ((h.new \ h.old) \ h.add)) \ ((h.old \ h.new) \ h.drop)
  /\ h.pc = "rmMeta" => ~table[n].there /\ table[n].cols = {}
Solo(n) == \A p, q \in Working(n) : p = q
SchemaInv ==
  \A n \in Coll \ torn :
    /\ Solo(n)
    /\ Working(n) = {} => Agree(n)
    /\ \A q \in Working(n) : Progress(n, req[q])

IInv == TypeOK /\ FilesInv /\ RulesInv /\ AccessInv /\ SchemaInv

-----------------------------------------------------------------------------
(* What steps leave alone. *)

\* The same request, whose ground may have been disturbed.
Same(x, y) ==
  /\ x.pc = y.pc /\ x.n = y.n /\ x.who = y.who /\ x.verb = y.verb /\ x.id = y.id
  /\ x.old = y.old /\ x.new = y.new /\ x.add = y.add /\ x.drop = y.drop /\ x.val = y.val /\ x.rule = y.rule
  /\ ~x.dirty => ~y.dirty

\* Request r goes on as h, the others as they were.
Moved(r, h) == req' \in [Req -> Request] /\ Same(req'[r], h) /\ \A q \in Req \ {r} : Same(req'[q], req[q])

LEMMA DisturbFacts ==
  ASSUME NEW N, NEW f \in [Req -> Request]
  PROVE  /\ Disturb(N, f) \in [Req -> Request]
         /\ \A q \in Req : Same(Disturb(N, f)[q], f[q])
         /\ \A q \in Req : f[q].n \in N => Disturb(N, f)[q].dirty
<1>1. ASSUME NEW q \in Req
      PROVE  Disturb(N, f)[q] \in Request /\ Same(Disturb(N, f)[q], f[q]) /\ (f[q].n \in N => Disturb(N, f)[q].dirty)
  <2>1. CASE f[q].n \in N
    <3>1. Disturb(N, f)[q] = [f[q] EXCEPT !.dirty = TRUE]
      BY <2>1 DEF Disturb
    <3> QED BY <3>1 DEF Request, Same
  <2>2. CASE f[q].n \notin N
    <3>1. Disturb(N, f)[q] = f[q]
      BY <2>2 DEF Disturb
    <3> QED BY <2>2, <3>1 DEF Same
  <2> QED BY <2>1, <2>2
<1>2. Disturb(N, f) = [q \in Req |-> Disturb(N, f)[q]]
  BY DEF Disturb
<1> QED BY <1>1, <1>2

LEMMA MoveFacts ==
  ASSUME NEW r \in Req, req \in [Req -> Request], NEW h \in Request
  PROVE  /\ req' = [req EXCEPT ![r] = h] => Moved(r, h)
         /\ \A N : req' = Disturb(N, [req EXCEPT ![r] = h]) =>
              Moved(r, h) /\ \A q \in Req : req'[q].n \in N => req'[q].dirty
         /\ \A n : req' = Disturb({n}, [req EXCEPT ![r] = h]) =>
              Moved(r, h) /\ \A q \in Req : req'[q].n = n => req'[q].dirty
<1>1. [req EXCEPT ![r] = h] \in [Req -> Request]
  OBVIOUS
<1>2. ASSUME req' = [req EXCEPT ![r] = h] PROVE Moved(r, h)
  BY <1>1, <1>2 DEF Moved, Same
<1>3. ASSUME NEW N, req' = Disturb(N, [req EXCEPT ![r] = h])
      PROVE  Moved(r, h) /\ \A q \in Req : req'[q].n \in N => req'[q].dirty
  <2> DEFINE g == [req EXCEPT ![r] = h]
  <2>1. g \in [Req -> Request] /\ g[r] = h /\ \A q \in Req \ {r} : g[q] = req[q]
    OBVIOUS
  <2> HIDE DEF g
  <2>2. req' = Disturb(N, g)
    BY <1>3 DEF g
  <2>3. /\ req' \in [Req -> Request] /\ \A q \in Req : Same(req'[q], g[q])
        /\ \A q \in Req : g[q].n \in N => req'[q].dirty
    BY <2>1, <2>2, DisturbFacts
  <2>4. \A q \in Req : req'[q].n = g[q].n
    BY <2>3 DEF Same
  <2> QED BY <2>1, <2>3, <2>4 DEF Moved
<1>4. ASSUME NEW n, req' = Disturb({n}, [req EXCEPT ![r] = h])
      PROVE  Moved(r, h) /\ \A q \in Req : req'[q].n = n => req'[q].dirty
  BY <1>3, <1>4
<1> QED BY <1>2, <1>3, <1>4

LEMMA IdleFacts == Idle \in Request /\ Idle.pc = "idle" /\ Placed(Idle)
BY DEF Idle, Request, Placed, OnRecords, Value, Rules

\* The pieces of the invariant that a step keeps because it does not touch them.
LEMMA PlacedStays ==
  ASSUME TypeOK, NEW r \in Req, NEW h, Moved(r, h), Placed(h)
  PROVE  req' \in [Req -> Request] /\ \A q \in Req : Placed(req'[q])
<1>1. \A q \in Req : Placed(req'[q])
  BY DEF TypeOK, Moved, Same, Placed, OnRecords
<1> QED BY <1>1 DEF Moved

LEMMA FilesStay ==
  ASSUME FilesInv, UNCHANGED <<file, blob, uploaded>>, NEW r \in Req, NEW h, Moved(r, h),
         h.pc \notin {"put", "unlink"}
  PROVE  FilesInv'
BY DEF FilesInv, Moved, Same

LEMMA RulesStay ==
  ASSUME RulesInv, UNCHANGED <<rule, born>>, \A n \in Coll : meta'[n].there = meta[n].there
  PROVE  RulesInv'
BY DEF RulesInv

\* Only requests that the step disturbs can lose the rule or the row they looked at.
LEMMA AccessStays ==
  ASSUME TypeOK, AccessInv, access' = TRUE, NEW r \in Req, NEW h, Moved(r, h), Authorised(h)',
         \A q \in Req : req'[q].pc \in {"lookup", "write"} /\ ~req'[q].dirty =>
           /\ rule'[req'[q].n] = rule[req'[q].n]
           /\ \A i \in Rec : table'[req'[q].n].row[i] \in {table[req'[q].n].row[i], Absent}
  PROVE  AccessInv'
<1> SUFFICES ASSUME NEW q \in Req PROVE Authorised(req[q])'
  BY DEF AccessInv
<1>1. CASE q = r
  BY <1>1 DEF Moved, Same, Authorised
<1>2. CASE q # r
  <2> SUFFICES ASSUME req'[q].pc \in {"lookup", "write"}, req'[q].who # Hook, ~req'[q].dirty
               PROVE  Authorised(req[q])'
    BY DEF Authorised
  <2>1. Same(req'[q], req[q])
    BY <1>2 DEF Moved
  <2>2. Authorised(req[q]) /\ Placed(req[q])
    BY DEF AccessInv, TypeOK
  <2>3. /\ req[q].id = req'[q].id /\ req'[q].id \in Rec /\ req[q].n = req'[q].n
        /\ table'[req[q].n].row[req[q].id] \in {table[req[q].n].row[req[q].id], Absent}
        /\ rule'[req[q].n] = rule[req[q].n]
    BY <2>1, <2>2 DEF Same, Placed, OnRecords
  <2> QED BY <2>1, <2>2, <2>3 DEF Same, Authorised, Passes
<1> QED BY <1>1, <1>2

\* A request that is no DDL leaves schemas and their workers alone.
LEMMA SchemasStay ==
  ASSUME TypeOK, SchemaInv, UNCHANGED torn, NEW r \in Req, NEW h, Moved(r, h),
         h.pc \notin Ddl, req[r].pc \notin Ddl,
         \A n \in Coll : /\ table'[n].there = table[n].there /\ table'[n].cols = table[n].cols
                         /\ meta'[n] = meta[n]
  PROVE  SchemaInv'
<1> SUFFICES ASSUME NEW n \in Coll \ torn
             PROVE  /\ Solo(n)' /\ (Working(n)' = {} => Agree(n)')
                    /\ \A q \in Working(n)' : Progress(n, req[q])'
  BY DEF SchemaInv
<1>1. \A q \in Req : req'[q].pc \in Ddl \/ req[q].pc \in Ddl => Same(req'[q], req[q])
  BY DEF Moved, Same
<1>2. Working(n)' = Working(n)
  BY <1>1 DEF Working, Same, Ddl
<1>3. Solo(n) /\ (Working(n) = {} => Agree(n)) /\ \A q \in Working(n) : Progress(n, req[q])
  BY DEF SchemaInv
<1>4. ASSUME NEW q \in Working(n) PROVE Progress(n, req[q])'
  <2>1. Same(req'[q], req[q]) /\ Progress(n, req[q])
    BY <1>1, <1>3, <1>4 DEF Working, Ddl
  <2> QED BY <2>1 DEF Progress, Same, Agree
<1> QED BY <1>2, <1>3, <1>4 DEF Solo, Agree

\* DDL on one collection leaves the others alone.
LEMMA OthersStay ==
  ASSUME TypeOK, SchemaInv, NEW r \in Req, NEW h, Moved(r, h), NEW c,
         h.n = c \/ h.pc \notin Ddl, req[r].n = c \/ req[r].pc \notin Ddl, torn \ {c} \subseteq torn',
         NEW n \in Coll \ torn', n # c,
         table'[n] = table[n], meta'[n] = meta[n]
  PROVE  Solo(n)' /\ (Working(n)' = {} => Agree(n)') /\ \A q \in Working(n)' : Progress(n, req[q])'
<1>1. \A q \in Req : (req'[q].n = n /\ req'[q].pc \in Ddl) \/ (req[q].n = n /\ req[q].pc \in Ddl) => Same(req'[q], req[q])
  BY DEF Moved, Same
<1>2. Working(n)' = Working(n)
  BY <1>1 DEF Working, Same, Ddl
<1>3. Solo(n) /\ (Working(n) = {} => Agree(n)) /\ \A q \in Working(n) : Progress(n, req[q])
  BY DEF SchemaInv
<1>4. ASSUME NEW q \in Working(n) PROVE Progress(n, req[q])'
  <2>1. Same(req'[q], req[q]) /\ Progress(n, req[q])
    BY <1>1, <1>3, <1>4 DEF Working, Ddl
  <2> QED BY <2>1 DEF Progress, Same, Agree
<1> QED BY <1>2, <1>3, <1>4 DEF Solo, Agree

\* The one worker on c goes on, begins or ends.
LEMMA WorkerSteps ==
  ASSUME TypeOK, SchemaInv, NEW r \in Req, NEW h, Moved(r, h), NEW c \in Coll \ torn',
         Working(c) \subseteq {r},
         h.pc \in Ddl => h.n = c /\ Progress(c, h)',
         h.pc \notin Ddl => Agree(c)'
  PROVE  Solo(c)' /\ (Working(c)' = {} => Agree(c)') /\ \A q \in Working(c)' : Progress(c, req[q])'
<1>1. Working(c)' = IF h.pc \in Ddl THEN {r} ELSE {}
  <2>1. \A q \in Req : q # r => ~(req[q].n = c /\ req[q].pc \in Ddl)
    BY DEF Working, Ddl
  <2>2. \A q \in Req : q # r => ~(req'[q].n = c /\ req'[q].pc \in Ddl)
    BY <2>1 DEF Moved, Same
  <2>3. r \in Req /\ req'[r].pc = h.pc /\ req'[r].n = h.n
    BY DEF Moved, Same
  <2>4. CASE h.pc \in Ddl
    <3>1. h.n = c
      BY <2>4
    <3> QED BY <2>2, <2>3, <2>4, <3>1 DEF Working, Ddl
  <2>5. CASE h.pc \notin Ddl
    BY <2>2, <2>3, <2>5 DEF Working, Ddl
  <2> QED BY <2>4, <2>5
<1>2. h.pc \in Ddl => Progress(c, req[r])'
  BY DEF Moved, Same, Progress
<1> QED BY <1>1, <1>2 DEF Solo

LEMMA SchemasStep ==
  ASSUME TypeOK, SchemaInv, NEW r \in Req, NEW h, Moved(r, h), NEW c,
         h.n = c \/ h.pc \notin Ddl, req[r].n = c \/ req[r].pc \notin Ddl, torn \ {c} \subseteq torn',
         \A n \in Coll \ {c} : table'[n] = table[n] /\ meta'[n] = meta[n],
         c \in Coll \ torn' =>
           /\ Working(c) \subseteq {r}
           /\ h.pc \in Ddl => Progress(c, h)'
           /\ h.pc \notin Ddl => Agree(c)'
  PROVE  SchemaInv'
<1> SUFFICES ASSUME NEW n \in Coll \ torn'
             PROVE  /\ Solo(n)' /\ (Working(n)' = {} => Agree(n)')
                    /\ \A q \in Working(n)' : Progress(n, req[q])'
  BY DEF SchemaInv
<1>1. CASE n = c
  BY <1>1, WorkerSteps
<1>2. CASE n # c
  BY <1>2, OthersStay
<1> QED BY <1>1, <1>2

\* The worker on a collection that is not torn is alone and knows how far it is.
LEMMA WorkerKnows ==
  ASSUME TypeOK, SchemaInv, NEW r \in Req, req[r].pc \in Ddl, req[r].n \in Coll \ torn
  PROVE  Working(req[r].n) \subseteq {r} /\ Progress(req[r].n, req[r])
<1>1. r \in Working(req[r].n)
  BY DEF Working, Ddl
<1> QED BY <1>1 DEF SchemaInv, Solo

\* A step that is about no schema, on data it does not change.
LEMMA QuietInv ==
  ASSUME IInv, NEW r \in Req, NEW h, Moved(r, h), Placed(h), Authorised(h),
         h.pc \notin {"put", "unlink"} \cup Ddl, req[r].pc \notin Ddl,
         UNCHANGED <<data, torn, born, uploaded>>, access' = TRUE
  PROVE  IInv'
<1>0. UNCHANGED <<table, meta, rule, file, blob>>
  BY DEF data
<1>1. TypeOK'
  BY <1>0, PlacedStays DEF IInv, TypeOK
<1>2. FilesInv'
  BY <1>0, FilesStay DEF IInv
<1>3. RulesInv'
  BY <1>0, RulesStay DEF IInv
<1>4. Authorised(h)'
  BY <1>0 DEF Authorised
<1>5. AccessInv'
  BY <1>0, <1>4, AccessStays DEF IInv
<1>6. SchemaInv'
  BY <1>0, SchemasStay DEF IInv
<1> QED BY <1>1, <1>2, <1>3, <1>5, <1>6 DEF IInv

\* DDL that is not halfway has changed nothing, or everything.
LEMMA NotHalfway ==
  ASSUME TypeOK, SchemaInv, NEW r \in Req, req[r].pc \in Ddl, req[r].n \in Coll \ torn, ~Halfway(req[r])
  PROVE  Agree(req[r].n)
<1> DEFINE n == req[r].n
<1>1. Progress(n, req[r])
  BY WorkerKnows
<1>2. table[n].there \in BOOLEAN /\ meta[n].there \in BOOLEAN
  BY DEF TypeOK, Table, Name
<1> HIDE DEF n
<1>3. CASE req[r].pc = "mkTable"
  BY <1>1, <1>3 DEF Progress, n
<1>4. CASE req[r].pc = "alter"
  <2>1. req[r].new \ req[r].old = req[r].add /\ req[r].old \ req[r].new = req[r].drop
    BY <1>4 DEF Halfway
  <2>2. table[n].cols = meta[n].fields /\ table[n].there /\ meta[n].there
    BY <1>1, <1>4, <2>1 DEF Progress
  <2> QED BY <1>2, <2>2 DEF Agree, n
<1> QED BY <1>3, <1>4 DEF Ddl, Halfway

\* A request that ends where it is.
LEMMA CutInv ==
  ASSUME IInv, NEW r \in Req, Cut(r), UNCHANGED <<data, born, access, uploaded>>
  PROVE  IInv'
<1>0. UNCHANGED <<table, meta, rule, file, blob>> /\ IInv /\ TypeOK /\ torn \subseteq torn'
  BY DEF data, IInv, Cut
<1>1. Moved(r, Idle) /\ Placed(Idle) /\ Idle.pc = "idle"
  BY <1>0, MoveFacts, IdleFacts DEF Cut, End, TypeOK
<1>2. TypeOK' /\ FilesInv' /\ RulesInv'
  BY <1>0, <1>1, PlacedStays, FilesStay, RulesStay DEF IInv, TypeOK
<1>3. AccessInv'
  <2>1. Authorised(Idle)' /\ access' = TRUE
    BY <1>0, <1>1 DEF Authorised, IInv, AccessInv, Idle
  <2> QED BY <1>0, <1>1, <2>1, AccessStays DEF IInv
<1>4. SchemaInv'
  <2>1. CASE req[r].pc \notin Ddl
    <3>1. torn' = torn
      BY <2>1 DEF Cut, Halfway, Ddl
    <3> QED BY <1>0, <1>1, <2>1, <3>1, SchemasStay DEF IInv, Ddl
  <2>2. CASE req[r].pc \in Ddl
    <3>0. PICK n : n = req[r].n
      OBVIOUS
    <3>1. ASSUME n \in Coll \ torn' PROVE Working(n) \subseteq {r} /\ Agree(n)'
      <4>1. ~Halfway(req[r]) /\ n \in Coll \ torn
        BY <1>0, <3>0, <3>1 DEF Cut
      <4>2. Working(n) \subseteq {r} /\ Agree(n)
        BY <1>0, <2>2, <3>0, <4>1, NotHalfway, WorkerKnows DEF IInv
      <4> QED BY <1>0, <4>2 DEF Agree
    <3>2. Idle.pc \notin Ddl
      BY <1>1 DEF Ddl
    <3>3. torn \ {n} \subseteq torn' /\ \A m \in Coll \ {n} : table'[m] = table[m] /\ meta'[m] = meta[m]
      BY <1>0
    <3>4. SchemaInv /\ req[r].n = n
      BY <1>0, <3>0 DEF IInv
    <3> QED BY <1>0, <1>1, <3>1, <3>2, <3>3, <3>4, SchemasStep
  <2> QED BY <2>1, <2>2
<1> QED BY <1>2, <1>3, <1>4 DEF IInv

-----------------------------------------------------------------------------
(* Collections. *)

LEMMA CreateFindInv ==
  ASSUME IInv, NEW r \in Req, NEW n \in Name, NEW S \in SUBSET Field, CreateFind(r, n, S)
  PROVE  IInv'
<1>0. IInv /\ TypeOK /\ n \in Coll /\ ~meta[n].there
  BY DEF IInv, CreateFind, find_collection, Reserved, Name
<1>1. PICK h \in Request : /\ Moved(r, h) /\ Placed(h)
                           /\ h.pc = "mkTable" /\ h.n = n
  <2> DEFINE h == [Idle EXCEPT !.pc = "mkTable", !.n = n, !.new = S]
  <2>1. req' = [req EXCEPT ![r] = h]
    BY DEF CreateFind, Begin
  <2>2. h \in Request /\ h.pc = "mkTable" /\ h.n = n
    BY <1>0 DEF Idle, Request, Value, Rules
  <2> HIDE DEF h
  <2>3. Placed(h)
    BY <1>0, <2>2 DEF Placed, OnRecords
  <2>4. Moved(r, h)
    BY <1>0, <2>1, <2>2, MoveFacts DEF TypeOK
  <2> QED BY <2>2, <2>3, <2>4
<1>2. /\ UNCHANGED <<table, meta, rule, file, blob, born, access, uploaded>>
      /\ req[r].pc = "idle" /\ torn' = Overlap(r, n)
  BY DEF CreateFind, data, Begin, At
<1>3. TypeOK' /\ FilesInv' /\ RulesInv'
  BY <1>0, <1>1, <1>2, PlacedStays, FilesStay, RulesStay DEF IInv, TypeOK
<1>4. AccessInv'
  <2>1. Authorised(h)' /\ access' = TRUE
    BY <1>0, <1>1, <1>2 DEF Authorised, IInv, AccessInv
  <2> QED BY <1>0, <1>1, <1>2, <2>1, AccessStays DEF IInv
<1>5. SchemaInv'
  <2>1. ASSUME n \notin torn' PROVE Working(n) = {} /\ Agree(n) /\ torn' = torn
    <3>1. Working(n) \ {r} = {} /\ torn' = torn
      BY <1>2, <2>1 DEF Overlap
    <3>2. r \notin Working(n)
      BY <1>2 DEF Working
    <3> QED BY <1>0, <2>1, <3>1, <3>2 DEF IInv, SchemaInv
  <2>2. n \notin torn' => Working(n) \subseteq {r} /\ Progress(n, h)'
    BY <1>0, <1>1, <1>2, <2>1 DEF Progress, Agree
  <2>3. torn \ {n} \subseteq torn'
    BY <1>2 DEF Overlap
  <2> QED BY <1>0, <1>1, <1>2, <2>2, <2>3, SchemasStep DEF IInv, Ddl
<1> QED BY <1>3, <1>4, <1>5 DEF IInv

LEMMA CreateTableInv ==
  ASSUME IInv, NEW r \in Req, CreateTable(r)
  PROVE  IInv'
<1>0. PICK n \in Coll : IInv /\ TypeOK /\ n = req[r].n /\ req[r].pc = "mkTable" /\ req[r] \in Request
  BY DEF IInv, CreateTable, At, TypeOK, Placed
<1>1. UNCHANGED <<meta, rule, file, blob, torn, born, access, uploaded>>
  BY DEF CreateTable
<1>2. PICK h \in Request :
        /\ Moved(r, h) /\ Placed(h)
        /\ \/ h.pc = "idle" /\ table[n].there /\ table' = table
           \/ h.pc = "mkMeta" /\ h.n = n /\ h.new = req[r].new /\ ~table[n].there /\ table' = [table EXCEPT ![n] = columns_sql(h.new)]
  <2>1. CASE table[n].there /\ End(r) /\ UNCHANGED table
    BY <1>0, <2>1, MoveFacts, IdleFacts DEF End, TypeOK
  <2>2. CASE create_table(n, req[r].new) /\ Go(r, "mkMeta")
    <3> DEFINE h == [req[r] EXCEPT !.pc = "mkMeta"]
    <3>1. h \in Request /\ h.pc = "mkMeta" /\ h.n = n /\ h.new = req[r].new
      BY <1>0 DEF Request
    <3>2. req' = [req EXCEPT ![r] = h]
      BY <2>2 DEF Go
    <3>3. Moved(r, h)
      BY <1>0, <3>1, <3>2, MoveFacts DEF TypeOK
    <3> HIDE DEF h
    <3>4. Placed(h)
      BY <1>0, <3>1 DEF Placed, OnRecords
    <3> QED BY <2>2, <3>1, <3>3, <3>4 DEF create_table
  <2> QED BY <1>0, <2>1, <2>2 DEF CreateTable
<1>3. columns_sql(h.new) \in Table /\ columns_sql(h.new).there = TRUE /\ columns_sql(h.new).cols = h.new
      /\ \A i \in Rec : columns_sql(h.new).row[i] = Absent
  BY <1>2 DEF columns_sql, NoTable, Table, Value, Request
<1>4. /\ table' \in [Name -> Table] /\ \A m \in Name \ {n} : table'[m] = table[m]
      /\ \A m \in Name, i \in Rec : table'[m].row[i] \in {table[m].row[i], Absent}
  <2>1. table \in [Name -> Table] /\ n \in Name
    BY <1>0 DEF TypeOK, Name
  <2>2. table' = table \/ table' = [table EXCEPT ![n] = columns_sql(h.new)]
    BY <1>2
  <2> QED BY <1>3, <2>1, <2>2
<1>5. TypeOK' /\ FilesInv' /\ RulesInv'
  BY <1>0, <1>1, <1>2, <1>4, PlacedStays, FilesStay, RulesStay DEF IInv, TypeOK
<1>6. AccessInv'
  <2>1. Authorised(h)' /\ access' = TRUE
    BY <1>0, <1>1, <1>2 DEF Authorised, IInv, AccessInv
  <2>2. \A q \in Req : req'[q].pc \in {"lookup", "write"} => req'[q].n \in Name
    BY <1>5 DEF TypeOK, Placed, OnRecords, Name
  <2> QED BY <1>0, <1>1, <1>2, <1>4, <2>1, <2>2, AccessStays DEF IInv
<1>7. SchemaInv'
  <2>1. ASSUME n \notin torn PROVE Working(n) \subseteq {r} /\ Agree(n) /\ ~meta[n].there
    BY <1>0, <2>1, WorkerKnows DEF IInv, Ddl, Progress
  <2>2. ASSUME n \notin torn PROVE h.pc = "mkMeta" => Progress(n, h)'
    <3>1. h.pc = "mkMeta" => table'[n] = columns_sql(h.new)
      BY <1>0, <1>2 DEF TypeOK, Name
    <3> QED BY <1>1, <1>3, <2>1, <2>2, <3>1 DEF Progress
  <2>3. ASSUME n \notin torn PROVE h.pc = "idle" => Agree(n)'
    BY <1>1, <1>2, <2>1, <2>3 DEF Agree
  <2>4. \A m \in Coll \ {n} : table'[m] = table[m] /\ meta'[m] = meta[m]
    BY <1>1, <1>4 DEF Name
  <2> QED BY <1>0, <1>1, <1>2, <2>1, <2>2, <2>3, <2>4, SchemasStep DEF IInv, Ddl
<1> QED BY <1>5, <1>6, <1>7 DEF IInv

LEMMA CreateMetaInv ==
  ASSUME IInv, NEW r \in Req, CreateMeta(r)
  PROVE  IInv'
<1>0. PICK n \in Coll : IInv /\ TypeOK /\ n = req[r].n /\ req[r].pc = "mkMeta" /\ req[r] \in Request
  BY DEF IInv, CreateMeta, At, TypeOK, Placed
<1> SUFFICES ASSUME ~(Cut(r) /\ UNCHANGED <<data, born, access, uploaded>>) PROVE IInv'
  BY CutInv
<1>3. /\ ~meta[n].there /\ meta' = [meta EXCEPT ![n] = [there |-> TRUE, fields |-> req[r].new]]
      /\ born' = [born EXCEPT ![n] = {}]
      /\ req' = Disturb({n}, [req EXCEPT ![r] = Idle])
      /\ UNCHANGED <<table, rule, file, blob, torn, access, uploaded>>
  BY <1>0 DEF CreateMeta, insert_meta, data
<1>1. UNCHANGED <<table, rule, file, blob, torn, access, uploaded>>
  BY <1>3
<1>2. Moved(r, Idle) /\ Placed(Idle) /\ Idle.pc = "idle"
  BY <1>0, <1>3, MoveFacts, IdleFacts DEF TypeOK
<1>4. /\ meta' \in [Coll -> [there : BOOLEAN, fields : SUBSET Field]] /\ born' \in [Coll -> SUBSET Verb]
      /\ \A m \in Coll \ {n} : meta'[m] = meta[m] /\ born'[m] = born[m]
  <2>1. [there |-> TRUE, fields |-> req[r].new] \in [there : BOOLEAN, fields : SUBSET Field]
    BY <1>0 DEF Request
  <2> QED BY <1>0, <1>3, <2>1 DEF TypeOK
<1>5. TypeOK' /\ FilesInv'
  BY <1>0, <1>1, <1>2, <1>4, PlacedStays, FilesStay DEF IInv, TypeOK
<1>6. RulesInv'
  BY <1>0, <1>1, <1>3, <1>4 DEF IInv, RulesInv, TypeOK
<1>7. AccessInv'
  <2>1. Authorised(Idle)' /\ access' = TRUE
    BY <1>0, <1>1, <1>2 DEF Authorised, IInv, AccessInv, Idle
  <2> QED BY <1>0, <1>1, <1>2, <2>1, AccessStays DEF IInv
<1>8. SchemaInv'
  <2>1. ASSUME n \notin torn
        PROVE  Working(n) \subseteq {r} /\ table[n].there /\ table[n].cols = req[r].new /\ ~meta[n].there
    BY <1>0, <2>1, WorkerKnows DEF IInv, Ddl, Progress
  <2>2. ASSUME n \notin torn PROVE Agree(n)'
    <3>1. meta'[n].there = TRUE /\ meta'[n].fields = req[r].new /\ table[n].there \in BOOLEAN
      BY <1>0, <1>3, <2>1, <2>2 DEF TypeOK, Name, Table
    <3> QED BY <1>1, <2>1, <2>2, <3>1 DEF Agree
  <2> QED BY <1>0, <1>1, <1>2, <1>4, <2>1, <2>2, SchemasStep DEF IInv, Ddl
<1> QED BY <1>5, <1>6, <1>7, <1>8 DEF IInv

LEMMA PatchFindInv ==
  ASSUME IInv, NEW r \in Req, NEW n \in Coll, NEW S \in SUBSET Field, NEW force, PatchFind(r, n, S, force)
  PROVE  IInv'
<1>0. IInv /\ TypeOK /\ meta[n].there /\ meta[n].fields \subseteq Field
  BY DEF IInv, PatchFind, find_collection, TypeOK
<1>1. PICK h \in Request : /\ Moved(r, h) /\ Placed(h) /\ h.pc = "alter" /\ h.n = n
                           /\ h.old = meta[n].fields /\ h.new = S /\ h.add = S \ h.old /\ h.drop = h.old \ S
  <2> DEFINE h == [Idle EXCEPT !.pc = "alter", !.n = n, !.old = meta[n].fields, !.new = S,
                               !.add = S \ meta[n].fields, !.drop = meta[n].fields \ S]
  <2>1. req' = [req EXCEPT ![r] = h]
    BY DEF PatchFind, Begin
  <2>2. /\ h \in Request /\ h.pc = "alter" /\ h.n = n /\ h.old = meta[n].fields /\ h.new = S
        /\ h.add = S \ meta[n].fields /\ h.drop = meta[n].fields \ S
    BY <1>0 DEF Idle, Request, Value, Rules, Name
  <2> HIDE DEF h
  <2>3. Placed(h)
    BY <1>0, <2>2 DEF Placed, OnRecords
  <2>4. Moved(r, h)
    BY <1>0, <2>1, <2>2, MoveFacts DEF TypeOK
  <2> QED BY <2>2, <2>3, <2>4
<1>2. /\ UNCHANGED <<table, meta, rule, file, blob, born, access, uploaded>>
      /\ req[r].pc = "idle" /\ torn' = Overlap(r, n)
  BY DEF PatchFind, data, Begin, At
<1>3. TypeOK' /\ FilesInv' /\ RulesInv'
  BY <1>0, <1>1, <1>2, PlacedStays, FilesStay, RulesStay DEF IInv, TypeOK
<1>4. AccessInv'
  <2>1. Authorised(h)' /\ access' = TRUE
    BY <1>0, <1>1, <1>2 DEF Authorised, IInv, AccessInv
  <2> QED BY <1>0, <1>1, <1>2, <2>1, AccessStays DEF IInv
<1>5. SchemaInv'
  <2>1. ASSUME n \notin torn' PROVE Working(n) = {} /\ Agree(n)
    <3>1. Working(n) \ {r} = {} /\ torn' = torn
      BY <1>2, <2>1 DEF Overlap
    <3>2. r \notin Working(n)
      BY <1>2 DEF Working
    <3> QED BY <1>0, <2>1, <3>1, <3>2 DEF IInv, SchemaInv
  <2>2. n \notin torn' => Working(n) \subseteq {r} /\ Progress(n, h)'
    BY <1>0, <1>1, <1>2, <2>1 DEF Progress, Agree
  <2>3. torn \ {n} \subseteq torn'
    BY <1>2 DEF Overlap
  <2> QED BY <1>0, <1>1, <1>2, <2>2, <2>3, SchemasStep DEF IInv, Ddl
<1> QED BY <1>3, <1>4, <1>5 DEF IInv

LEMMA PatchAddInv ==
  ASSUME IInv, NEW r \in Req, PatchAdd(r)
  PROVE  IInv'
<1>0. PICK n \in Coll : IInv /\ TypeOK /\ n = req[r].n /\ req[r].pc = "alter" /\ req[r] \in Request /\ n \in Name
  BY DEF IInv, PatchAdd, At, TypeOK, Placed, Name
<1>1. UNCHANGED <<meta, rule, file, blob, born, access, uploaded>>
  BY DEF PatchAdd
<1>2. PICK f \in req[r].add :
        \/ Cut(r) /\ UNCHANGED table
        \/ /\ table' = [table EXCEPT ![n].cols = @ \cup {f}]
           /\ req' = [req EXCEPT ![r].add = @ \ {f}] /\ UNCHANGED torn
  BY <1>0 DEF PatchAdd
<1>3. CASE Cut(r) /\ UNCHANGED table
  BY <1>1, <1>3, CutInv DEF data
<1>4. CASE /\ table' = [table EXCEPT ![n].cols = @ \cup {f}]
           /\ req' = [req EXCEPT ![r].add = @ \ {f}] /\ UNCHANGED torn
  <2>1. PICK h \in Request : /\ Moved(r, h) /\ Placed(h) /\ h.pc = "alter" /\ h.n = n
                             /\ h.old = req[r].old /\ h.new = req[r].new /\ h.drop = req[r].drop
                             /\ h.add = req[r].add \ {f}
    <3> DEFINE h == [req[r] EXCEPT !.add = @ \ {f}]
    <3>1. /\ h \in Request /\ h.pc = "alter" /\ h.n = n /\ h.old = req[r].old /\ h.new = req[r].new
          /\ h.drop = req[r].drop /\ h.add = req[r].add \ {f}
      BY <1>0 DEF Request
    <3>2. req' = [req EXCEPT ![r] = h]
      BY <1>4
    <3> HIDE DEF h
    <3>3. Placed(h)
      BY <1>0, <3>1 DEF Placed, OnRecords
    <3>4. Moved(r, h)
      BY <1>0, <3>1, <3>2, MoveFacts DEF TypeOK
    <3> QED BY <3>1, <3>3, <3>4
  <2>2. f \in Field /\ table[n] \in Table
    BY <1>0, <1>2 DEF Request, TypeOK
  <2>3. /\ table'[n] \in Table /\ table'[n].there = table[n].there /\ table'[n].row = table[n].row
        /\ table'[n].cols = table[n].cols \cup {f} /\ \A m \in Name \ {n} : table'[m] = table[m]
    BY <1>0, <1>4, <2>2 DEF TypeOK, Table
  <2>4. table' \in [Name -> Table]
    BY <1>0, <1>4, <2>3 DEF TypeOK
  <2>5. TypeOK' /\ FilesInv' /\ RulesInv'
    BY <1>0, <1>1, <2>1, <2>4, PlacedStays, FilesStay, RulesStay DEF IInv, TypeOK
  <2>6. AccessInv'
    <3>1. Authorised(h)' /\ access' = TRUE
      BY <1>0, <1>1, <2>1 DEF Authorised, IInv, AccessInv
    <3>2. \A q \in Req : req'[q].pc \in {"lookup", "write"} => req'[q].n \in Name
      BY <2>5 DEF TypeOK, Placed, OnRecords, Name
    <3>3. \A m \in Name : table'[m].row = table[m].row
      BY <2>3
    <3> QED BY <1>0, <1>1, <2>1, <3>1, <3>2, <3>3, AccessStays DEF IInv
  <2>7. SchemaInv'
    <3>1. ASSUME n \notin torn PROVE Working(n) \subseteq {r} /\ Progress(n, req[r])
      BY <1>0, <3>1, WorkerKnows DEF IInv, Ddl
    <3>2. ASSUME n \notin torn PROVE Progress(n, h)'
      <4>1. /\ table[n].there /\ meta[n].there /\ req[r].old = meta[n].fields
            /\ req[r].add \subseteq req[r].new \ req[r].old /\ req[r].drop \subseteq req[r].old \ req[r].new
            /\ table[n].cols = (req[r].old \cup ((req[r].new \ req[r].old) \ req[r].add))
                                 \ ((req[r].old \ req[r].new) \ req[r].drop)
        BY <1>0, <3>1, <3>2 DEF Progress
      <4>2. table'[n].cols = (h.old \cup ((h.new \ h.old) \ h.add)) \ ((h.old \ h.new) \ h.drop)
        BY <1>2, <2>1, <2>3, <4>1
      <4> QED BY <1>1, <2>1, <2>3, <4>1, <4>2 DEF Progress
    <3>3. \A m \in Coll \ {n} : table'[m] = table[m] /\ meta'[m] = meta[m]
      BY <1>1, <2>3 DEF Name
    <3> QED BY <1>0, <1>1, <1>4, <2>1, <3>1, <3>2, <3>3, SchemasStep DEF IInv, Ddl
  <2> QED BY <2>5, <2>6, <2>7 DEF IInv
<1> QED BY <1>2, <1>3, <1>4

LEMMA PatchDropInv ==
  ASSUME IInv, NEW r \in Req, PatchDrop(r)
  PROVE  IInv'
<1>0. PICK n \in Coll : IInv /\ TypeOK /\ n = req[r].n /\ req[r].pc = "alter" /\ req[r] \in Request /\ n \in Name
  BY DEF IInv, PatchDrop, At, TypeOK, Placed, Name
<1>1. UNCHANGED <<meta, rule, file, blob, born, access, uploaded>>
  BY DEF PatchDrop
<1>2. PICK f \in req[r].drop :
        \/ Cut(r) /\ UNCHANGED table
        \/ /\ table' = [table EXCEPT ![n].cols = @ \ {f},
                ![n].row = [i \in Rec |-> IF f = Owner /\ @[i] # Absent THEN Null ELSE @[i]]]
           /\ req' = Disturb({n}, [req EXCEPT ![r].drop = @ \ {f}]) /\ UNCHANGED torn
  BY <1>0 DEF PatchDrop
<1>3. CASE Cut(r) /\ UNCHANGED table
  BY <1>1, <1>3, CutInv DEF data
<1>4. CASE /\ table' = [table EXCEPT ![n].cols = @ \ {f},
                ![n].row = [i \in Rec |-> IF f = Owner /\ @[i] # Absent THEN Null ELSE @[i]]]
           /\ req' = Disturb({n}, [req EXCEPT ![r].drop = @ \ {f}]) /\ UNCHANGED torn
  <2>1. PICK h \in Request : /\ Moved(r, h) /\ Placed(h) /\ h.pc = "alter" /\ h.n = n
                             /\ h.old = req[r].old /\ h.new = req[r].new /\ h.add = req[r].add
                             /\ h.drop = req[r].drop \ {f}
                             /\ \A q \in Req : req'[q].n = n => req'[q].dirty
    <3> DEFINE h == [req[r] EXCEPT !.drop = @ \ {f}]
    <3>1. /\ h \in Request /\ h.pc = "alter" /\ h.n = n /\ h.old = req[r].old /\ h.new = req[r].new
          /\ h.add = req[r].add /\ h.drop = req[r].drop \ {f}
      BY <1>0 DEF Request
    <3>2. req' = Disturb({n}, [req EXCEPT ![r] = h])
      BY <1>4
    <3> HIDE DEF h
    <3>3. Placed(h)
      BY <1>0, <3>1 DEF Placed, OnRecords
    <3>4. Moved(r, h) /\ \A q \in Req : req'[q].n = n => req'[q].dirty
      BY <1>0, <3>1, <3>2, MoveFacts DEF TypeOK
    <3> QED BY <3>1, <3>3, <3>4
  <2>2. f \in Field /\ table[n] \in Table
    BY <1>0, <1>2 DEF Request, TypeOK
  <2> DEFINE rows == [i \in Rec |-> IF f = Owner /\ table[n].row[i] # Absent THEN Null ELSE table[n].row[i]]
  <2>3. rows \in [Rec -> Value]
    BY <2>2 DEF Table, Value
  <2>4. table' = [table EXCEPT ![n] = [there |-> table[n].there, cols |-> table[n].cols \ {f}, row |-> rows]]
    <3>1. /\ DOMAIN table' = Name /\ \A m \in Name \ {n} : table'[m] = table[m]
          /\ table' = [m \in Name |-> table'[m]]
      BY <1>0, <1>4 DEF TypeOK
    <3>2. table'[n] = [[table[n] EXCEPT !.cols = @ \ {f}] EXCEPT !.row = rows]
      BY <1>0, <1>4 DEF TypeOK
    <3> HIDE DEF rows
    <3>3. [[table[n] EXCEPT !.cols = @ \ {f}] EXCEPT !.row = rows]
            = [there |-> table[n].there, cols |-> table[n].cols \ {f}, row |-> rows]
      <4>1. table[n] = [there |-> table[n].there, cols |-> table[n].cols, row |-> table[n].row]
        BY <2>2 DEF Table
      <4>2. ASSUME NEW a, NEW b, NEW c, NEW d, NEW t, t = [there |-> a, cols |-> b, row |-> c]
            PROVE  [t EXCEPT !.cols = d] = [there |-> a, cols |-> d, row |-> c]
        BY <4>2
      <4>3. ASSUME NEW a, NEW b, NEW c, NEW d, NEW t, t = [there |-> a, cols |-> b, row |-> c]
            PROVE  [t EXCEPT !.row = d] = [there |-> a, cols |-> b, row |-> d]
        BY <4>3
      <4>4. PICK u : u = [table[n] EXCEPT !.cols = @ \ {f}]
        OBVIOUS
      <4>5. u = [there |-> table[n].there, cols |-> table[n].cols \ {f}, row |-> table[n].row]
        BY <4>1, <4>2, <4>4
      <4>6. [u EXCEPT !.row = rows] = [there |-> table[n].there, cols |-> table[n].cols \ {f}, row |-> rows]
        BY <4>3, <4>5
      <4> QED BY <4>4, <4>6
    <3> QED BY <1>0, <3>1, <3>2, <3>3 DEF TypeOK
  <2> HIDE DEF rows
  <2>5. /\ table'[n] \in Table /\ table'[n].there = table[n].there
        /\ table'[n].cols = table[n].cols \ {f} /\ \A m \in Name \ {n} : table'[m] = table[m]
    BY <1>0, <2>2, <2>3, <2>4 DEF TypeOK, Table
  <2>6. table' \in [Name -> Table]
    BY <1>0, <2>4, <2>5 DEF TypeOK
  <2>7. TypeOK' /\ FilesInv' /\ RulesInv'
    BY <1>0, <1>1, <2>1, <2>6, PlacedStays, FilesStay, RulesStay DEF IInv, TypeOK
  <2>8. AccessInv'
    <3>1. Authorised(h)' /\ access' = TRUE
      BY <1>0, <1>1, <2>1 DEF Authorised, IInv, AccessInv
    <3>2. \A q \in Req : req'[q].pc \in {"lookup", "write"} => req'[q].n \in Name
      BY <2>7 DEF TypeOK, Placed, OnRecords, Name
    <3>3. \A q \in Req : req'[q].pc \in {"lookup", "write"} /\ ~req'[q].dirty => table'[req'[q].n] = table[req'[q].n]
      BY <2>1, <2>5, <3>2
    <3> QED BY <1>0, <1>1, <2>1, <3>1, <3>3, AccessStays DEF IInv
  <2>9. SchemaInv'
    <3>1. ASSUME n \notin torn PROVE Working(n) \subseteq {r} /\ Progress(n, req[r])
      BY <1>0, <3>1, WorkerKnows DEF IInv, Ddl
    <3>2. ASSUME n \notin torn PROVE Progress(n, h)'
      <4>1. /\ table[n].there /\ meta[n].there /\ req[r].old = meta[n].fields
            /\ req[r].add \subseteq req[r].new \ req[r].old /\ req[r].drop \subseteq req[r].old \ req[r].new
            /\ table[n].cols = (req[r].old \cup ((req[r].new \ req[r].old) \ req[r].add))
                                 \ ((req[r].old \ req[r].new) \ req[r].drop)
        BY <1>0, <3>1, <3>2 DEF Progress
      <4>2. table'[n].cols = (h.old \cup ((h.new \ h.old) \ h.add)) \ ((h.old \ h.new) \ h.drop)
        BY <1>2, <2>1, <2>5, <4>1
      <4> QED BY <1>1, <2>1, <2>5, <4>1, <4>2 DEF Progress
    <3>3. \A m \in Coll \ {n} : table'[m] = table[m] /\ meta'[m] = meta[m]
      BY <1>1, <2>5 DEF Name
    <3> QED BY <1>0, <1>1, <1>4, <2>1, <3>1, <3>2, <3>3, SchemasStep DEF IInv, Ddl
  <2> QED BY <2>7, <2>8, <2>9 DEF IInv
<1> QED BY <1>2, <1>3, <1>4

LEMMA PatchMetaInv ==
  ASSUME IInv, NEW r \in Req, PatchMeta(r)
  PROVE  IInv'
<1>0. PICK n \in Coll : /\ IInv /\ TypeOK /\ n = req[r].n /\ req[r].pc = "alter" /\ req[r] \in Request /\ n \in Name
                        /\ req[r].add = {} /\ req[r].drop = {}
  BY DEF IInv, PatchMeta, At, TypeOK, Placed, Name
<1> SUFFICES ASSUME ~(Cut(r) /\ UNCHANGED <<data, born, access, uploaded>>) PROVE IInv'
  BY CutInv
<1>1. /\ UNCHANGED <<table, rule, file, blob, torn, born, access, uploaded>>
      /\ End(r) /\ meta' = IF meta[n].there THEN [meta EXCEPT ![n].fields = req[r].new] ELSE meta
  BY <1>0 DEF PatchMeta, data
<1>2. Moved(r, Idle) /\ Placed(Idle) /\ Idle.pc = "idle"
  BY <1>0, <1>1, MoveFacts, IdleFacts DEF End, TypeOK
<1>3. meta' = IF meta[n].there THEN [meta EXCEPT ![n].fields = req[r].new] ELSE meta
  BY <1>1
<1>4. /\ meta' \in [Coll -> [there : BOOLEAN, fields : SUBSET Field]] /\ \A m \in Coll \ {n} : meta'[m] = meta[m]
      /\ meta'[n].there = meta[n].there /\ (meta[n].there => meta'[n].fields = req[r].new)
  <2>1. req[r].new \in SUBSET Field
    BY <1>0 DEF Request
  <2>2. CASE meta[n].there
    BY <1>0, <1>3, <2>1, <2>2 DEF TypeOK
  <2>3. CASE ~meta[n].there
    BY <1>0, <1>3, <2>3 DEF TypeOK
  <2> QED BY <2>2, <2>3
<1>5. TypeOK' /\ FilesInv'
  BY <1>0, <1>1, <1>2, <1>4, PlacedStays, FilesStay DEF IInv, TypeOK
<1>6. RulesInv'
  BY <1>0, <1>1, <1>4, RulesStay DEF IInv
<1>7. AccessInv'
  <2>1. Authorised(Idle)' /\ access' = TRUE
    BY <1>0, <1>1, <1>2 DEF Authorised, IInv, AccessInv, Idle
  <2> QED BY <1>0, <1>1, <1>2, <2>1, AccessStays DEF IInv
<1>8. SchemaInv'
  <2>1. ASSUME n \notin torn PROVE Working(n) \subseteq {r} /\ Progress(n, req[r])
    BY <1>0, <2>1, WorkerKnows DEF IInv, Ddl
  <2>2. ASSUME n \notin torn PROVE Agree(n)'
    <3>1. /\ table[n].there /\ meta[n].there
          /\ table[n].cols = (req[r].old \cup (req[r].new \ req[r].old)) \ (req[r].old \ req[r].new)
      BY <1>0, <2>1, <2>2 DEF Progress
    <3>2. table[n].cols = req[r].new
      BY <3>1
    <3>3. table[n].there \in BOOLEAN /\ meta[n].there \in BOOLEAN
      BY <1>0 DEF TypeOK, Table
    <3> QED BY <1>1, <1>4, <3>1, <3>2, <3>3 DEF Agree
  <2> QED BY <1>0, <1>1, <1>2, <1>4, <2>1, <2>2, SchemasStep DEF IInv, Ddl
<1> QED BY <1>5, <1>6, <1>7, <1>8 DEF IInv

LEMMA NoTableFacts ==
  /\ NoTable \in Table /\ NoTable.there = FALSE /\ NoTable.cols = {} /\ \A i \in Rec : NoTable.row[i] = Absent
  /\ NoMeta \in [there : BOOLEAN, fields : SUBSET Field] /\ NoMeta.there = FALSE /\ NoMeta.fields = {}
BY DEF NoTable, Table, Value, NoMeta

\* What a DROP TABLE takes with it.
LEMMA DropFacts ==
  ASSUME TypeOK, RulesInv, NEW n \in Name, drop_table(n)
  PROVE  /\ table' \in [Name -> Table] /\ table'[n] = NoTable /\ \A m \in Name \ {n} : table'[m] = table[m]
         /\ \A m \in Name, i \in Rec : table'[m].row[i] \in {table[m].row[i], Absent}
         /\ meta' \in [Coll -> [there : BOOLEAN, fields : SUBSET Field]] /\ (n # Catalog => meta' = meta)
         /\ rule' \in [Coll -> [Verb -> Rules]] /\ (n \notin {Catalog, RuleTable} => rule' = rule)
         /\ \A m \in Coll, v \in Verb : rule'[m][v] # "none" => meta'[m].there /\ rule[m][v] # "none"
         /\ file' \in [File -> {"none", "row", "gone"}] /\ (n # FileTable => file' = file)
         /\ \A f \in File : file[f] = "gone" => file'[f] = "gone"
<1>1. /\ table' \in [Name -> Table] /\ table'[n] = NoTable /\ \A m \in Name \ {n} : table'[m] = table[m]
      /\ \A m \in Name, i \in Rec : table'[m].row[i] \in {table[m].row[i], Absent}
  BY NoTableFacts DEF drop_table, TypeOK
<1>2. meta' \in [Coll -> [there : BOOLEAN, fields : SUBSET Field]] /\ (n # Catalog => meta' = meta)
  BY NoTableFacts DEF drop_table, TypeOK
<1>3. rule' \in [Coll -> [Verb -> Rules]] /\ (n \notin {Catalog, RuleTable} => rule' = rule)
  <2>1. [v \in Verb |-> "none"] \in [Verb -> Rules]
    BY DEF Rules
  <2> QED BY <2>1 DEF drop_table, TypeOK
<1>4. ASSUME NEW m \in Coll, NEW v \in Verb, rule'[m][v] # "none" PROVE meta'[m].there /\ rule[m][v] # "none"
  <2>1. n \notin {Catalog, RuleTable}
    BY <1>4 DEF drop_table
  <2> QED BY <1>2, <1>3, <1>4, <2>1 DEF RulesInv
<1>5. /\ file' \in [File -> {"none", "row", "gone"}] /\ (n # FileTable => file' = file)
      /\ \A f \in File : file[f] = "gone" => file'[f] = "gone"
  BY DEF drop_table, TypeOK
<1> QED BY <1>1, <1>2, <1>3, <1>4, <1>5

LEMMA DeleteDropInv ==
  ASSUME IInv, NEW r \in Req, NEW n \in Name, DeleteDrop(r, n)
  PROVE  IInv'
<1>0. IInv /\ TypeOK /\ RulesInv /\ Coll \subseteq Name /\ Catalog \notin Coll
  BY RecordConstants DEF IInv, Catalog, Name
<1>1. PICK h \in Request : /\ Moved(r, h) /\ Placed(h) /\ h.pc = "rmMeta" /\ h.n = n
                           /\ n \in {Catalog, RuleTable} => \A q \in Req : req'[q].n \in Coll => req'[q].dirty
  <2> DEFINE h == [Idle EXCEPT !.pc = "rmMeta", !.n = n]
  <2>1. req' = Disturb(IF n \in {Catalog, RuleTable} THEN Coll ELSE {}, [req EXCEPT ![r] = h])
    BY DEF DeleteDrop
  <2>2. h \in Request /\ h.pc = "rmMeta" /\ h.n = n
    BY <1>0 DEF Idle, Request, Value, Rules
  <2> HIDE DEF h
  <2>3. Placed(h)
    BY <1>0, <2>2 DEF Placed, OnRecords
  <2>4. /\ Moved(r, h)
        /\ \A q \in Req : req'[q].n \in (IF n \in {Catalog, RuleTable} THEN Coll ELSE {}) => req'[q].dirty
    BY <1>0, <2>1, <2>2, MoveFacts DEF TypeOK
  <2> QED BY <2>2, <2>3, <2>4
<1>2. /\ UNCHANGED <<blob, born, access>> /\ drop_table(n) /\ req[r].pc = "idle"
      /\ uploaded' = IF n = FileTable THEN {} ELSE uploaded
      /\ n = Catalog => torn' = torn \cup Coll
      /\ n # Catalog => torn' = IF Working(n) = {} THEN torn \ {n} ELSE torn \cup {n}
  BY DEF DeleteDrop, At
<1>3. /\ table' \in [Name -> Table] /\ table'[n] = NoTable /\ \A m \in Name \ {n} : table'[m] = table[m]
      /\ \A m \in Name, i \in Rec : table'[m].row[i] \in {table[m].row[i], Absent}
      /\ meta' \in [Coll -> [there : BOOLEAN, fields : SUBSET Field]] /\ (n # Catalog => meta' = meta)
      /\ rule' \in [Coll -> [Verb -> Rules]] /\ (n \notin {Catalog, RuleTable} => rule' = rule)
      /\ \A m \in Coll, v \in Verb : rule'[m][v] # "none" => meta'[m].there /\ rule[m][v] # "none"
      /\ file' \in [File -> {"none", "row", "gone"}] /\ (n # FileTable => file' = file)
      /\ \A f \in File : file[f] = "gone" => file'[f] = "gone"
  BY <1>0, <1>2, DropFacts
<1>4. TypeOK'
  BY <1>0, <1>1, <1>2, <1>3, PlacedStays DEF TypeOK
<1>5. FilesInv'
  <2>1. ASSUME NEW f \in uploaded' PROVE f \in File /\ file'[f] = "row" /\ f \in blob'
    BY <1>0, <1>2, <1>3, <2>1 DEF IInv, FilesInv
  <2>2. ASSUME NEW q \in Req
        PROVE  /\ req'[q].pc = "put" => req'[q].id \in File
               /\ req'[q].pc = "unlink" => req'[q].id \in File /\ file'[req'[q].id] = "gone"
    BY <1>0, <1>1, <1>3 DEF IInv, FilesInv, Moved, Same
  <2> QED BY <2>1, <2>2 DEF FilesInv
<1>6. RulesInv'
  BY <1>0, <1>2, <1>3 DEF RulesInv
<1>7. AccessInv'
  <2>1. Authorised(h)' /\ access' = TRUE
    BY <1>0, <1>1, <1>2 DEF Authorised, IInv, AccessInv
  <2>2. \A q \in Req : req'[q].pc \in {"lookup", "write"} => req'[q].n \in Coll
    BY <1>4 DEF TypeOK, Placed, OnRecords
  <2>3. \A q \in Req : req'[q].pc \in {"lookup", "write"} /\ ~req'[q].dirty => rule'[req'[q].n] = rule[req'[q].n]
    BY <1>1, <1>3, <2>2
  <2> QED BY <1>0, <1>1, <1>3, <2>1, <2>2, <2>3, AccessStays DEF IInv
<1>8. SchemaInv'
  <2>1. CASE n = Catalog
    BY <1>2, <2>1 DEF SchemaInv
  <2>2. CASE n # Catalog
    <3>1. n \notin torn' => Working(n) \subseteq {r}
      BY <1>2, <2>2
    <3>2. Progress(n, h)'
      BY <1>1, <1>3, NoTableFacts DEF Progress
    <3>3. torn \ {n} \subseteq torn'
      BY <1>2, <2>2
    <3>4. \A m \in Coll \ {n} : table'[m] = table[m] /\ meta'[m] = meta[m]
      BY <1>0, <1>3, <2>2
    <3> QED BY <1>0, <1>1, <1>2, <3>1, <3>2, <3>3, <3>4, SchemasStep DEF IInv, Ddl
  <2> QED BY <2>1, <2>2
<1> QED BY <1>4, <1>5, <1>6, <1>7, <1>8 DEF IInv

LEMMA DeleteMetaInv ==
  ASSUME IInv, NEW r \in Req, DeleteMeta(r)
  PROVE  IInv'
<1>0. PICK n \in Name : IInv /\ TypeOK /\ n = req[r].n /\ req[r].pc = "rmMeta" /\ req[r] \in Request
  BY DEF IInv, DeleteMeta, At, TypeOK, Placed
<1> SUFFICES ASSUME ~(Cut(r) /\ UNCHANGED <<data, born, access, uploaded>>) PROVE IInv'
  BY CutInv
<1>3. /\ meta' = [c \in Coll |-> IF c = n THEN NoMeta ELSE meta[c]]
      /\ rule' = [c \in Coll |-> IF c = n THEN [v \in Verb |-> "none"] ELSE rule[c]]
      /\ req' = Disturb({n}, [req EXCEPT ![r] = Idle])
      /\ UNCHANGED <<table, file, blob, torn, born, access, uploaded>>
  BY <1>0 DEF DeleteMeta, delete_meta, data
<1>1. UNCHANGED <<table, file, blob, torn, born, access, uploaded>>
  BY <1>3
<1>2. Moved(r, Idle) /\ Placed(Idle) /\ Idle.pc = "idle" /\ \A q \in Req : req'[q].n = n => req'[q].dirty
  BY <1>0, <1>3, MoveFacts, IdleFacts DEF TypeOK
<1>4. /\ meta' \in [Coll -> [there : BOOLEAN, fields : SUBSET Field]] /\ rule' \in [Coll -> [Verb -> Rules]]
      /\ \A m \in Coll \ {n} : meta'[m] = meta[m] /\ rule'[m] = rule[m]
      /\ n \in Coll => meta'[n] = NoMeta /\ \A v \in Verb : rule'[n][v] = "none"
  <2>1. [v \in Verb |-> "none"] \in [Verb -> Rules]
    BY DEF Rules
  <2>2. meta' \in [Coll -> [there : BOOLEAN, fields : SUBSET Field]]
    BY <1>0, <1>3, NoTableFacts DEF TypeOK
  <2>3. rule' \in [Coll -> [Verb -> Rules]]
    BY <1>0, <1>3, <2>1 DEF TypeOK
  <2>4. \A m \in Coll \ {n} : meta'[m] = meta[m] /\ rule'[m] = rule[m]
    BY <1>3
  <2>5. n \in Coll => meta'[n] = NoMeta /\ rule'[n] = [v \in Verb |-> "none"]
    BY <1>3
  <2> QED BY <2>2, <2>3, <2>4, <2>5
<1>5. TypeOK' /\ FilesInv'
  BY <1>0, <1>1, <1>2, <1>4, PlacedStays, FilesStay DEF IInv, TypeOK
<1>6. RulesInv'
  BY <1>0, <1>1, <1>4 DEF IInv, RulesInv
<1>7. AccessInv'
  <2>1. Authorised(Idle)' /\ access' = TRUE
    BY <1>0, <1>1, <1>2 DEF Authorised, IInv, AccessInv, Idle
  <2>2. \A q \in Req : req'[q].pc \in {"lookup", "write"} => req'[q].n \in Coll
    BY <1>5 DEF TypeOK, Placed, OnRecords
  <2> QED BY <1>0, <1>1, <1>2, <1>4, <2>1, <2>2, AccessStays DEF IInv
<1>8. SchemaInv'
  <2>1. ASSUME n \in Coll \ torn PROVE Working(n) \subseteq {r} /\ ~table[n].there /\ table[n].cols = {}
    BY <1>0, <2>1, WorkerKnows DEF IInv, Ddl, Progress
  <2>2. ASSUME n \in Coll \ torn PROVE Agree(n)'
    <3>1. table[n].there \in BOOLEAN
      BY <1>0 DEF TypeOK, Table
    <3> QED BY <1>1, <1>4, <2>1, <2>2, <3>1, NoTableFacts DEF Agree
  <2> QED BY <1>0, <1>1, <1>2, <1>4, <2>1, <2>2, SchemasStep DEF IInv, Ddl
<1> QED BY <1>5, <1>6, <1>7, <1>8 DEF IInv

-----------------------------------------------------------------------------
(* Access rules. *)

LEMMA PutRuleFindInv ==
  ASSUME IInv, NEW r \in Req, NEW n \in Coll, NEW v \in Verb, NEW f \in {"null", "open", "own"}, PutRuleFind(r, n, v, f)
  PROVE  IInv'
<1> DEFINE h == [Idle EXCEPT !.pc = "setRule", !.n = n, !.verb = v, !.rule = f]
<1>1. /\ req' = [req EXCEPT ![r] = h] /\ UNCHANGED <<data, torn, born, access, uploaded>> /\ req[r].pc = "idle"
      /\ access = TRUE /\ TypeOK
  BY DEF PutRuleFind, Begin, At, IInv, AccessInv
<1>2. h \in Request /\ h.pc = "setRule" /\ h.n = n /\ h.verb = v
  BY DEF Idle, Request, Value, Rules, Name
<1> HIDE DEF h
<1>3. Placed(h) /\ Authorised(h)
  BY <1>2 DEF Placed, OnRecords, Authorised
<1>4. Moved(r, h)
  BY <1>1, <1>2, MoveFacts DEF TypeOK
<1> QED BY <1>1, <1>2, <1>3, <1>4, QuietInv DEF Ddl

\* A rule changes, and every request on its collection knows that it may have.
LEMMA RuleChangeInv ==
  ASSUME IInv, NEW n \in Coll, NEW v \in Verb, NEW f \in Rules, rule' = [rule EXCEPT ![n][v] = f], meta[n].there,
         \/ f = "none" /\ born' = born
         \/ born' = [born EXCEPT ![n] = @ \cup {v}],
         UNCHANGED <<table, meta, file, blob, torn, access, uploaded>>,
         req' \in [Req -> Request], \A q \in Req : req'[q].n = n => req'[q].dirty \/ req'[q].pc = "idle",
         \A q \in Req : \/ Same(req'[q], req[q])
                        \/ req'[q].pc = "idle" /\ req[q].pc \notin Ddl
  PROVE  IInv'
<1>0. IInv /\ TypeOK
  BY DEF IInv
<1>1. /\ rule' \in [Coll -> [Verb -> Rules]] /\ born' \in [Coll -> SUBSET Verb]
      /\ \A m \in Coll \ {n} : rule'[m] = rule[m] /\ born'[m] = born[m]
      /\ \A w \in Verb \ {v} : rule'[n][w] = rule[n][w] /\ (w \in born[n] => w \in born'[n])
      /\ rule'[n][v] # "none" => v \in born'[n]
  <2>1. /\ rule' \in [Coll -> [Verb -> Rules]] /\ \A m \in Coll \ {n} : rule'[m] = rule[m]
        /\ \A w \in Verb \ {v} : rule'[n][w] = rule[n][w]
        /\ rule'[n][v] = f
    BY <1>0 DEF TypeOK
  <2>2. CASE f = "none" /\ born' = born
    BY <1>0, <2>1, <2>2 DEF TypeOK
  <2>3. CASE born' = [born EXCEPT ![n] = @ \cup {v}]
    BY <1>0, <2>1, <2>3 DEF TypeOK
  <2> QED BY <2>2, <2>3
<1>2. \A q \in Req : Placed(req'[q])
  BY <1>0 DEF TypeOK, Placed, OnRecords, Same
<1>3. TypeOK'
  BY <1>0, <1>1, <1>2 DEF TypeOK
<1>4. FilesInv'
  BY <1>0 DEF IInv, FilesInv, Same
<1>5. RulesInv'
  BY <1>0, <1>1 DEF IInv, RulesInv
<1>6. AccessInv'
  <2> SUFFICES ASSUME NEW q \in Req PROVE Authorised(req[q])'
    BY <1>0 DEF IInv, AccessInv
  <2> SUFFICES ASSUME req'[q].pc \in {"lookup", "write"}, ~req'[q].dirty
               PROVE  Authorised(req[q])'
    BY DEF Authorised
  <2>1. Same(req'[q], req[q]) /\ req'[q].n # n /\ Authorised(req[q]) /\ req'[q].n \in Coll
    BY <1>0, <1>2 DEF IInv, AccessInv, Placed, OnRecords
  <2> QED BY <1>1, <2>1 DEF Authorised, Same, Passes
<1>7. SchemaInv'
  <2> SUFFICES ASSUME NEW m \in Coll \ torn
               PROVE  /\ Solo(m)' /\ (Working(m)' = {} => Agree(m)')
                      /\ \A q \in Working(m)' : Progress(m, req[q])'
    BY DEF SchemaInv
  <2>1. \A q \in Req : req'[q].pc \in Ddl \/ req[q].pc \in Ddl => Same(req'[q], req[q])
    BY DEF Ddl
  <2>2. Working(m)' = Working(m)
    BY <2>1 DEF Working, Same, Ddl
  <2>3. Solo(m) /\ (Working(m) = {} => Agree(m)) /\ \A q \in Working(m) : Progress(m, req[q])
    BY <1>0 DEF IInv, SchemaInv
  <2>4. ASSUME NEW q \in Working(m) PROVE Progress(m, req[q])'
    <3>1. Same(req'[q], req[q]) /\ Progress(m, req[q])
      BY <2>1, <2>3, <2>4 DEF Working, Ddl
    <3> QED BY <3>1 DEF Progress, Same, Agree
  <2> QED BY <2>2, <2>3, <2>4 DEF Solo, Agree
<1> QED BY <1>3, <1>4, <1>5, <1>6, <1>7 DEF IInv

LEMMA PutRuleInv ==
  ASSUME IInv, NEW r \in Req, PutRule(r)
  PROVE  IInv'
<1>0. PICK n \in Coll, v \in Verb :
        IInv /\ TypeOK /\ n = req[r].n /\ v = req[r].verb /\ req[r].pc = "setRule" /\ req[r] \in Request
  BY DEF IInv, PutRule, At, TypeOK, Placed
<1>1. UNCHANGED <<table, meta, file, blob, torn, access, uploaded>>
  BY DEF PutRule
<1>2. CASE find_collection(n) /\ table[RuleTable].there
  <2>1. /\ rule' = [rule EXCEPT ![n][v] = req[r].rule] /\ born' = [born EXCEPT ![n] = @ \cup {v}]
        /\ req' = Disturb({n}, [req EXCEPT ![r] = Idle]) /\ meta[n].there
    BY <1>0, <1>2 DEF PutRule, set_rule, find_collection
  <2>2. Moved(r, Idle) /\ \A q \in Req : req'[q].n = n => req'[q].dirty
    BY <1>0, <2>1, MoveFacts, IdleFacts DEF TypeOK
  <2>3. req[r].rule \in Rules
    BY <1>0 DEF Request
  <2>4. \A q \in Req : Same(req'[q], req[q]) \/ (req'[q].pc = "idle" /\ req[q].pc \notin Ddl)
    BY <1>0, <2>2, IdleFacts DEF Moved, Same, Ddl
  <2> QED BY <1>0, <1>1, <2>1, <2>2, <2>3, <2>4, RuleChangeInv DEF Moved
<1>3. CASE ~(find_collection(n) /\ table[RuleTable].there)
  <2>1. req' = [req EXCEPT ![r] = Idle] /\ UNCHANGED <<rule, born>>
    BY <1>0, <1>3 DEF PutRule, End
  <2>2. Moved(r, Idle)
    BY <1>0, <2>1, MoveFacts, IdleFacts DEF TypeOK
  <2>3. Authorised(Idle) /\ access' = TRUE
    BY <1>0, <1>1 DEF Authorised, Idle, IInv, AccessInv
  <2> QED BY <1>0, <1>1, <2>1, <2>2, <2>3, IdleFacts, QuietInv DEF Ddl, data
<1> QED BY <1>2, <1>3

LEMMA DeleteRuleInv ==
  ASSUME IInv, NEW n \in Coll, NEW v \in Verb, DeleteRule(n, v)
  PROVE  IInv'
<1>1. /\ rule' = [rule EXCEPT ![n][v] = "none"] /\ meta[n].there /\ req' = Disturb({n}, req)
      /\ UNCHANGED <<table, meta, file, blob, torn, born, access, uploaded>> /\ req \in [Req -> Request]
  BY DEF DeleteRule, find_collection, IInv, TypeOK
<1>2. /\ req' \in [Req -> Request] /\ \A q \in Req : Same(req'[q], req[q])
      /\ \A q \in Req : req[q].n = n => req'[q].dirty
  BY <1>1, DisturbFacts
<1>3. \A q \in Req : req'[q].n = n => req'[q].dirty
  BY <1>2 DEF Same
<1>4. "none" \in Rules
  BY DEF Rules
<1> QED BY <1>1, <1>2, <1>3, <1>4, RuleChangeInv

-----------------------------------------------------------------------------
(* Records. *)

\* A request that ends, or a step whose only trace is in the history of accesses.
LEMMA EndInv ==
  ASSUME IInv, NEW r \in Req, End(r), req[r].pc \notin Ddl,
         UNCHANGED <<data, torn, born, uploaded>>, access' = TRUE
  PROVE  IInv'
<1>1. Moved(r, Idle)
  BY MoveFacts, IdleFacts DEF End, IInv, TypeOK
<1>2. Authorised(Idle)
  BY DEF Authorised, Idle
<1> QED BY <1>1, <1>2, IdleFacts, QuietInv DEF Ddl

LEMMA OpenSchemaInv ==
  ASSUME IInv, NEW r \in Req, NEW n \in Coll, NEW who \in Principal, NEW v \in Verb, NEW i \in Rec,
         NEW val \in User \cup {Null}, OpenSchema(r, n, who, v, i, val)
  PROVE  IInv'
<1> DEFINE h == [Idle EXCEPT !.pc = "authorize", !.n = n, !.who = who, !.verb = v, !.id = i,
                             !.val = val, !.old = meta[n].fields]
<1>1. /\ req' = [req EXCEPT ![r] = h] /\ UNCHANGED <<data, torn, born, access, uploaded>> /\ req[r].pc = "idle"
      /\ access = TRUE /\ TypeOK /\ meta[n].fields \subseteq Field
  BY DEF OpenSchema, Begin, At, IInv, AccessInv, TypeOK
<1>2. h \in Request /\ h.pc = "authorize" /\ h.n = n /\ h.verb = v /\ h.id = i
  BY <1>1 DEF Idle, Request, Value, Rules, Name
<1> HIDE DEF h
<1>3. Placed(h) /\ Authorised(h)
  BY <1>2 DEF Placed, OnRecords, Authorised
<1>4. Moved(r, h)
  BY <1>1, <1>2, MoveFacts DEF TypeOK
<1> QED BY <1>1, <1>2, <1>3, <1>4, QuietInv DEF Ddl

LEMMA AuthorizeInv ==
  ASSUME IInv, NEW r \in Req, authorize_record_action(r)
  PROVE  IInv'
<1> DEFINE q == req[r]
           f == get_rule(q.n, q.verb)
           denied == q.who # Admin /\ (\/ classify_rule(f) = "deny"
                                       \/ classify_rule(f) = "evaluate" /\ Owner \notin q.old
                                       \/ classify_rule(f) = "evaluate" /\ q.verb = "create")
           h == [q EXCEPT !.pc = IF q.verb = "create" THEN "write" ELSE "lookup", !.rule = f, !.dirty = FALSE]
<1>1. /\ TypeOK /\ q \in Request /\ q.pc = "authorize" /\ q.n \in Coll /\ q.verb \in Verb /\ q.id \in Rec
      /\ UNCHANGED <<data, torn, born, access, uploaded>> /\ access = TRUE
  BY DEF authorize_record_action, At, IInv, TypeOK, AccessInv, Placed, OnRecords
<1>2. req' = [req EXCEPT ![r] = IF denied THEN Idle ELSE h]
  BY DEF authorize_record_action
<1>3. f \in Rules
  BY <1>1 DEF get_rule, TypeOK
<1>4. classify_rule(f) \in {"deny", "allow", "evaluate"}
  BY <1>3 DEF classify_rule, Rules
<1>5. CASE denied
  <2>1. End(r)
    BY <1>2, <1>5 DEF End
  <2> QED BY <1>1, <2>1, EndInv DEF Ddl
<1>6. CASE ~denied
  <2>1. q.verb = "create" => Passes(q.who, f, Null)
    BY <1>4, <1>6 DEF Passes
  <2>2. PICK g : g = f /\ g = rule[q.n][q.verb] /\ g \in Rules
    BY <1>3 DEF get_rule
  <2>3. /\ h \in Request /\ h.pc = (IF q.verb = "create" THEN "write" ELSE "lookup") /\ h.n = q.n /\ h.verb = q.verb
        /\ h.id = q.id /\ h.rule = g /\ h.who = q.who
    BY <1>1, <2>2 DEF Request
  <2>4. req' = [req EXCEPT ![r] = h]
    BY <1>2, <1>6
  <2> HIDE DEF h
  <2>5. Placed(h)
    BY <1>1, <2>3 DEF Placed, OnRecords
  <2>6. Authorised(h)
    BY <2>1, <2>2, <2>3 DEF Authorised
  <2>7. Moved(r, h)
    BY <1>1, <2>3, <2>4, MoveFacts DEF TypeOK
  <2> QED BY <1>1, <2>3, <2>5, <2>6, <2>7, QuietInv DEF Ddl
<1> QED BY <1>5, <1>6

\* The history stays true when what is touched passes, or the ground was disturbed.
LEMMA RecordFacts ==
  ASSUME access = TRUE, NEW r \in Req, req[r].dirty \in BOOLEAN, NEW owners, Record(r, owners),
         ~req[r].dirty => \A o \in owners : Passes(req[r].who, get_rule(req[r].n, req[r].verb), o)
  PROVE  access' = TRUE
BY DEF Record

LEMMA ReadInv ==
  ASSUME IInv, NEW r \in Req, List(r) \/ Get(r)
  PROVE  IInv'
<1> DEFINE q == req[r]
<1>1. /\ q.pc = "lookup" /\ End(r) /\ UNCHANGED <<data, torn, born, uploaded>> /\ access = TRUE
      /\ Authorised(q) /\ q.dirty \in BOOLEAN
  BY DEF List, Get, At, IInv, AccessInv, TypeOK, Request
<1>2. PICK ids : Record(r, Owners(q, list_records(q, ids)))
  BY DEF List, Get
<1>3. ~q.dirty => \A o \in Owners(q, list_records(q, ids)) : Passes(q.who, get_rule(q.n, q.verb), o)
  <2> SUFFICES ASSUME ~q.dirty, NEW i \in list_records(q, ids)
               PROVE  Passes(q.who, get_rule(q.n, q.verb), table[q.n].row[i])
    BY DEF Owners
  <2>1. Passes(q.who, q.rule, table[q.n].row[i])
    BY DEF list_records
  <2>2. CASE q.who = Hook
    BY <2>2 DEF Passes
  <2>3. CASE q.who # Hook
    BY <1>1, <2>1, <2>3 DEF Authorised, get_rule
  <2> QED BY <2>2, <2>3
<1>4. access' = TRUE
  BY <1>1, <1>2, <1>3, RecordFacts
<1> QED BY <1>1, <1>4, EndInv DEF Ddl

LEMMA FetchInv ==
  ASSUME IInv, NEW r \in Req, NEW verb \in {"update", "delete"}, Fetch(r, verb)
  PROVE  IInv'
<1> DEFINE q == req[r]
           h == [q EXCEPT !.pc = "write"]
<1>1. /\ TypeOK /\ q \in Request /\ q.pc = "lookup" /\ q.verb = verb /\ Placed(q) /\ Authorised(q)
      /\ UNCHANGED <<data, torn, born, access, uploaded>> /\ access = TRUE
  BY DEF Fetch, At, IInv, TypeOK, AccessInv
<1>2. CASE list_records(q, {q.id}) = {}
  <2>1. End(r)
    BY <1>2 DEF Fetch
  <2> QED BY <1>1, <2>1, EndInv DEF Ddl
<1>3. CASE list_records(q, {q.id}) # {}
  <2>1. Passes(q.who, q.rule, table[q.n].row[q.id])
    BY <1>3 DEF list_records
  <2>2. req' = [req EXCEPT ![r] = h]
    BY <1>3 DEF Fetch, Go
  <2>3. /\ h \in Request /\ h.pc = "write" /\ h.n = q.n /\ h.verb = q.verb /\ h.id = q.id /\ h.rule = q.rule
        /\ h.who = q.who /\ h.dirty = q.dirty
    BY <1>1 DEF Request
  <2> HIDE DEF h
  <2>4. Placed(h)
    BY <1>1, <2>3 DEF Placed, OnRecords
  <2>5. Authorised(h)
    BY <1>1, <2>1, <2>3 DEF Authorised
  <2>6. Moved(r, h)
    BY <1>1, <2>2, <2>3, MoveFacts DEF TypeOK
  <2> QED BY <1>1, <2>3, <2>4, <2>5, <2>6, QuietInv DEF Ddl
<1> QED BY <1>2, <1>3

\* The statements change rows only, and a change or removal found one.
LEMMA WriteFacts ==
  ASSUME NEW q \in Request, q.id \in Rec, NEW t \in Table
  PROVE  /\ \A u \in create_record(q, t) : u \in Table /\ u.there = t.there /\ u.cols = t.cols
         /\ \A u \in update_record(q, t) \cup delete_record(q, t) :
              u \in Table /\ u.there = t.there /\ u.cols = t.cols /\ t.row[q.id] # Absent
<1> DEFINE RowsOnly(u) == u \in Table /\ u.there = t.there /\ u.cols = t.cols
<1>1. ASSUME NEW x \in Value PROVE RowsOnly([t EXCEPT !.row[q.id] = x])
  BY <1>1 DEF Table
<1>2. q.val \in Value /\ Null \in Value /\ Absent \in Value /\ t.row[q.id] \in Value
  BY DEF Request, Value, Table
<1>3. ASSUME NEW u \in create_record(q, t) PROVE \E x \in Value : u = [t EXCEPT !.row[q.id] = x]
  BY <1>2, <1>3 DEF create_record
<1>4. ASSUME NEW u \in update_record(q, t) PROVE t.row[q.id] # Absent /\ \E x \in Value : u = [t EXCEPT !.row[q.id] = x]
  BY <1>2, <1>4 DEF update_record
<1>5. ASSUME NEW u \in delete_record(q, t) PROVE t.row[q.id] # Absent /\ \E x \in Value : u = [t EXCEPT !.row[q.id] = x]
  BY <1>2, <1>5 DEF delete_record
<1>6. ASSUME NEW u, \E x \in Value : u = [t EXCEPT !.row[q.id] = x] PROVE RowsOnly(u)
  <2>1. PICK x \in Value : u = [t EXCEPT !.row[q.id] = x]
    BY <1>6
  <2>2. RowsOnly([t EXCEPT !.row[q.id] = x])
    BY <1>1
  <2> HIDE DEF RowsOnly
  <2> QED BY <2>1, <2>2
<1> HIDE DEF RowsOnly
<1>7. \A u \in create_record(q, t) : RowsOnly(u)
  BY <1>3, <1>6
<1>8. \A u \in update_record(q, t) \cup delete_record(q, t) : RowsOnly(u) /\ t.row[q.id] # Absent
  BY <1>4, <1>5, <1>6
<1> QED BY <1>7, <1>8 DEF RowsOnly

LEMMA CommitInv ==
  ASSUME IInv, NEW r \in Req, NEW verb, NEW outcome, NEW owner, Commit(r, verb, outcome, owner),
         \A u \in outcome : /\ u \in Table /\ u.there = table[req[r].n].there /\ u.cols = table[req[r].n].cols
                            /\ ~req[r].dirty => Passes(req[r].who, get_rule(req[r].n, req[r].verb), owner)
  PROVE  IInv'
<1>0. PICK n \in Coll : IInv /\ TypeOK /\ n = req[r].n /\ req[r].pc = "write" /\ req[r] \in Request /\ n \in Name
  BY DEF IInv, Commit, At, TypeOK, Placed, OnRecords, Name
<1>1. UNCHANGED <<meta, rule, file, blob, torn, born, uploaded>> /\ access = TRUE /\ req[r].dirty \in BOOLEAN
  BY <1>0 DEF Commit, IInv, AccessInv, Request
<1>2. CASE outcome = {} /\ End(r) /\ UNCHANGED <<table, access>>
  BY <1>0, <1>1, <1>2, EndInv DEF Ddl, data
<1>3. CASE /\ \E t \in outcome : table' = [table EXCEPT ![n] = t]
           /\ req' = Disturb({n}, [req EXCEPT ![r] = Idle])
           /\ Record(r, {owner})
  <2>1. PICK t \in outcome : table' = [table EXCEPT ![n] = t]
    BY <1>3
  <2>2. Moved(r, Idle) /\ Placed(Idle) /\ Idle.pc = "idle" /\ \A q \in Req : req'[q].n = n => req'[q].dirty
    BY <1>0, <1>3, MoveFacts, IdleFacts DEF TypeOK
  <2>3. /\ table' \in [Name -> Table] /\ table'[n].there = table[n].there /\ table'[n].cols = table[n].cols
        /\ \A m \in Name \ {n} : table'[m] = table[m]
    BY <1>0, <2>1 DEF TypeOK
  <2>4. TypeOK' /\ FilesInv' /\ RulesInv'
    BY <1>0, <1>1, <2>2, <2>3, PlacedStays, FilesStay, RulesStay DEF IInv, TypeOK
  <2>5. access' = TRUE
    BY <1>0, <1>1, <1>3, <2>1, RecordFacts
  <2>6. AccessInv'
    <3>1. Authorised(Idle)'
      BY DEF Authorised, Idle
    <3>2. \A q \in Req : req'[q].pc \in {"lookup", "write"} => req'[q].n \in Name
      BY <2>4 DEF TypeOK, Placed, OnRecords, Name
    <3>3. \A q \in Req : req'[q].pc \in {"lookup", "write"} /\ ~req'[q].dirty => table'[req'[q].n] = table[req'[q].n]
      BY <2>2, <2>3, <3>2
    <3> QED BY <1>0, <1>1, <2>2, <2>5, <3>1, <3>3, AccessStays DEF IInv
  <2>7. SchemaInv'
    <3>1. \A m \in Coll : table'[m].there = table[m].there /\ table'[m].cols = table[m].cols /\ meta'[m] = meta[m]
      BY <1>1, <2>3 DEF Name
    <3> QED BY <1>0, <1>1, <2>2, <3>1, SchemasStay DEF IInv, Ddl
  <2> QED BY <2>4, <2>6, <2>7 DEF IInv
<1> QED BY <1>0, <1>2, <1>3 DEF Commit

LEMMA WriteInv ==
  ASSUME IInv, NEW r \in Req, Create(r) \/ Update(r) \/ Delete(r)
  PROVE  IInv'
<1> DEFINE q == req[r]
           t == table[q.n]
<1>1. /\ q.pc = "write" /\ q.id \in Rec /\ q \in Request /\ t \in Table /\ Authorised(q) /\ q.n \in Coll
  BY DEF Create, Update, Delete, Commit, At, IInv, TypeOK, Placed, OnRecords, Name, AccessInv
<1>2. ASSUME NEW o, ~q.dirty, q.who # Hook => Passes(q.who, q.rule, o)
      PROVE  Passes(q.who, get_rule(q.n, q.verb), o)
  <2>1. CASE q.who = Hook
    BY <2>1 DEF Passes
  <2>2. CASE q.who # Hook
    BY <1>1, <1>2, <2>2 DEF Authorised, get_rule
  <2> QED BY <2>1, <2>2
<1>3. CASE Create(r)
  <2>1. q.verb = "create" /\ Commit(r, "create", create_record(q, t), Null)
    BY <1>3 DEF Create, Commit
  <2>2. ~q.dirty => Passes(q.who, get_rule(q.n, q.verb), Null)
    BY <1>1, <1>2, <2>1 DEF Authorised
  <2> QED BY <1>1, <2>1, <2>2, WriteFacts, CommitInv
<1>4. CASE Update(r)
  <2>1. q.verb = "update" /\ Commit(r, "update", update_record(q, t), t.row[q.id])
    BY <1>4 DEF Update, Commit
  <2>2. ~q.dirty /\ t.row[q.id] # Absent => Passes(q.who, get_rule(q.n, q.verb), t.row[q.id])
    BY <1>1, <1>2, <2>1 DEF Authorised
  <2> QED BY <1>1, <2>1, <2>2, WriteFacts, CommitInv
<1>5. CASE Delete(r)
  <2>1. q.verb = "delete" /\ Commit(r, "delete", delete_record(q, t), t.row[q.id])
    BY <1>5 DEF Delete, Commit
  <2>2. ~q.dirty /\ t.row[q.id] # Absent => Passes(q.who, get_rule(q.n, q.verb), t.row[q.id])
    BY <1>1, <1>2, <2>1 DEF Authorised
  <2> QED BY <1>1, <2>1, <2>2, WriteFacts, CommitInv
<1> QED BY <1>3, <1>4, <1>5

LEMMA HookOpenInv ==
  ASSUME IInv, NEW r \in Req, NEW n \in Coll, NEW v \in {"create", "update", "delete"}, NEW i \in Rec,
         NEW val \in User \cup {Null}, HookOpen(r, v, n, i, val)
  PROVE  IInv'
<1> DEFINE h == [Idle EXCEPT !.pc = "write", !.n = n, !.who = Hook, !.verb = v, !.id = i,
                             !.val = val, !.old = meta[n].fields]
<1>1. /\ req' = [req EXCEPT ![r] = h] /\ UNCHANGED <<data, torn, born, access, uploaded>> /\ req[r].pc = "idle"
      /\ access = TRUE /\ TypeOK /\ meta[n].fields \subseteq Field
  BY DEF HookOpen, Begin, At, IInv, AccessInv, TypeOK
<1>2. h \in Request /\ h.pc = "write" /\ h.n = n /\ h.verb = v /\ h.id = i /\ h.who = Hook
  BY <1>1 DEF Idle, Request, Value, Rules, Name, Verb
<1> HIDE DEF h
<1>3. Placed(h) /\ Authorised(h)
  BY <1>2 DEF Placed, OnRecords, Authorised, Verb
<1>4. Moved(r, h)
  BY <1>1, <1>2, MoveFacts DEF TypeOK
<1> QED BY <1>1, <1>2, <1>3, <1>4, QuietInv DEF Ddl

-----------------------------------------------------------------------------
(* Files, crashes, and every step. *)

LEMMA FileInv ==
  ASSUME IInv, NEW r \in Req,
         (\E f \in File : Upload(r, f) \/ DeleteFile(r, f)) \/ PutBlob(r) \/ DeleteBlob(r)
  PROVE  IInv'
<1>0. /\ IInv /\ TypeOK /\ access = TRUE /\ UNCHANGED <<table, meta, rule, torn, born, access>>
      /\ req[r] \in Request /\ req[r].pc \in {"idle", "put", "unlink"}
  BY DEF IInv, Upload, DeleteFile, PutBlob, DeleteBlob, Begin, At, AccessInv, TypeOK
<1>1. PICK h \in Request :
        /\ Moved(r, h) /\ Placed(h) /\ h.pc \in {"idle", "put", "unlink"}
        /\ \/ \E f \in File : /\ file[f] = "none" /\ file' = [file EXCEPT ![f] = "row"] /\ UNCHANGED <<blob, uploaded>>
                              /\ h.pc = "put" /\ h.id = f
           \/ \E f \in File : /\ file[f] = "row" /\ file' = [file EXCEPT ![f] = "gone"] /\ UNCHANGED blob
                              /\ uploaded' = uploaded \ {f} /\ h.pc = "unlink" /\ h.id = f
           \/ /\ h.pc = "idle" /\ req[r].pc = "put" /\ UNCHANGED file
              /\ \/ UNCHANGED <<blob, uploaded>>
                 \/ /\ blob' = blob \cup {req[r].id}
                    /\ uploaded' = IF file[req[r].id] = "row" THEN uploaded \cup {req[r].id} ELSE uploaded
           \/ /\ h.pc = "idle" /\ req[r].pc = "unlink" /\ UNCHANGED <<file, uploaded>>
              /\ blob' = blob \ {req[r].id} \/ UNCHANGED blob
  <2>1. CASE \E f \in File : Upload(r, f)
    <3>1. PICK f \in File : Upload(r, f)
      BY <2>1
    <3> DEFINE h == [Idle EXCEPT !.pc = "put", !.id = f]
    <3>2. h \in Request /\ h.pc = "put" /\ h.id = f
      BY DEF Idle, Request, Value, Rules
    <3>3. req' = [req EXCEPT ![r] = h]
      BY <3>1 DEF Upload, Begin
    <3> HIDE DEF h
    <3>4. Moved(r, h) /\ Placed(h)
      BY <1>0, <3>2, <3>3, MoveFacts DEF TypeOK, Placed, OnRecords
    <3> QED BY <3>1, <3>2, <3>4 DEF Upload, insert_file
  <2>2. CASE \E f \in File : DeleteFile(r, f)
    <3>1. PICK f \in File : DeleteFile(r, f)
      BY <2>2
    <3> DEFINE h == [Idle EXCEPT !.pc = "unlink", !.id = f]
    <3>2. h \in Request /\ h.pc = "unlink" /\ h.id = f
      BY DEF Idle, Request, Value, Rules
    <3>3. req' = [req EXCEPT ![r] = h]
      BY <3>1 DEF DeleteFile, Begin
    <3> HIDE DEF h
    <3>4. Moved(r, h) /\ Placed(h)
      BY <1>0, <3>2, <3>3, MoveFacts DEF TypeOK, Placed, OnRecords
    <3> QED BY <3>1, <3>2, <3>4 DEF DeleteFile, delete_file
  <2>3. CASE PutBlob(r) \/ DeleteBlob(r)
    <3>1. Moved(r, Idle) /\ Placed(Idle) /\ Idle \in Request /\ Idle.pc = "idle"
      BY <1>0, <2>3, MoveFacts, IdleFacts DEF PutBlob, DeleteBlob, End, TypeOK
    <3> QED BY <2>3, <3>1 DEF PutBlob, DeleteBlob, put, remove, At
  <2> QED BY <2>1, <2>2, <2>3
<1>2. file' \in [File -> {"none", "row", "gone"}]
  BY <1>0, <1>1 DEF TypeOK
<1>3. TypeOK' /\ RulesInv'
  BY <1>0, <1>1, <1>2, PlacedStays, RulesStay DEF IInv, TypeOK
<1>4. FilesInv'
  <2>1. /\ \A f \in uploaded : f \in File /\ file[f] = "row" /\ f \in blob
        /\ \A q \in Req : /\ req[q].pc = "put" => req[q].id \in File
                          /\ req[q].pc = "unlink" => req[q].id \in File /\ file[req[q].id] = "gone"
    BY <1>0 DEF IInv, FilesInv
  <2>2. \A f \in File : file[f] = "gone" => file'[f] = "gone"
    BY <1>0, <1>1 DEF TypeOK
  <2>3. ASSUME NEW f \in uploaded' PROVE f \in File /\ file'[f] = "row" /\ f \in blob'
    <3>1. file \in [File -> {"none", "row", "gone"}]
      BY <1>0 DEF TypeOK
    <3>2. CASE \E g \in File : /\ file[g] = "none" /\ file' = [file EXCEPT ![g] = "row"]
                               /\ UNCHANGED <<blob, uploaded>>
      BY <2>1, <2>3, <3>1, <3>2
    <3>3. CASE \E g \in File : /\ file[g] = "row" /\ file' = [file EXCEPT ![g] = "gone"] /\ UNCHANGED blob
                               /\ uploaded' = uploaded \ {g}
      BY <2>1, <2>3, <3>1, <3>3
    <3>4. CASE /\ UNCHANGED file /\ req[r].pc = "put"
               /\ \/ UNCHANGED <<blob, uploaded>>
                  \/ /\ blob' = blob \cup {req[r].id}
                     /\ uploaded' = IF file[req[r].id] = "row" THEN uploaded \cup {req[r].id} ELSE uploaded
      BY <2>1, <2>3, <3>4
    <3>5. CASE /\ req[r].pc = "unlink" /\ UNCHANGED <<file, uploaded>>
               /\ blob' = blob \ {req[r].id} \/ UNCHANGED blob
      <4>1. file[req[r].id] = "gone"
        BY <2>1, <3>5
      <4> QED BY <2>1, <2>3, <3>5, <4>1
    <3> QED BY <1>1, <3>2, <3>3, <3>4, <3>5
  <2>4. /\ h.pc = "put" => h.id \in File
        /\ h.pc = "unlink" => h.id \in File /\ file'[h.id] = "gone"
    BY <1>0, <1>1 DEF TypeOK
  <2>5. ASSUME NEW q \in Req
        PROVE  /\ req'[q].pc = "put" => req'[q].id \in File
               /\ req'[q].pc = "unlink" => req'[q].id \in File /\ file'[req'[q].id] = "gone"
    BY <1>1, <2>1, <2>2, <2>4 DEF Moved, Same
  <2> QED BY <2>3, <2>5 DEF FilesInv
<1>5. AccessInv'
  <2>1. Authorised(h)' /\ access' = TRUE
    BY <1>0, <1>1 DEF Authorised
  <2> QED BY <1>0, <1>1, <2>1, AccessStays DEF IInv
<1>6. SchemaInv'
  BY <1>0, <1>1, SchemasStay DEF IInv, Ddl
<1> QED BY <1>3, <1>4, <1>5, <1>6 DEF IInv

LEMMA CrashInv ==
  ASSUME IInv, Crash
  PROVE  IInv'
<1>1. /\ UNCHANGED <<table, meta, rule, file, blob, born, access, uploaded>> /\ IInv
      /\ torn' = torn \cup {req[r].n : r \in {q \in Req : Halfway(req[q])}} /\ req' = [r \in Req |-> Idle]
  BY DEF Crash, data
<1>2. req' \in [Req -> Request] /\ \A q \in Req : req'[q].pc = "idle" /\ Placed(req'[q])
  BY <1>1, IdleFacts
<1>3. TypeOK' /\ FilesInv' /\ RulesInv'
  BY <1>1, <1>2 DEF IInv, TypeOK, FilesInv, RulesInv
<1>4. AccessInv'
  BY <1>1, <1>2 DEF IInv, AccessInv, Authorised
<1>5. SchemaInv'
  <2> SUFFICES ASSUME NEW n \in Coll \ torn'
               PROVE  /\ Solo(n)' /\ (Working(n)' = {} => Agree(n)')
                      /\ \A q \in Working(n)' : Progress(n, req[q])'
    BY DEF SchemaInv
  <2>1. Working(n)' = {}
    BY <1>2 DEF Working
  <2>2. n \notin torn /\ \A q \in Req : Halfway(req[q]) => req[q].n # n
    BY <1>1
  <2>3. ASSUME Working(n) = {} PROVE Agree(n)
    BY <1>1, <2>2, <2>3 DEF IInv, SchemaInv
  <2>4. ASSUME Working(n) # {} PROVE Agree(n)
    <3>1. PICK q \in Req : req[q].n = n /\ req[q].pc \in Ddl
      BY <2>4 DEF Working, Ddl
    <3> QED BY <1>1, <2>2, <3>1, NotHalfway DEF IInv
  <2>5. Agree(n)
    BY <2>3, <2>4
  <2> QED BY <1>1, <2>1, <2>5 DEF Agree, Solo
<1> QED BY <1>3, <1>4, <1>5 DEF IInv

LEMMA InitIInv == Init => IInv
<1> SUFFICES ASSUME Init PROVE IInv
  OBVIOUS
<1>1. /\ \A n \in Name : table[n] \in Table /\ table[n].there = (n \in Internal) /\ table[n].cols = {}
      /\ table \in [Name -> Table]
  <2>1. ASSUME NEW n \in Name
        PROVE  LET t == [NoTable EXCEPT !.there = n \in Internal]
               IN t \in Table /\ t.there = (n \in Internal) /\ t.cols = {}
    <3> DEFINE t == [there |-> n \in Internal, cols |-> {}, row |-> [i \in Rec |-> Absent]]
    <3>1. [NoTable EXCEPT !.there = n \in Internal] = t
      BY DEF NoTable
    <3>2. t.there = (n \in Internal) /\ t.cols = {}
      OBVIOUS
    <3>3. t \in Table
      <4>1. (n \in Internal) \in BOOLEAN
        <5>1. CASE n \in Internal
          BY <5>1
        <5>2. CASE n \notin Internal
          BY <5>2
        <5> QED BY <5>1, <5>2
      <4>2. [i \in Rec |-> Absent] \in [Rec -> Value]
        BY DEF Value
      <4> QED BY <4>1, <4>2, Zenon DEF Table
    <3> QED BY <3>1, <3>2, <3>3, Zenon
  <2>2. \A n \in Name : table[n] = [NoTable EXCEPT !.there = n \in Internal]
    BY DEF Init
  <2>3. table = [n \in Name |-> table[n]]
    BY DEF Init
  <2> QED BY <2>1, <2>2, <2>3
<1>2. meta \in [Coll -> [there : BOOLEAN, fields : SUBSET Field]] /\ \A n \in Coll : meta[n].there = FALSE /\ meta[n].fields = {}
  BY NoTableFacts DEF Init
<1>3. TypeOK
  <2>1. rule \in [Coll -> [Verb -> Rules]] /\ file \in [File -> {"none", "row", "gone"}] /\ born \in [Coll -> SUBSET Verb]
    BY DEF Init, Rules
  <2> QED BY <1>1, <1>2, <2>1, IdleFacts DEF Init, TypeOK
<1>4. FilesInv /\ RulesInv /\ AccessInv
  BY IdleFacts DEF Init, FilesInv, RulesInv, AccessInv, Authorised
<1>5. \A n \in Coll : Working(n) = {} /\ Agree(n)
  <2> SUFFICES ASSUME NEW n \in Coll PROVE Working(n) = {} /\ Agree(n)
    OBVIOUS
  <2>1. n \in Name /\ n \notin Internal
    BY RecordConstants DEF Name
  <2>2. table[n].there = (n \in Internal) /\ table[n].cols = {}
    BY <1>1, <2>1, Zenon
  <2>3. (n \in Internal) = FALSE
    BY <2>1
  <2>4. Agree(n)
    <3>1. table[n].there = FALSE
      BY <2>2, <2>3, Zenon
    <3> QED BY <1>2, <2>2, <3>1 DEF Agree
  <2>5. Working(n) = {}
    BY IdleFacts DEF Init, Working, Ddl
  <2> QED BY <2>4, <2>5
<1>6. SchemaInv
  BY <1>5 DEF SchemaInv, Solo
<1> QED BY <1>3, <1>4, <1>6 DEF IInv

LEMMA NextIInv == IInv /\ [Next]_vars => IInv'
<1> SUFFICES ASSUME IInv, [Next]_vars PROVE IInv'
  OBVIOUS
<1>1. ASSUME NEW r \in Req, Handlers(r) PROVE IInv'
  <2>1. CASE \E n \in Name : (\E S \in SUBSET Field : CreateFind(r, n, S)) \/ DeleteDrop(r, n)
    BY <2>1, CreateFindInv, DeleteDropInv
  <2>2. CASE CreateTable(r) \/ CreateMeta(r) \/ PatchAdd(r) \/ PatchDrop(r) \/ PatchMeta(r) \/ DeleteMeta(r)
    BY <2>2, CreateTableInv, CreateMetaInv, PatchAddInv, PatchDropInv, PatchMetaInv, DeleteMetaInv
  <2>3. CASE \E n \in Coll, S \in SUBSET Field, force \in BOOLEAN : PatchFind(r, n, S, force)
    BY <2>3, PatchFindInv
  <2>4. CASE \E n \in Coll, v \in Verb, f \in {"null", "open", "own"} : PutRuleFind(r, n, v, f)
    BY <2>4, PutRuleFindInv
  <2>5. CASE \E n \in Coll, who \in Principal, v \in Verb, i \in Rec, val \in User \cup {Null} :
               OpenSchema(r, n, who, v, i, val)
    BY <2>5, OpenSchemaInv
  <2>6. CASE PutRule(r) \/ authorize_record_action(r) \/ List(r) \/ Get(r) \/ Create(r) \/ Update(r) \/ Delete(r)
    BY <2>6, PutRuleInv, AuthorizeInv, ReadInv, WriteInv
  <2>7. CASE UpdateFetch(r) \/ DeleteFetch(r)
    BY <2>7, FetchInv DEF UpdateFetch, DeleteFetch
  <2>8. CASE HookVeto(r)
    <3>1. End(r) /\ req[r].pc = "write" /\ UNCHANGED <<data, torn, born, access, uploaded>> /\ access = TRUE
      BY <2>8 DEF HookVeto, At, IInv, AccessInv
    <3> QED BY <3>1, EndInv DEF Ddl
  <2>9. CASE \E n \in Coll, i \in Rec, val \in User \cup {Null} : HookCreate(r, n, i, val) \/ HookUpdate(r, n, i, val)
    BY <2>9, HookOpenInv DEF HookCreate, HookUpdate
  <2>10. CASE \E n \in Coll, i \in Rec : HookDelete(r, n, i)
    BY <2>10, HookOpenInv DEF HookDelete
  <2>11. CASE (\E f \in File : Upload(r, f) \/ DeleteFile(r, f)) \/ PutBlob(r) \/ DeleteBlob(r)
    BY <2>11, FileInv
  <2>12. CASE Abandon(r)
    BY <2>12, CutInv DEF Abandon
  <2> QED BY <1>1, <2>1, <2>2, <2>3, <2>4, <2>5, <2>6, <2>7, <2>8, <2>9, <2>10, <2>11, <2>12 DEF Handlers
<1>2. CASE \E n \in Coll, v \in Verb : DeleteRule(n, v)
  BY <1>2, DeleteRuleInv
<1>3. CASE Crash
  BY <1>3, CrashInv
<1>4. CASE UNCHANGED vars
  <2>1. UNCHANGED <<table, meta, rule, file, blob, req, torn, born, access, uploaded>> /\ IInv
    BY <1>4 DEF vars, data
  <2>2. TypeOK' /\ FilesInv' /\ RulesInv' /\ AccessInv'
    BY <2>1 DEF IInv, TypeOK, FilesInv, RulesInv, AccessInv, Authorised
  <2>3. SchemaInv'
    BY <2>1 DEF IInv, SchemaInv, Solo, Working, Agree, Progress
  <2> QED BY <2>2, <2>3 DEF IInv
<1> QED BY <1>1, <1>2, <1>3, <1>4 DEF Next

LEMMA Invariant == Spec => []IInv
BY InitIInv, NextIInv, PTL DEF Spec

-----------------------------------------------------------------------------

\* A collection nobody is working on agrees with its table, unless its DDL requests
\* overlapped, got only halfway (a statement failed, the connection dropped, the process died)
\* or the meta table itself was dropped: for any number of collections, fields and concurrent
\* requests (collections.rs).
THEOREM SchemasAgree == Spec => []SchemaAgrees
<1>1. IInv => SchemaAgrees
  BY DEF IInv, SchemaInv, SchemaAgrees, Agree
<1> QED BY <1>1, Invariant, PTL

\* A re-created collection starts without the rules of its predecessor, because a rule never
\* outlives its meta row (access_rules.rs).
THEOREM RulesAreNotInherited == Spec => []NoInheritedRule
<1>1. IInv => NoInheritedRule
  BY DEF IInv, RulesInv, NoInheritedRule
<1> QED BY <1>1, Invariant, PTL

\* Every undisturbed access to a record is within the rules in force, across the awaits
\* between the check and the statement (records.rs).
THEOREM AccessesAreAllowed == Spec => []AccessWithinRules
<1>1. IInv => AccessWithinRules
  BY DEF IInv, AccessInv, AccessWithinRules
<1> QED BY <1>1, Invariant, PTL

\* An upload that was answered 201 and not deleted has its row and its bytes (files.rs).
THEOREM UploadsComplete == Spec => []UploadsAreComplete
<1>1. IInv => UploadsAreComplete
  BY DEF IInv, FilesInv, UploadsAreComplete
<1> QED BY <1>1, Invariant, PTL

-----------------------------------------------------------------------------
(* Realtime. *)

\* A connection between authorize_subscribe and its end.
Streaming == {"subscribe", "create", "open"}

\* The filters a subscription can end up with.
Parsed(r, x) == {NoFilter, RuleFilter(r).n, ClientFilter(x).n, And(RuleFilter(r).n, ClientFilter(x).n)}
Effective == {NoFilter} \cup UNION {Parsed(r, x) : r \in ListRules \ {"deny"}, x \in ClientTexts}

ConnRec == [st : {"idle", "gone", "admitted"} \cup Streaming, sub : Subjects,
            rule : ListRules, filter : Effective, chan : Nat, pos : Nat, since : Nat,
            seen : SUBSET Nat, got : SUBSET Shown, lagged : BOOLEAN]

Event == {[kind |-> k, rec |-> rec] : k \in {"created", "updated"}, rec \in Shown}
         \cup {[kind |-> "deleted", rec |-> NullV]}

\* What EventsWithinRule says of one record on one connection.
Allows(q, rec) ==
  \/ q.sub = "admin"
  \/ /\ q.sub = "user" /\ q.rule \notin {"deny", "typo"}
     /\ q.rule = "owner" => rec.s = UserId
     /\ q.rule = "email" => rec.s = NullV

\* A subscription's filter lets through only what its rule allows.
Screened(q) ==
  q.st \in Streaming => \A rec \in Shown : q.filter = NoFilter \/ Matches(q.filter, rec) => Allows(q, rec)

\* What a connection was handed.
Handed(q) ==
  /\ q.st \notin Streaming => q.got = {}
  /\ \A rec \in q.got : Allows(q, rec)

\* An open stream's place in its channel.
Joined(q) ==
  q.st = "open" => q.chan \in 1..Len(log) /\ q.pos <= Len(log[q.chan]) /\ q.since <= Len(published)

\* What NoSilentLoss says of one connection.
Complete(q) ==
  q.st = "open" /\ q.chan \in alive /\ ~q.lagged =>
    \A i \in (q.since + 1)..Len(published) :
      i \in q.seen \/ \E j \in (q.pos + 1)..Len(log[q.chan]) : log[q.chan][j] = i

ConnOK(q) == q \in ConnRec /\ Screened(q) /\ Handed(q) /\ Joined(q) /\ Complete(q)

\* The map holds the only Sender of the channel in it, and channels carry published events.
Brokered ==
  /\ published \in Seq(Event)
  /\ log \in Seq(Seq(Nat)) /\ \A k \in 1..Len(log) : \A j \in 1..Len(log[k]) : log[k][j] \in 1..Len(published)
  /\ chan \in 0..Len(log) /\ alive = {chan} \ {NoChan}

\* A writer publishes what it wrote or read back.
WriterRec == [st : {"ready", "reread", "publish", "remove"}, ev : Event \cup {NullV}]
Writing ==
  /\ row \in {NoRow} \cup {Stored(f) : f \in Fields} /\ listRule \in ListRules
  /\ writer \in [Writers -> WriterRec] /\ \A w \in Writers : writer[w].st = "publish" => writer[w].ev \in Event

\* Every token is some subject's.
Held == \A t \in tokens : t.sub \in Subjects

\* What holds of every connection.
Streams == conn = [c \in Conns |-> conn[c]] /\ \A c \in Conns : ConnOK(conn[c])

RtInv == Held /\ Writing /\ Brokered /\ Streams

\* An action that leaves a part of the state alone keeps what is said of it.
LEMMA RtFrames ==
  /\ Held /\ UNCHANGED tokens => Held'
  /\ Writing /\ UNCHANGED <<row, listRule, writer>> => Writing'
  /\ Brokered /\ UNCHANGED <<published, log, chan, alive>> => Brokered'
  /\ Streams /\ UNCHANGED <<conn, published, log, alive>> => Streams'
<1>1. Held /\ UNCHANGED tokens => Held'
  BY DEF Held
<1>2. Writing /\ UNCHANGED <<row, listRule, writer>> => Writing'
  BY DEF Writing
<1>3. Brokered /\ UNCHANGED <<published, log, chan, alive>> => Brokered'
  BY DEF Brokered
<1>4. Streams /\ UNCHANGED <<conn, published, log, alive>> => Streams'
  BY DEF Streams, ConnOK, Screened, Handed, Joined, Complete, Allows
<1>. QED  BY <1>1, <1>2, <1>3, <1>4

\* An action on one connection only has to look at that one.
LEMMA OneConn ==
  ASSUME Streams, NEW c \in Conns, NEW q, ConnOK(q), conn' = [conn EXCEPT ![c] = q],
         UNCHANGED <<published, log, alive>>
  PROVE  Streams'
<1>1. /\ conn' = [d \in Conns |-> conn'[d]]
      /\ \A d \in Conns : conn'[d] = IF d = c THEN q ELSE conn[d]
  BY DEF Streams
<1>2. \A d \in Conns : ConnOK(conn'[d])
  BY <1>1 DEF Streams
<1>3. ASSUME NEW d \in Conns PROVE ConnOK(conn[d])'
  BY <1>2 DEF ConnOK, Screened, Handed, Joined, Complete, Allows
<1>. QED  BY <1>1, <1>3 DEF Streams

\* The broker starts without channels, and nobody is connected.
LEMMA InitRtInv == RtInit => RtInv
<1>. SUFFICES ASSUME RtInit PROVE RtInv
  OBVIOUS
<1>1. Held
  <2>1. \A t \in tokens : t \in {LegacyToken, StrangeToken}
    BY RealtimeBounds DEF RtInit
  <2>. QED  BY <2>1 DEF Held, LegacyToken, StrangeToken, Subjects
<1>2. Writing
  BY RealtimeBounds DEF Writing, RtInit, WriterRec, Ready
<1>3. Brokered
  BY DEF Brokered, RtInit, NoChan
<1>4. Streams
  <2>1. ConnOK(NoConn)
    BY DEF ConnOK, ConnRec, NoConn, Screened, Handed, Joined, Complete, Streaming, Subjects, ListRules, Effective, NoChan
  <2>. QED  BY <2>1 DEF Streams, RtInit
<1>. QED  BY <1>1, <1>2, <1>3, <1>4 DEF RtInv

\* Writers.
LEMMA WritingSteps ==
  ASSUME Writing, NEW w \in Writers, NEW f \in Fields,
         \/ CreateRecord(w, f) \/ UpdateRecord(w, f) \/ Reread(w) \/ DeleteRecord(w)
         \/ Publish(w) \/ RemoveChannel(w)
  PROVE  Writing'
<1>2. Fields \subseteq Shown /\ \A g \in Fields : row_to_record(Stored(g)) \in Shown
  BY DEF Shown
<1>3. ASSUME NEW q \in WriterRec, q.st = "publish" => q.ev \in Event, writer' = [writer EXCEPT ![w] = q],
             row' \in {NoRow} \cup {Stored(g) : g \in Fields}, UNCHANGED listRule
      PROVE  Writing'
  <2>1. writer' \in [Writers -> WriterRec] /\ \A x \in Writers : writer'[x] = IF x = w THEN q ELSE writer[x]
    BY <1>3 DEF Writing
  <2>. QED  BY <1>3, <2>1 DEF Writing
<1>4. CASE CreateRecord(w, f)
  <2>. DEFINE q == [st |-> "publish", ev |-> [kind |-> "created", rec |-> f]]
  <2>1. q.ev \in Event /\ q \in WriterRec
    BY <1>2 DEF Event, WriterRec
  <2>2. writer' = [writer EXCEPT ![w] = q] /\ row' = Stored(f) /\ UNCHANGED listRule
    BY <1>4 DEF CreateRecord
  <2>. HIDE DEF q
  <2>. QED  BY <2>1, <2>2, <1>3
<1>5. CASE UpdateRecord(w, f)
  <2>. DEFINE q == [writer[w] EXCEPT !.st = "reread"]
  <2>1. q \in WriterRec /\ q.st # "publish"
    BY DEF Writing, WriterRec
  <2>2. writer' = [writer EXCEPT ![w] = q] /\ row' = Stored(f) /\ UNCHANGED listRule
    BY <1>5 DEF UpdateRecord
  <2>. HIDE DEF q
  <2>. QED  BY <2>1, <2>2, <1>3
<1>6. CASE Reread(w)
  <2>. DEFINE ev == [kind |-> "updated", rec |-> row_to_record(row)]
              q == IF row = NoRow THEN Ready ELSE [st |-> "publish", ev |-> ev]
  <2>1. CASE row = NoRow
    <3>1. q \in WriterRec /\ q.st # "publish"
      BY <2>1 DEF WriterRec, Ready
    <3>2. writer' = [writer EXCEPT ![w] = q] /\ row' = row /\ UNCHANGED listRule
      BY <1>6 DEF Reread
    <3>. HIDE DEF q
    <3>. QED  BY <3>1, <3>2, <1>3 DEF Writing
  <2>2. CASE row # NoRow
    <3>1. ev \in Event
      BY <2>2, <1>2 DEF Writing, Event
    <3>2. q \in WriterRec /\ q.ev = ev
      BY <2>2, <3>1 DEF WriterRec
    <3>3. writer' = [writer EXCEPT ![w] = q] /\ row' = row /\ UNCHANGED listRule
      BY <1>6 DEF Reread
    <3>. HIDE DEF q, ev
    <3>. QED  BY <3>1, <3>2, <3>3, <1>3 DEF Writing
  <2>. QED  BY <2>1, <2>2
<1>7. CASE DeleteRecord(w)
  <2>. DEFINE q == [st |-> "publish", ev |-> [kind |-> "deleted", rec |-> NullV]]
  <2>1. q.ev \in Event /\ q \in WriterRec
    BY DEF Event, WriterRec
  <2>2. writer' = [writer EXCEPT ![w] = q] /\ row' = NoRow /\ UNCHANGED listRule
    BY <1>7 DEF DeleteRecord
  <2>. HIDE DEF q
  <2>. QED  BY <2>1, <2>2, <1>3
<1>8. CASE Publish(w) \/ RemoveChannel(w)
  <2>1. PICK q \in {Ready, [Ready EXCEPT !.st = "remove"]} :
          writer' = [writer EXCEPT ![w] = q] /\ row' = row /\ UNCHANGED listRule
    BY <1>8 DEF Publish, RemoveChannel
  <2>2. q \in WriterRec /\ q.st # "publish"
    BY <2>1 DEF WriterRec, Ready
  <2>. QED  BY <2>1, <2>2, <1>3 DEF Writing
<1>. QED  BY <1>4, <1>5, <1>6, <1>7, <1>8

\* Channels and appended events.
LEMMA Channels ==
  ASSUME Brokered
  PROVE  /\ Len(published) \in Nat /\ Len(log) \in Nat
         /\ \A i \in 1..Len(published) : published[i] \in Event
         /\ \A k \in 1..Len(log) : log[k] \in Seq(Nat) /\ Len(log[k]) \in Nat
         /\ \A k \in 1..Len(log) : \A j \in 1..Len(log[k]) : log[k][j] \in 1..Len(published)
<1>1. published \in Seq(Event) /\ log \in Seq(Seq(Nat))
  BY DEF Brokered
<1>2. Len(published) \in Nat /\ \A i \in 1..Len(published) : published[i] \in Event
  BY <1>1
<1>3. Len(log) \in Nat /\ \A k \in 1..Len(log) : log[k] \in Seq(Nat)
  BY <1>1
<1>4. \A k \in 1..Len(log) : Len(log[k]) \in Nat
  BY <1>3
<1>. QED  BY <1>2, <1>3, <1>4 DEF Brokered

\* What Append does, spelled out once.
LEMMA Appended ==
  ASSUME NEW g \in Seq(Nat), NEW e \in Nat
  PROVE  /\ Append(g, e) \in Seq(Nat) /\ Len(Append(g, e)) = Len(g) + 1 /\ Len(g) \in Nat
         /\ \A j \in 1..Len(g) + 1 : Append(g, e)[j] = IF j = Len(g) + 1 THEN e ELSE g[j]
OBVIOUS

\* The broker: channels only grow, and the map keeps the only Sender.
LEMMA BrokerSteps ==
  ASSUME Writing, Brokered, NEW c, NEW w, SubscribeNew(c) \/ (w \in Writers /\ Publish(w)) \/ RemoveChannel(w)
  PROVE  Brokered'
<1>1. CASE SubscribeNew(c)
  <2>1. /\ log' = Append(log, <<>>) /\ chan' = Len(log) + 1 /\ alive' = (alive \ {chan}) \cup {chan'}
        /\ published' = published
    BY <1>1 DEF SubscribeNew
  <2>2. <<>> \in Seq(Nat) /\ Len(<<>>) = 0
    OBVIOUS
  <2>3. /\ log' \in Seq(Seq(Nat)) /\ Len(log') = Len(log) + 1
        /\ \A k \in 1..Len(log') : log'[k] = IF k = Len(log) + 1 THEN <<>> ELSE log[k]
    BY <2>1, <2>2 DEF Brokered
  <2>4. \A k \in 1..Len(log') : \A j \in 1..Len(log'[k]) : log'[k][j] \in 1..Len(published')
    BY <2>1, <2>2, <2>3 DEF Brokered
  <2>5. chan' \in 0..Len(log') /\ alive' = {chan'} \ {NoChan}
    BY <2>1, <2>3 DEF Brokered, NoChan
  <2>. QED  BY <2>1, <2>3, <2>4, <2>5 DEF Brokered
<1>2. CASE w \in Writers /\ Publish(w)
  <2>1. writer[w].ev \in Event
    BY <1>2 DEF Writing, Publish
  <2>2. /\ published' \in Seq(Event) /\ Len(published') = Len(published) + 1
        /\ UNCHANGED <<chan, alive>>
    BY <1>2, <2>1 DEF Brokered, Publish
  <2>3. CASE log' = log
    BY <2>2, <2>3 DEF Brokered
  <2>4. CASE chan # NoChan /\ log' = [log EXCEPT ![chan] = Append(@, Len(published) + 1)]
    <3>1. chan \in 1..Len(log) /\ log \in Seq(Seq(Nat)) /\ Len(published) + 1 \in Nat /\ log[chan] \in Seq(Nat)
      BY <2>4 DEF Brokered, NoChan
    <3>. DEFINE h == Append(log[chan], Len(published) + 1)
    <3>2. /\ h \in Seq(Nat) /\ Len(h) = Len(log[chan]) + 1
          /\ \A j \in 1..Len(h) : h[j] = IF j = Len(log[chan]) + 1 THEN Len(published) + 1 ELSE log[chan][j]
      BY <3>1, Appended
    <3>. HIDE DEF h
    <3>3. /\ log' \in Seq(Seq(Nat)) /\ Len(log') = Len(log)
          /\ \A k \in 1..Len(log) : log'[k] = IF k = chan THEN h ELSE log[k]
      BY <3>1, <3>2, <2>4 DEF h
    <3>4. \A k \in 1..Len(log') : \A j \in 1..Len(log'[k]) : log'[k][j] \in 1..Len(published')
      <4>1. ASSUME NEW k \in 1..Len(log'), NEW j \in 1..Len(log'[k]) PROVE log'[k][j] \in 1..Len(published')
        <5>1. k \in 1..Len(log) /\ \A i \in 1..Len(log[k]) : log[k][i] \in 1..Len(published)
          BY <3>3 DEF Brokered
        <5>2. CASE k = chan
          <6>1. log'[k] = h /\ j \in 1..Len(h) /\ Len(published) \in Nat /\ Len(log[chan]) \in Nat
            BY <5>1, <5>2, <4>1, <3>1, <3>3, Channels
          <6>2. h[j] = IF j = Len(log[chan]) + 1 THEN Len(published) + 1 ELSE log[chan][j]
            BY <6>1, <3>2
          <6>3. CASE j = Len(log[chan]) + 1
            BY <6>1, <6>2, <6>3, <2>2
          <6>4. CASE j # Len(log[chan]) + 1
            <7>1. j \in 1..Len(log[chan])
              BY <6>1, <6>4, <3>2
            <7>. QED  BY <7>1, <6>1, <6>2, <6>4, <5>1, <5>2, <2>2
          <6>. QED  BY <6>3, <6>4
        <5>3. CASE k # chan
          <6>1. log'[k] = log[k]
            BY <5>1, <5>3, <3>3
          <6>. QED  BY <6>1, <5>1, <4>1, <2>2
        <5>. QED  BY <5>2, <5>3
      <4>. QED  BY <4>1
    <3>. QED  BY <2>2, <3>3, <3>4 DEF Brokered
  <2>. QED  BY <1>2, <2>3, <2>4 DEF Publish
<1>3. CASE RemoveChannel(w)
  BY <1>3 DEF Brokered, RemoveChannel, NoChan
<1>. QED  BY <1>1, <1>2, <1>3

\* An idle, admitted or closed connection has nothing to keep but its shape.
LEMMA NotStreaming ==
  ASSUME NEW q \in ConnRec, q.st \notin Streaming, q.got = {}
  PROVE  ConnOK(q)
BY DEF ConnOK, Screened, Handed, Joined, Complete, Streaming

\* A closed connection is in order.
LEMMA ClosedConn == ConnOK(Gone) /\ Gone.st = "gone" /\ NoConn \in ConnRec
<1>1. NoConn \in ConnRec
  BY DEF ConnRec, NoConn, Streaming, Subjects, ListRules, Effective, NoChan
<1>2. Gone \in ConnRec /\ Gone.st = "gone" /\ Gone.got = {}
  BY <1>1 DEF Gone, ConnRec, NoConn
<1>. QED  BY <1>1, <1>2, NotStreaming DEF Streaming

\* A connection that is admitted or refused.
LEMMA PresentStep ==
  ASSUME RtInv, NEW c \in Conns, NEW t \in tokens, NEW a, NEW b, Present(c, t, a, b)
  PROVE  Streams'
<1>. Streams /\ t.sub \in Subjects
  BY DEF RtInv, Held
<1>. DEFINE who == [NoConn EXCEPT !.st = "admitted", !.sub = t.sub]
<1>1. who \in ConnRec /\ who.got = {} /\ who.st \notin Streaming
  BY ClosedConn DEF ConnRec, NoConn, Streaming
<1>. HIDE DEF who
<1>2. ConnOK(who)
  BY <1>1, NotStreaming
<1>3. PICK q \in {Gone, who} : conn' = [conn EXCEPT ![c] = q]
  BY DEF Present, who
<1>4. ConnOK(q)
  BY <1>2, <1>3, ClosedConn
<1>5. UNCHANGED <<published, log, alive>>
  BY DEF Present
<1>. QED  BY <1>3, <1>4, <1>5, OneConn

\* A user's filter demands what the rule does, whatever the client adds to it.
LEMMA RuleScreens ==
  ASSUME NEW r \in ListRules, r \notin {"deny"}, RuleFilter(r).ok, NEW x \in ClientTexts, ClientFilter(x).ok,
         NEW rec \in Shown, NEW f, f = intersect_filters(RuleFilter(r).n, ClientFilter(x).n),
         f = NoFilter \/ Matches(f, rec)
  PROVE  r # "typo" /\ (r = "owner" => rec.s = UserId) /\ (r = "email" => rec.s = NullV)
<1>1. r # "typo"
  BY RuleFilters
<1>2. ASSUME r \in {"owner", "email"} PROVE rec.s = Demanded[r]
  <2>. DEFINE g == RuleFilter(r).n
              h == ClientFilter(x).n
  <2>0. r \in DOMAIN Demanded
    BY <1>2 DEF Demanded
  <2>1. g # NoFilter /\ (Matches(g, rec) => rec.s = Demanded[r])
    BY <2>0, RuleFilters
  <2>2. h # NoFilter /\ Matches(And(g, h), rec) => Matches(g, rec)
    BY <2>0, RuleFilters
  <2>. HIDE DEF g, h
  <2>3. And(g, h) # NoFilter
    <3>1. "op" \in DOMAIN And(g, h) /\ "op" \notin DOMAIN NoFilter
      BY DEF And, NoFilter, NullV
    <3>. QED  BY <3>1
  <2>4. f = IF h = NoFilter THEN g ELSE And(g, h)
    BY <2>1 DEF intersect_filters, g, h
  <2>. QED  BY <2>1, <2>2, <2>3, <2>4
<1>. QED  BY <1>1, <1>2 DEF Demanded

\* authorize_subscribe: refused, or a filter within the rule.
LEMMA AuthorizeStep ==
  ASSUME RtInv, NEW c \in Conns, NEW x \in ClientTexts, Authorize(c, x)
  PROVE  Streams'
<1>. DEFINE s == conn[c].sub
            cf == ClientFilter(x)
            rf == RuleFilter(listRule)
            q(f) == [conn[c] EXCEPT !.st = "subscribe", !.filter = f, !.rule = listRule]
            both == intersect_filters(rf.n, cf.n)
<1>0. Streams /\ listRule \in ListRules /\ UNCHANGED <<published, log, alive>>
  BY DEF RtInv, Writing, Authorize
<1>1. conn[c] \in ConnRec /\ conn[c].got = {}
  BY <1>0 DEF Streams, ConnOK, Handed, Authorize, Streaming
<1>2. ASSUME NEW f \in Effective, \A rec \in Shown : f = NoFilter \/ Matches(f, rec) => Allows(q(f), rec)
      PROVE  ConnOK(q(f))
  <2>1. q(f) \in ConnRec /\ q(f).got = {} /\ q(f).st = "subscribe" /\ q(f).filter = f
    BY <1>0, <1>1 DEF ConnRec, Streaming
  <2>. HIDE DEF q
  <2>. QED  BY <1>2, <2>1 DEF ConnOK, Screened, Handed, Joined, Complete, Streaming
<1>3. CASE conn' = [conn EXCEPT ![c] = Gone]
  BY <1>0, <1>3, ClosedConn, OneConn
<1>4. CASE is_admin_for_app(s) /\ conn' = [conn EXCEPT ![c] = q(cf.n)]
  <2>1. cf.n \in Effective
    <3>1. cf.n \in Parsed("allow", x) /\ "allow" \in ListRules \ {"deny"}
      BY DEF Parsed, ListRules
    <3>. QED  BY <3>1 DEF Effective
  <2>2. s = "admin"
    BY <1>4 DEF is_admin_for_app, role
  <2>3. q(cf.n).sub = "admin"
    BY <2>2, <1>1 DEF ConnRec
  <2>4. ConnOK(q(cf.n))
    BY <2>1, <2>3, <1>2 DEF Allows
  <2>. QED  BY <1>0, <1>4, <2>4, OneConn
<1>5. CASE /\ ~is_admin_for_app(s) /\ cf.ok /\ user_workspace(s) = Workspace /\ listRule # "deny" /\ rf.ok
           /\ conn' = [conn EXCEPT ![c] = q(both)]
  <2>1. both \in Effective
    <3>1. both \in Parsed(listRule, x) /\ listRule \in ListRules \ {"deny"}
      BY <1>0, <1>5 DEF Parsed, intersect_filters
    <3>. QED  BY <3>1 DEF Effective
  <2>2. s = "user"
    BY <1>1, <1>5 DEF is_admin_for_app, user_workspace, role, workspace, Workspace, ConnRec, Subjects
  <2>3. q(both).sub = "user" /\ q(both).rule = listRule
    BY <2>2, <1>1 DEF ConnRec
  <2>4. \A rec \in Shown : both = NoFilter \/ Matches(both, rec) => Allows(q(both), rec)
    <3>1. ASSUME NEW rec \in Shown, both = NoFilter \/ Matches(both, rec) PROVE Allows(q(both), rec)
      <4>1. listRule # "typo" /\ (listRule = "owner" => rec.s = UserId) /\ (listRule = "email" => rec.s = NullV)
        BY <1>0, <1>5, <3>1, RuleScreens
      <4>. HIDE DEF q, both
      <4>. QED  BY <1>5, <2>3, <4>1 DEF Allows
    <3>. QED  BY <3>1
  <2>5. ConnOK(q(both))
    BY <2>1, <2>4, <1>2
  <2>. QED  BY <1>0, <1>5, <2>5, OneConn
<1>. QED  BY <1>3, <1>4, <1>5 DEF Authorize

\* Joining a channel: nothing has been published since.
LEMMA AttachedOK ==
  ASSUME RtInv, NEW c \in Conns, conn[c].st \in {"subscribe", "create"}, NEW k \in Nat, NEW n \in Nat
  PROVE  LET q == Attached(c, k, n) IN
         /\ q \in ConnRec /\ Screened(q) /\ Handed(q)
         /\ q.st = "open" /\ q.chan = k /\ q.pos = n /\ q.since = Len(published)
<1>. DEFINE p == conn[c]
            q == Attached(c, k, n)
<1>1. p \in ConnRec /\ Screened(p) /\ Handed(p) /\ p.st \in Streaming /\ Len(published) \in Nat
  BY DEF RtInv, Streams, ConnOK, Brokered, Streaming
<1>2. /\ q \in ConnRec /\ q.st = "open" /\ q.chan = k /\ q.pos = n /\ q.since = Len(published)
      /\ q.sub = p.sub /\ q.rule = p.rule /\ q.filter = p.filter /\ q.got = p.got
  BY <1>1 DEF ConnRec, Attached, Streaming
<1>. HIDE DEF q, p
<1>3. Screened(q) /\ Handed(q)
  BY <1>1, <1>2 DEF Screened, Handed, Allows, Streaming
<1>. QED  BY <1>2, <1>3 DEF q

\* Joining the channel in the map, or finding none.
LEMMA SubscribeStep ==
  ASSUME RtInv, NEW c \in Conns, Subscribe(c)
  PROVE  Streams'
<1>0. Streams /\ Brokered /\ conn[c].st = "subscribe" /\ UNCHANGED <<published, log, alive>>
  BY DEF RtInv, Subscribe
<1>1. CASE chan # NoChan
  <2>. DEFINE q == Attached(c, chan, Len(log[chan]))
  <2>1. chan \in 1..Len(log) /\ Len(log[chan]) \in Nat /\ Len(published) \in Nat /\ chan \in Nat
    BY <1>0, <1>1 DEF Brokered, NoChan
  <2>2. /\ q \in ConnRec /\ Screened(q) /\ Handed(q)
        /\ q.st = "open" /\ q.chan = chan /\ q.pos = Len(log[chan]) /\ q.since = Len(published)
    BY <1>0, <2>1, AttachedOK
  <2>. HIDE DEF q
  <2>3. ConnOK(q)
    BY <2>1, <2>2 DEF ConnOK, Joined, Complete
  <2>4. conn' = [conn EXCEPT ![c] = q]
    BY <1>1 DEF Subscribe, q
  <2>. QED  BY <1>0, <2>3, <2>4, OneConn
<1>2. CASE chan = NoChan
  <2>. DEFINE p == conn[c]
              q == [conn[c] EXCEPT !.st = "create"]
  <2>1. p \in ConnRec /\ Screened(p) /\ Handed(p) /\ p.st \in Streaming
    BY <1>0 DEF Streams, ConnOK, Streaming
  <2>2. /\ q \in ConnRec /\ q.st = "create"
        /\ q.sub = p.sub /\ q.rule = p.rule /\ q.filter = p.filter /\ q.got = p.got
    BY <2>1 DEF ConnRec, Streaming
  <2>3. conn' = [conn EXCEPT ![c] = q]
    BY <1>2 DEF Subscribe
  <2>. HIDE DEF p, q
  <2>4. ConnOK(q)
    BY <2>1, <2>2 DEF ConnOK, Screened, Handed, Joined, Complete, Allows, Streaming
  <2>. QED  BY <1>0, <2>3, <2>4, OneConn
<1>. QED  BY <1>1, <1>2

\* A channel that replaces another closes it; the streams on it end.
LEMMA SubscribeNewStep ==
  ASSUME RtInv, NEW c \in Conns, SubscribeNew(c)
  PROVE  Streams'
<1>0. /\ Streams /\ Brokered /\ conn[c].st = "create" /\ published' = published
      /\ log' = Append(log, <<>>) /\ alive' = (alive \ {chan}) \cup {Len(log) + 1}
  BY DEF RtInv, SubscribeNew
<1>1. <<>> \in Seq(Nat) /\ Len(<<>>) = 0 /\ Len(log) \in Nat /\ Len(published) \in Nat
  BY <1>0 DEF Brokered
<1>2. /\ Len(log') = Len(log) + 1 /\ alive' = {Len(log) + 1}
      /\ \A k \in 1..Len(log) + 1 : log'[k] = IF k = Len(log) + 1 THEN <<>> ELSE log[k]
  BY <1>0, <1>1 DEF Brokered
<1>. DEFINE q == Attached(c, Len(log) + 1, 0)
<1>3. conn' = [conn EXCEPT ![c] = q]
  BY DEF SubscribeNew
<1>4. /\ q \in ConnRec /\ Screened(q) /\ Handed(q)
      /\ q.st = "open" /\ q.chan = Len(log) + 1 /\ q.pos = 0 /\ q.since = Len(published)
  BY <1>0, <1>1, AttachedOK
<1>. HIDE DEF q
<1>5. conn' = [d \in Conns |-> conn'[d]] /\ \A d \in Conns : conn'[d] = IF d = c THEN q ELSE conn[d]
  BY <1>0, <1>3 DEF Streams
<1>6. ASSUME NEW d \in Conns PROVE ConnOK(conn[d])'
  <2>. DEFINE p == conn'[d]
  <2>1. p \in ConnRec /\ Screened(p) /\ Handed(p)
    BY <1>0, <1>4, <1>5 DEF Streams, ConnOK
  <2>2. p.st = "open" => /\ p.chan \in 1..Len(log') /\ p.pos <= Len(log'[p.chan]) /\ p.since <= Len(published')
    <3>1. CASE d = c
      BY <3>1, <1>0, <1>1, <1>2, <1>4, <1>5
    <3>2. CASE d # c
      <4>1. p.st = "open" => p.chan \in 1..Len(log) /\ p.pos <= Len(log[p.chan]) /\ p.since <= Len(published)
        BY <3>2, <1>0, <1>5 DEF Streams, ConnOK, Joined
      <4>. QED  BY <4>1, <1>0, <1>1, <1>2
    <3>. QED  BY <3>1, <3>2
  <2>3. p.st = "open" /\ p.chan \in alive' => p.since = Len(published)
    <3>1. CASE d = c
      BY <3>1, <1>4, <1>5
    <3>2. CASE d # c
      BY <3>2, <1>0, <1>1, <1>2, <1>5 DEF Streams, ConnOK, Joined
    <3>. QED  BY <3>1, <3>2
  <2>4. Screened(conn[d])' /\ Handed(conn[d])' /\ (conn[d] \in ConnRec)'
    BY <2>1 DEF Screened, Handed, Allows
  <2>5. Joined(conn[d])'
    BY <2>2 DEF Joined
  <2>6. Complete(conn[d])'
    BY <2>3, <1>0, <1>1 DEF Complete
  <2>. QED  BY <2>4, <2>5, <2>6 DEF ConnOK
<1>. QED  BY <1>5, <1>6 DEF Streams

\* An event is handed on, and forgotten only by a receiver that knows that it lagged.
LEMMA ReceiveStep ==
  ASSUME RtInv, NEW c \in Conns, Receive(c)
  PROVE  Streams'
<1>. DEFINE p == conn[c]
            k == log[p.chan]
            lag == Len(k) - p.pos > Capacity
            i == IF lag THEN Len(k) - Capacity + 1 ELSE p.pos + 1
            ev == published[k[i]]
            got == IF event_matches(ev, p.filter) /\ ev.kind # "deleted" THEN p.got \cup {ev.rec} ELSE p.got
            q == [p EXCEPT !.pos = i, !.seen = @ \cup {k[i]}, !.lagged = @ \/ lag, !.got = got]
<1>0. Streams /\ Brokered /\ ConnOK(p) /\ p.st = "open" /\ p.pos < Len(k) /\ UNCHANGED <<published, log, alive>>
  BY DEF RtInv, Receive, Streams
<1>1. p \in ConnRec /\ p.chan \in 1..Len(log) /\ p.pos \in Nat /\ p.since \in Nat /\ Len(k) \in Nat /\ k \in Seq(Nat)
  <2>1. p \in ConnRec /\ p.chan \in 1..Len(log)
    BY <1>0 DEF ConnOK, Joined
  <2>. QED  BY <2>1, <1>0, Channels DEF ConnRec
<1>2. conn' = [conn EXCEPT ![c] = q]
  BY DEF Receive
<1>3. i \in 1..Len(k) /\ i \in Nat /\ (~lag => i = p.pos + 1)
  <2>0. Capacity \in Nat \ {0} /\ p.pos < Len(k) /\ p.pos \in Nat /\ Len(k) \in Nat
    BY <1>0, <1>1, RealtimeBounds
  <2>. HIDE DEF k, p
  <2>1. CASE lag
    BY <2>0, <2>1
  <2>2. CASE ~lag
    BY <2>0, <2>2
  <2>. QED  BY <2>1, <2>2
<1>. HIDE DEF i
<1>4. k[i] \in Nat /\ ev \in Event
  <2>1. k[i] \in 1..Len(published)
    BY <1>0, <1>1, <1>3, Channels
  <2>. QED  BY <2>1, <1>0, Channels
<1>. HIDE DEF k
<1>5. ev.kind # "deleted" => ev.rec \in Shown
  <2>. HIDE DEF ev
  <2>1. CASE \E kd \in {"created", "updated"}, rec \in Shown : ev = [kind |-> kd, rec |-> rec]
    BY <2>1
  <2>2. CASE ev = [kind |-> "deleted", rec |-> NullV]
    BY <2>2
  <2>. QED  BY <1>4, <2>1, <2>2 DEF Event
<1>. HIDE DEF ev
<1>6. got \subseteq Shown /\ \A rec \in got : Allows(p, rec)
  <2>1. p.got \subseteq Shown /\ \A rec \in p.got : Allows(p, rec)
    BY <1>0, <1>1 DEF ConnOK, Handed, ConnRec
  <2>2. event_matches(ev, p.filter) /\ ev.kind # "deleted" => Allows(p, ev.rec)
    BY <1>0, <1>5 DEF event_matches, ConnOK, Screened, Streaming
  <2>. QED  BY <1>5, <2>1, <2>2
<1>. HIDE DEF got, lag
<1>7. /\ q \in ConnRec /\ q.st = "open" /\ q.chan = p.chan /\ q.pos = i /\ q.since = p.since
      /\ q.seen = p.seen \cup {k[i]} /\ q.got = got /\ q.filter = p.filter /\ q.sub = p.sub /\ q.rule = p.rule
      /\ q.lagged = (p.lagged \/ lag)
  <2>1. lag \in BOOLEAN
    BY DEF lag
  <2>. QED  BY <1>0, <1>1, <1>3, <1>4, <1>6, <2>1 DEF ConnRec
<1>. HIDE DEF q
<1>8. Screened(q) /\ Handed(q)
  BY <1>0, <1>6, <1>7 DEF ConnOK, Screened, Handed, Allows, Streaming
<1>9. Joined(q)
  BY <1>0, <1>1, <1>3, <1>7 DEF ConnOK, Joined, k
<1>10. Complete(q)
  <2>1. SUFFICES ASSUME q.chan \in alive, ~q.lagged, NEW m \in (q.since + 1)..Len(published)
                 PROVE  m \in q.seen \/ \E j \in (q.pos + 1)..Len(log[q.chan]) : log[q.chan][j] = m
    BY <1>7 DEF Complete
  <2>2. ~p.lagged /\ ~lag /\ q.pos = p.pos + 1 /\ m \in (p.since + 1)..Len(published)
    BY <2>1, <1>3, <1>7
  <2>3. m \in p.seen \/ \E j \in (p.pos + 1)..Len(k) : k[j] = m
    BY <2>1, <2>2, <1>0, <1>7 DEF ConnOK, Complete, k
  <2>4. CASE m \in p.seen
    BY <2>4, <1>7
  <2>5. CASE \E j \in (p.pos + 1)..Len(k) : k[j] = m
    <3>1. PICK j \in (p.pos + 1)..Len(k) : k[j] = m
      BY <2>5
    <3>2. CASE j = p.pos + 1
      BY <3>1, <3>2, <2>2, <1>3, <1>7
    <3>3. CASE j # p.pos + 1
      <4>1. j \in (q.pos + 1)..Len(k)
        <5>1. p.pos \in Nat /\ Len(k) \in Nat /\ q.pos = p.pos + 1 /\ j \in (p.pos + 1)..Len(k)
          BY <3>1, <2>2, <1>1
        <5>. QED  BY <5>1, <3>3
      <4>. QED  BY <4>1, <3>1, <1>7 DEF k
    <3>. QED  BY <3>2, <3>3
  <2>. QED  BY <2>3, <2>4, <2>5
<1>11. ConnOK(q)
  BY <1>7, <1>8, <1>9, <1>10 DEF ConnOK
<1>. QED  BY <1>0, <1>2, <1>11, OneConn

\* A publish reaches the channel of every stream that is still open.
LEMMA PublishStep ==
  ASSUME RtInv, NEW w \in Writers, Publish(w)
  PROVE  Streams'
<1>0. Streams /\ Brokered /\ UNCHANGED <<conn, alive>>
  BY DEF RtInv, Publish
<1>. DEFINE n == Len(published)
<1>1. n \in Nat /\ Len(published') = n + 1
  <2>1. published \in Seq(Event) /\ published' = Append(published, writer[w].ev)
    BY <1>0 DEF Brokered, Publish
  <2>. QED  BY <2>1
<1>2. /\ Len(log') = Len(log)
      /\ \A k \in 1..Len(log) : log[k] \in Seq(Nat) /\ Len(log[k]) \in Nat
      /\ \A k \in 1..Len(log) : log'[k] = log[k] \/ log'[k] = Append(log[k], n + 1)
      /\ chan # NoChan /\ Receivers(chan) # {} => chan \in 1..Len(log) /\ log'[chan] = Append(log[chan], n + 1)
  <2>1. \A k \in 1..Len(log) : log[k] \in Seq(Nat) /\ Len(log[k]) \in Nat
    BY <1>0, Channels
  <2>2. CASE ~(chan # NoChan /\ Receivers(chan) # {})
    BY <2>1, <2>2 DEF Publish
  <2>3. CASE chan # NoChan /\ Receivers(chan) # {}
    <3>1. chan \in 1..Len(log) /\ log' = [log EXCEPT ![chan] = Append(@, n + 1)] /\ log \in Seq(Seq(Nat))
      BY <1>0, <2>3, Channels DEF Publish, Brokered, NoChan
    <3>. HIDE DEF n
    <3>2. /\ Len(log') = Len(log)
          /\ \A k \in 1..Len(log) : log'[k] = IF k = chan THEN Append(log[k], n + 1) ELSE log[k]
      BY <3>1
    <3>. QED  BY <3>1, <3>2, <2>1
  <2>. QED  BY <2>2, <2>3
<1>. HIDE DEF n
<1>3. ASSUME NEW k \in 1..Len(log)
      PROVE  /\ Len(log[k]) <= Len(log'[k]) /\ \A j \in 1..Len(log[k]) : log'[k][j] = log[k][j]
             /\ Len(log'[k]) \in Nat /\ Len(log[k]) \in Nat
  <2>1. log[k] \in Seq(Nat) /\ n + 1 \in Nat
    BY <1>1, <1>2
  <2>2. CASE log'[k] = log[k]
    BY <2>1, <2>2
  <2>3. CASE log'[k] = Append(log[k], n + 1)
    BY <2>1, <2>3, Appended
  <2>. QED  BY <2>2, <2>3, <1>2
<1>4. ASSUME NEW d \in Conns PROVE ConnOK(conn[d])'
  <2>. DEFINE p == conn[d]
  <2>1. ConnOK(p) /\ p \in ConnRec /\ p.pos \in Nat /\ p.since \in Nat /\ conn'[d] = p
    BY <1>0 DEF Streams, ConnOK, ConnRec
  <2>2. (p.st = "open" => p.chan \in 1..Len(log) /\ p.pos <= Len(log[p.chan]) /\ p.since <= n)
    BY <2>1 DEF ConnOK, Joined, n
  <2>. HIDE DEF p
  <2>3. Joined(p)'
    <3>1. SUFFICES ASSUME p.st = "open" PROVE p.chan \in 1..Len(log') /\ p.pos <= Len(log'[p.chan]) /\ p.since <= Len(published')
      BY <2>1 DEF Joined, p
    <3>2. p.chan \in 1..Len(log) /\ p.pos <= Len(log[p.chan]) /\ p.since <= n
      BY <3>1, <2>2
    <3>3. Len(log[p.chan]) <= Len(log'[p.chan]) /\ Len(log'[p.chan]) \in Nat /\ Len(log[p.chan]) \in Nat
      BY <3>2, <1>3
    <3>4. Len(log') = Len(log) /\ Len(published') = n + 1 /\ n \in Nat /\ p.pos \in Nat /\ p.since \in Nat
      BY <2>1, <1>1, <1>2
    <3>. QED  BY <3>2, <3>3, <3>4
  <2>4. Complete(conn[d])'
    <3>1. SUFFICES ASSUME p.st = "open", p.chan \in alive, ~p.lagged, NEW m \in (p.since + 1)..(n + 1)
                   PROVE  m \in p.seen \/ \E j \in (p.pos + 1)..Len(log'[p.chan]) : log'[p.chan][j] = m
      BY <2>1, <1>0, <1>1 DEF Complete
    <3>2. CASE m \in (p.since + 1)..n
      <4>1. m \in p.seen \/ \E j \in (p.pos + 1)..Len(log[p.chan]) : log[p.chan][j] = m
        BY <3>1, <3>2, <2>1 DEF ConnOK, Complete, n
      <4>2. p.chan \in 1..Len(log)
        BY <2>2, <3>1
      <4>3. ASSUME NEW j \in (p.pos + 1)..Len(log[p.chan]), log[p.chan][j] = m
            PROVE  j \in (p.pos + 1)..Len(log'[p.chan]) /\ log'[p.chan][j] = m
        <5>1. /\ Len(log[p.chan]) <= Len(log'[p.chan]) /\ Len(log[p.chan]) \in Nat /\ Len(log'[p.chan]) \in Nat
              /\ \A x \in 1..Len(log[p.chan]) : log'[p.chan][x] = log[p.chan][x]
          BY <4>2, <1>3
        <5>2. p.pos \in Nat /\ j \in 1..Len(log[p.chan])
          BY <4>3, <5>1, <2>1
        <5>3. j \in (p.pos + 1)..Len(log'[p.chan])
          BY <4>3, <5>1, <5>2
        <5>. QED  BY <4>3, <5>1, <5>2, <5>3
      <4>. QED  BY <4>1, <4>3
    <3>3. CASE m = n + 1
      <4>1. p.chan = chan /\ chan # NoChan /\ d \in Receivers(chan)
        BY <3>1, <2>1, <1>0 DEF Brokered, Receivers, p
      <4>2. p.chan \in 1..Len(log) /\ log'[p.chan] = Append(log[p.chan], n + 1)
        BY <4>1, <1>2
      <4>3. Len(log'[p.chan]) = Len(log[p.chan]) + 1 /\ log'[p.chan][Len(log[p.chan]) + 1] = n + 1
        BY <4>2, <1>1, <1>2, Appended
      <4>4. Len(log[p.chan]) + 1 \in (p.pos + 1)..Len(log'[p.chan])
        <5>1. p.pos <= Len(log[p.chan]) /\ p.pos \in Nat
          BY <2>1, <2>2, <3>1
        <5>2. Len(log[p.chan]) \in Nat
          BY <4>2, <1>2
        <5>. QED  BY <5>1, <5>2, <4>3
      <4>. QED  BY <4>3, <4>4, <3>3
    <3>. QED  BY <3>1, <3>2, <3>3, <2>1, <1>1
  <2>5. (conn[d] \in ConnRec)' /\ Screened(conn[d])' /\ Handed(conn[d])'
    BY <2>1 DEF ConnOK, Screened, Handed, Allows
  <2>. QED  BY <2>1, <2>3, <2>4, <2>5 DEF ConnOK, Joined, p
<1>5. conn' = [d \in Conns |-> conn'[d]]
  BY <1>0 DEF Streams
<1>. QED  BY <1>4, <1>5 DEF Streams

\* The removal of a channel ends the streams on it.
LEMMA RemoveStep ==
  ASSUME RtInv, NEW w \in Writers, RemoveChannel(w)
  PROVE  Streams'
<1>1. Streams /\ alive' = {} /\ UNCHANGED <<conn, published, log>>
  BY DEF RtInv, Brokered, RemoveChannel
<1>2. ASSUME NEW d \in Conns PROVE ConnOK(conn[d])'
  <2>1. ConnOK(conn[d]) /\ conn'[d] = conn[d]
    BY <1>1 DEF Streams
  <2>. QED  BY <1>1, <2>1 DEF ConnOK, Screened, Handed, Joined, Complete, Allows
<1>. QED  BY <1>1, <1>2 DEF Streams

\* A new process has no streams, no channel in the map, and no request in flight.
LEMMA RestartStep ==
  ASSUME RtInv, Restart
  PROVE  RtInv'
<1>1. Streams /\ Brokered /\ Writing /\ Held
  BY DEF RtInv
<1>2. /\ conn' = [c \in Conns |-> IF conn[c].st = "idle" THEN conn[c] ELSE Gone]
      /\ writer' = [w \in Writers |-> Ready] /\ chan' = NoChan /\ alive' = {}
      /\ UNCHANGED <<tokens, listRule, row, log, published>>
  BY DEF Restart
<1>3. Writing'
  <2>1. Ready \in WriterRec /\ Ready.st # "publish"
    BY DEF WriterRec, Ready
  <2>. QED  BY <1>1, <1>2, <2>1 DEF Writing
<1>4. Brokered'
  BY <1>1, <1>2 DEF Brokered, NoChan
<1>5. Streams'
  <2>1. ASSUME NEW c \in Conns PROVE ConnOK(conn[c])'
    <3>1. conn'[c] \in ConnRec /\ conn'[c].st \notin Streaming /\ conn'[c].got = {}
      <4>1. CASE conn[c].st = "idle"
        <5>1. conn'[c] = conn[c] /\ conn[c] \in ConnRec /\ conn[c].got = {}
          BY <1>1, <1>2, <4>1 DEF Streams, ConnOK, Handed, Streaming
        <5>. QED  BY <4>1, <5>1 DEF Streaming
      <4>2. CASE conn[c].st # "idle"
        <5>1. conn'[c] = Gone
          BY <1>2, <4>2
        <5>2. Gone \in ConnRec /\ Gone.st = "gone" /\ Gone.got = {}
          BY ClosedConn DEF Gone, ConnRec, NoConn, ConnOK
        <5>. QED  BY <5>1, <5>2 DEF Streaming
      <4>. QED  BY <4>1, <4>2
    <3>. QED  BY <3>1 DEF ConnOK, Screened, Handed, Joined, Complete, Streaming
  <2>2. conn' = [c \in Conns |-> conn'[c]]
    BY <1>2
  <2>. QED  BY <2>1, <2>2 DEF Streams
<1>6. Held'
  BY <1>1, <1>2 DEF Held
<1>. QED  BY <1>3, <1>4, <1>5, <1>6 DEF RtInv

\* Every step keeps the invariant, one case per action.
LEMMA StepRtInv == RtInv /\ [RtNext]_rtVars => RtInv'
<1>. SUFFICES ASSUME RtInv, [RtNext]_rtVars PROVE RtInv'
  OBVIOUS
<1>. Held /\ Writing /\ Brokered /\ Streams
  BY DEF RtInv
<1>1. CASE UNCHANGED rtVars
  BY <1>1, RtFrames DEF rtVars, RtInv
<1>2. CASE Tick
  BY <1>2, RtFrames DEF Tick, RtInv
<1>3. ASSUME NEW s \in Subjects, Login(s) PROVE RtInv'
  <2>1. Held'
    BY <1>3 DEF Login, build_claims, Held
  <2>2. UNCHANGED <<row, listRule, writer, published, log, chan, alive, conn>>
    BY <1>3 DEF Login
  <2>. QED  BY <2>1, <2>2, RtFrames DEF RtInv
<1>4. ASSUME NEW r \in ListRules, SetRule(r) PROVE RtInv'
  <2>1. UNCHANGED <<now, tokens, published, log, chan, alive, conn>> /\ Writing'
    BY <1>4 DEF SetRule, Writing
  <2>. QED  BY <2>1, RtFrames DEF RtInv
<1>5. ASSUME NEW w \in Writers, NEW f \in Fields,
             CreateRecord(w, f) \/ UpdateRecord(w, f) \/ Reread(w) \/ DeleteRecord(w)
      PROVE  RtInv'
  <2>1. UNCHANGED <<now, tokens, published, log, chan, alive, conn>>
    BY <1>5 DEF CreateRecord, UpdateRecord, Reread, DeleteRecord
  <2>. QED  BY <1>5, <2>1, WritingSteps, RtFrames DEF RtInv
<1>6. ASSUME NEW w \in Writers, NEW f \in Fields, Publish(w) \/ RemoveChannel(w) PROVE RtInv'
  <2>1. UNCHANGED <<now, tokens>>
    BY <1>6 DEF Publish, RemoveChannel
  <2>2. Streams' /\ Brokered' /\ Writing'
    BY <1>6, PublishStep, RemoveStep, BrokerSteps, WritingSteps
  <2>. QED  BY <2>1, <2>2, RtFrames DEF RtInv
<1>7. ASSUME NEW c \in Conns, NEW t \in tokens, NEW a, NEW b, Present(c, t, a, b) PROVE RtInv'
  <2>1. UNCHANGED <<now, tokens, row, listRule, writer, published, log, chan, alive>>
    BY <1>7 DEF Present
  <2>. QED  BY <1>7, <2>1, PresentStep, RtFrames DEF RtInv
<1>8. CASE Restart
  BY <1>8, RestartStep
<1>9. ASSUME NEW c \in Conns, Disconnect(c) PROVE RtInv'
  <2>1. conn' = [conn EXCEPT ![c] = Gone]
    BY <1>9 DEF Disconnect
  <2>2. UNCHANGED <<now, tokens, row, listRule, writer, published, log, chan, alive>>
    BY <1>9 DEF Disconnect
  <2>3. Streams'
    BY <2>1, <2>2, ClosedConn, OneConn
  <2>. QED  BY <2>2, <2>3, RtFrames DEF RtInv
<1>10. ASSUME NEW c \in Conns, NEW x \in ClientTexts, Authorize(c, x) PROVE RtInv'
  <2>1. UNCHANGED <<now, tokens, row, listRule, writer, published, log, chan, alive>>
    BY <1>10 DEF Authorize
  <2>. QED  BY <1>10, <2>1, AuthorizeStep, RtFrames DEF RtInv
<1>11. ASSUME NEW c \in Conns, Subscribe(c) \/ Receive(c) PROVE RtInv'
  <2>1. UNCHANGED <<now, tokens, row, listRule, writer, published, log, chan, alive>>
    BY <1>11 DEF Subscribe, Receive
  <2>. QED  BY <1>11, <2>1, SubscribeStep, ReceiveStep, RtFrames DEF RtInv
<1>12. ASSUME NEW c \in Conns, SubscribeNew(c) PROVE RtInv'
  <2>1. UNCHANGED <<now, tokens, row, listRule, writer>>
    BY <1>12 DEF SubscribeNew
  <2>. QED  BY <1>12, <2>1, SubscribeNewStep, BrokerSteps, RtFrames DEF RtInv
<1>13. Fields # {}
  BY DEF Fields
<1>. QED  BY <1>1, <1>2, <1>3, <1>4, <1>5, <1>6, <1>7, <1>8, <1>9, <1>10, <1>11, <1>12, <1>13 DEF RtNext

\* The invariant the theorems below rest on: connections keep a filter within their rule and a
\* place in their channel, of which the map holds the only Sender.
THEOREM RealtimeKept == RtSpec => []RtInv
BY InitRtInv, StepRtInv, PTL DEF RtSpec

\* However subscribes, publishes and the removal of channels interleave, a stream that is still
\* open and never lagged has been handed, or will find in its channel, every event published
\* since it joined.
THEOREM NothingIsLost == RtSpec => []NoSilentLoss
<1>1. RtInv => NoSilentLoss
  BY DEF RtInv, Streams, ConnOK, Complete, NoSilentLoss
<1>. QED  BY <1>1, RealtimeKept, PTL

\* Whatever filter a client supplies, a user is handed records only as the List rule in force
\* when it connected allows.
THEOREM RecordsWithinRule == RtSpec => []EventsWithinRule
<1>1. RtInv => EventsWithinRule
  BY DEF RtInv, Streams, ConnOK, Handed, Allows, EventsWithinRule
<1>. QED  BY <1>1, RealtimeKept, PTL
=============================================================================
