--------------------------- MODULE GatewayProofs ---------------------------
(***************************************************************************)
(* What holds of every workspace, for any number of concurrent creates,    *)
(* deletes and crashes; of every boot, for any number of scripts, setup    *)
(* requests, crashes and refused configurations; and of every token the    *)
(* gateway believes, for any number of workspaces, logins and refreshes.   *)
(***************************************************************************)
EXTENDS Gateway, Tenants, TLAPS

-----------------------------------------------------------------------------
(* Workspaces, apps and their pools (Tenants). *)

\* Where a handler has or wants a pool, where it holds one, and where it deletes.
Wanting == {"get", "open"}
Migrating == {"read", "script", "record"}
Holding == Migrating \cup {"put", "findapp", "insapp", "evictapp", "delapp", "rmapp", "write", "use"}
Deleting == {"evict", "evictapps", "delrow", "rmdir"}
Place == {"idle", "exists", "insert"} \cup Wanting \cup Holding \cup Deleting

CallRec == [pc : Place, op : {"none", "create", "delete", "createapp", "deleteapp", "admin"} \cup Unasked,
            w : Workspace, a : App, row : Nat, k : Key, h : Nat, i : Nat]

\* The handler of a create that has inserted its row.
Created(q) == q.op = "create" /\ q.pc \in Wanting \cup Migrating \cup {"put"}

\* What a handler's position says about its request.
Placed(q) ==
  /\ q \in CallRec
  /\ q.k # <<q.w>> => /\ q.k = <<q.w, q.a>> /\ q.op \in {"createapp", "policy", "engine"}
                      /\ q.pc \in Wanting \cup Migrating \cup {"put", "use"}
  /\ q.op \in Unasked => q.pc \in Wanting \cup {"put", "use"} \/ (q.op = "policy" /\ q.pc = "findapp")
  /\ q.pc = "insert" => q.op = "create"
  /\ q.pc = "insapp" => q.op = "createapp"
  /\ q.pc \in Deleting => q.op = "delete"
  /\ q.op = "delete" => q.w # Master /\ q.pc \in Deleting \cup {"exists"}
  /\ q.pc \in Migrating => q.op = "create" \/ q.k # <<q.w>>
  /\ q.pc = "use" => q.op \in Unasked
  /\ q.pc \in Holding => q.h \in 1..Len(body)
  /\ q.pc = "record" => q.i \in 1..ScriptCount

\* The row of a create in flight is its own and not answered yet.
Numbered(q) ==
  Created(q) => /\ q.row \in 1..realms /\ q.row \notin acked
                /\ \A w \in Workspace : realm[w] = q.row => w = q.w

\* What a handler read of the row still holds, if it read it and no delete overlapped it.
Seen(q) ==
  q.w \notin overlap =>
    /\ q.pc \in Deleting \ {"rmdir"} => realm[q.w] # 0
    /\ q.pc = "rmdir" => realm[q.w] = 0
    /\ q.pc \in Wanting \cup Holding /\ q.op \notin Unasked => realm[q.w] = q.row /\ q.row # 0

\* A path whose file nobody unlinks under an open pool: no delete of the workspace overlapped,
\* and without a row there is nobody to delete an app either.
Steady(k) == k[1] \notin overlap /\ (Kind(k) = 1 \/ realm[k[1]] = 0)

\* The file a handler holds is no other path's, and it is its own path's if that is steady.
Handled(q) ==
  q.pc \in Holding =>
    /\ \A k \in Key : file[k] = q.h => k = q.k
    /\ Steady(q.k) => file[q.k] = q.h

\* A create is the only one that migrates its file.
Counting(q) ==
  Created(q) /\ q.w \notin overlap /\ q.pc \in {"script", "record"} => q.i = body[q.h].rec + 1

\* A delete nobody overlapped finds the caches as it left them.
Evicted(q) ==
  q.w \notin overlap =>
    /\ q.pc \in Deleting \ {"evict"} => \A e \in pools[1] : e.k # <<q.w>>
    /\ q.pc \in {"delrow", "rmdir"} => \A e \in pools[2] : e.k[1] # q.w

CallOK(q) == Placed(q) /\ Numbered(q) /\ Seen(q) /\ Handled(q) /\ Counting(q) /\ Evicted(q)

\* Two handlers: none of them deletes the workspace of the other, unless it is known, and
\* creates have different rows.
PairOK(p, q) ==
  /\ p.w = q.w /\ p.w \notin overlap /\ p.pc # "idle" /\ q.pc # "idle" =>
       p.op # "delete" /\ q.op # "delete"
  /\ Created(p) /\ Created(q) => p.row # q.row

Contents == [done : 0..ScriptCount, rec : 0..ScriptCount, apps : SUBSET App, writers : SUBSET Nat]

\* The stores: rows are numbered, and a file has one path.
Stored ==
  /\ realm \in [Workspace -> Nat] /\ realms \in Nat /\ \A w \in Workspace : realm[w] <= realms
  /\ acked \subseteq 1..realms
  /\ file \in [Key -> Nat] /\ body \in Seq(Contents) /\ \A k \in Key : file[k] <= Len(body)
  /\ \A k, l \in Key : file[k] = file[l] /\ file[k] # NoFile => k = l

\* A cached pool works on a file of its own path, and on the present one if that is steady.
Pooled ==
  /\ pools = [n \in {1, 2} |-> pools[n]]
  /\ \A n \in {1, 2} : \A e \in pools[n] :
       /\ e.k \in Key /\ Kind(e.k) = n /\ e.f \in 1..Len(body)
       /\ \A k \in Key : file[k] = e.f => k = e.k
       /\ Steady(e.k) => e.f = file[e.k]

\* Handlers run only while the server serves; the sweep visits workspaces with a row.
Serving ==
  /\ up # "serving" => \A r \in Call : call[r].pc = "idle"
  /\ up = "loading" => queue \subseteq {w \in Workspace : realm[w] # 0}

\* Of a workspace without a row, once its delete is through, there are blank files at most.
Blank(k) == file[k] # NoFile => body[file[k]] = Empty
Swept ==
  \A w \in Workspace \ (overlap \cup cut) :
    realm[w] = 0 /\ (\A r \in Call : ~(call[r].w = w /\ call[r].pc = "rmdir")) =>
      \A k \in Key : k[1] = w => Blank(k)

\* A workspace's database was written under its present row only.
Written ==
  \A w \in Workspace \ (overlap \cup cut) :
    realm[w] # 0 /\ file[<<w>>] # NoFile => body[file[<<w>>]].writers \subseteq {realm[w]}

Called == call = [r \in Call |-> call[r]]

TInv ==
  /\ Called
  /\ Stored /\ Pooled /\ Serving /\ Swept /\ Written /\ AckedIsMigrated
  /\ \A r \in Call : CallOK(call[r])
  /\ \A r, s \in Call : r # s => PairOK(call[r], call[s])
-----------------------------------------------------------------------------
\* The two kinds of keys.
LEMMA KeyFacts ==
  /\ \A w \in Workspace : <<w>> \in Key /\ Kind(<<w>>) = 1 /\ <<w>>[1] = w
  /\ \A w \in Workspace, a \in App :
       <<w, a>> \in Key /\ Kind(<<w, a>>) = 2 /\ <<w, a>>[1] = w /\ <<w, a>> # <<w>>
  /\ \A k \in Key : /\ k[1] \in Workspace /\ Kind(k) \in {1, 2}
                    /\ Kind(k) = 1 <=> k = <<k[1]>>
<1>1. \A w \in Workspace : <<w>> \in Key /\ Kind(<<w>>) = 1 /\ <<w>>[1] = w
  BY DEF Key, Kind
<1>2. \A w \in Workspace, a \in App : <<w, a>> \in Key /\ Kind(<<w, a>>) = 2 /\ <<w, a>>[1] = w
  BY DEF Key, Kind
<1>3. \A w \in Workspace, a \in App : <<w, a>> # <<w>>
  BY <1>1, <1>2
<1>4. ASSUME NEW k \in Key
      PROVE  /\ k[1] \in Workspace /\ Kind(k) \in {1, 2}
             /\ Kind(k) = 1 <=> k = <<k[1]>>
  <2>1. CASE k \in {<<w>> : w \in Workspace}
    BY <1>1, <2>1
  <2>2. CASE k \in Workspace \X App
    <3>1. PICK w \in Workspace, a \in App : k = <<w, a>>
      BY <2>2
    <3> QED BY <1>2, <1>3, <3>1
  <2> QED BY <2>1, <2>2 DEF Key
<1> QED BY <1>1, <1>2, <1>3, <1>4

\* An idle handler satisfies its part of the invariant.
LEMMA IdleOK ==
  ASSUME NEW r \in Call, call'[r] = NoCall
  PROVE  CallOK(call[r])'
<1>1. NoCall \in CallRec
  <2>1. (CHOOSE a \in App : TRUE) \in App
    BY TenantConstants
  <2>2. <<Master>> \in Key /\ Master \in Workspace
    BY KeyFacts, TenantConstants
  <2> QED BY <2>1, <2>2 DEF NoCall, CallRec, Place, NoFile
<1>2. /\ NoCall.pc = "idle" /\ NoCall.op = "none" /\ NoCall.k = <<NoCall.w>>
  BY DEF NoCall
<1> QED BY <1>1, <1>2 DEF CallOK, Placed, Numbered, Seen, Handled, Counting, Evicted, Created,
       Wanting, Migrating, Holding, Deleting, Unasked

\* The fields of a handler after End and after Go.
LEMMA EndFields ==
  ASSUME TInv, NEW r \in Call, End(r)
  PROVE  call'[r] = NoCall /\ call'[r].pc = "idle" /\ \A s \in Call : s # r => call'[s] = call[s]
BY DEF End, TInv, Called, NoCall

LEMMA GoFields ==
  ASSUME TInv, NEW r \in Call, NEW p \in Place, Go(r, p)
  PROVE  /\ call' = [s \in Call |-> call'[s]]
         /\ \A s \in Call : s # r => call'[s] = call[s]
         /\ call[r] \in CallRec /\ call'[r] \in CallRec
         /\ call'[r].pc = p /\ call'[r].op = call[r].op /\ call'[r].w = call[r].w
         /\ call'[r].a = call[r].a /\ call'[r].row = call[r].row /\ call'[r].k = call[r].k
         /\ call'[r].h = call[r].h /\ call'[r].i = call[r].i
<1>1. call[r] \in CallRec /\ call = [s \in Call |-> call[s]]
  BY DEF TInv, CallOK, Placed, Called
<1> QED BY <1>1 DEF Go, CallRec

\* A handler that did not move keeps its part of the invariant when nobody takes from it what
\* it relies on.
LEMMA OthersOK ==
  ASSUME TInv, NEW s \in Call, call'[s] = call[s], overlap \subseteq overlap',
         Len(body) \in Nat, Len(body') \in Nat, Len(body) <= Len(body'),
         realms \in Nat, realms' \in Nat, realms <= realms',
         Created(call[s]) => /\ call[s].row \notin acked'
                             /\ \A w \in Workspace :
                                  realm'[w] = call[s].row => realm[w] = call[s].row,
         /\ call[s].w \notin overlap
         /\ call[s].pc \in Wanting \cup Holding \cup Deleting
         => \/ realm'[call[s].w] = realm[call[s].w]
            \/ call[s].op \in Unasked /\ realm'[call[s].w] # 0,
         call[s].pc \in Holding =>
           /\ \A k \in Key : file'[k] = call[s].h => file[k] = call[s].h
           /\ Steady(call[s].k)' => Steady(call[s].k) /\ file'[call[s].k] = file[call[s].k],
         /\ Created(call[s]) /\ call[s].w \notin overlap
         /\ call[s].pc \in {"script", "record"}
         => body'[call[s].h].rec = body[call[s].h].rec,
         call[s].w \notin overlap /\ call[s].pc \in Deleting =>
           \A n \in {1, 2} : \A e \in pools'[n] :
             e.k[1] = call[s].w => \E d \in pools[n] : d.k = e.k
  PROVE  CallOK(call[s])'
<1> DEFINE q == call[s]
<1>1. CallOK(q) /\ q \in CallRec
  BY DEF TInv, CallOK, Placed
<1>2. Placed(q)'
  <2>1. \A h \in 1..Len(body) : h \in 1..Len(body')
    OBVIOUS
  <2> QED BY <1>1, <2>1 DEF CallOK, Placed
<1>3. Numbered(q)'
  <2>1. 1..realms \subseteq 1..realms'
    OBVIOUS
  <2> QED BY <1>1, <2>1 DEF CallOK, Numbered, Created
<1>4. Seen(q)'
  <2>1. q.pc \in Deleting => q.op \notin Unasked
    BY <1>1 DEF CallOK, Placed, Deleting, Wanting, Unasked
  <2> QED BY <1>1, <2>1 DEF CallOK, Seen, Deleting
<1>5. Handled(q)'
  BY <1>1 DEF CallOK, Handled
<1>6. Counting(q)'
  BY <1>1 DEF CallOK, Counting, Created
<1>7. Evicted(q)'
  <2> SUFFICES ASSUME q.w \notin overlap, q.pc \in Deleting
               PROVE  /\ q.pc \in Deleting \ {"evict"} => \A e \in pools'[1] : e.k # <<q.w>>
                      /\ q.pc \in {"delrow", "rmdir"} => \A e \in pools'[2] : e.k[1] # q.w
    BY DEF Evicted, Deleting
  <2>1. q.w \in Workspace /\ <<q.w>>[1] = q.w
    BY <1>1, KeyFacts DEF CallRec
  <2> QED BY <1>1, <2>1 DEF CallOK, Evicted
<1> QED BY <1>2, <1>3, <1>4, <1>5, <1>6, <1>7 DEF CallOK

\* Two handlers keep to each other while a step neither starts a request nor inserts a row.
LEMMA PairsOK ==
  ASSUME TInv, NEW r \in Call, \A s \in Call : s # r => call'[s] = call[s],
         overlap \subseteq overlap',
         call'[r].pc # "idle" => /\ call[r].pc # "idle"
                                 /\ call'[r].w = call[r].w /\ call'[r].op = call[r].op,
         Created(call[r])' => Created(call[r]) /\ call'[r].row = call[r].row
  PROVE  \A s, t \in Call : s # t => PairOK(call[s], call[t])'
<1> TAKE s, t \in Call
<1> HAVE s # t
<1>1. PairOK(call[s], call[t])
  BY DEF TInv
<1>2. CASE s # r /\ t # r
  BY <1>1, <1>2 DEF PairOK, Created
<1>3. CASE s = r
  BY <1>1, <1>3 DEF PairOK, Created
<1>4. CASE t = r
  BY <1>1, <1>4 DEF PairOK, Created
<1> QED BY <1>2, <1>3, <1>4

\* A step that moves one handler and leaves rows, files, pools and answers alone.
LEMMA MoveOK ==
  ASSUME TInv, NEW r \in Call, up = "serving", call' = [s \in Call |-> call'[s]],
         \A s \in Call : s # r => call'[s] = call[s],
         UNCHANGED <<store, pools, up, queue, acked, cut>>, overlap \subseteq overlap',
         call[r].pc # "rmdir", CallOK(call[r])',
         \A s, t \in Call : s # t => PairOK(call[s], call[t])'
  PROVE  TInv'
<1>1. UNCHANGED <<realm, realms, file, body>> /\ Called'
  BY DEF store, Called
<1>2. Stored' /\ Pooled'
  BY <1>1 DEF TInv, Stored, Pooled, Steady
<1>3. Serving' /\ Written' /\ AckedIsMigrated'
  BY <1>1 DEF TInv, Serving, Written, AckedIsMigrated
<1>4. Swept'
  <2> SUFFICES ASSUME NEW w \in Workspace \ (overlap' \cup cut), realm[w] = 0,
                      \A s \in Call : ~(call'[s].w = w /\ call'[s].pc = "rmdir"),
                      NEW k \in Key, k[1] = w
               PROVE  Blank(k)
    BY <1>1 DEF Swept, Blank
  <2>1. \A s \in Call : ~(call[s].w = w /\ call[s].pc = "rmdir")
    OBVIOUS
  <2> QED BY <2>1 DEF TInv, Swept
<1>5. ASSUME NEW s \in Call, s # r PROVE CallOK(call[s])'
  <2>1. Len(body) \in Nat /\ realms \in Nat
    BY DEF TInv, Stored
  <2>2. Created(call[s]) => call[s].row \notin acked
    BY DEF TInv, CallOK, Numbered
  <2>3. Steady(call[s].k)' => Steady(call[s].k)
    BY <1>1, <1>5 DEF Steady
  <2> QED BY <1>1, <1>5, <2>1, <2>2, <2>3, OthersOK
<1> QED BY <1>1, <1>2, <1>3, <1>4, <1>5 DEF TInv

\* A handler gives up or is done.
LEMMA EndPairs ==
  ASSUME TInv, NEW r \in Call, End(r), UNCHANGED overlap
  PROVE  /\ CallOK(call[r])' /\ \A s, t \in Call : s # t => PairOK(call[s], call[t])'
         /\ call' = [s \in Call |-> call'[s]] /\ \A s \in Call : s # r => call'[s] = call[s]
<1>1. call' = [s \in Call |-> call'[s]]
  BY DEF End, TInv, Called
<1>2. /\ call'[r] = NoCall /\ call'[r].pc = "idle" /\ \A s \in Call : s # r => call'[s] = call[s]
  BY EndFields
<1>3. CallOK(call[r])'
  BY <1>2, IdleOK
<1>4. ~Created(call[r])'
  BY <1>2 DEF Created, Wanting, Migrating
<1> QED BY <1>1, <1>2, <1>3, <1>4, PairsOK

LEMMA EndOK ==
  ASSUME TInv, NEW r \in Call, End(r), up = "serving",
         UNCHANGED <<store, pools, up, queue, acked, cut, overlap>>, call[r].pc # "rmdir"
  PROVE  TInv'
BY EndPairs, MoveOK

\* Arrive.
LEMMA ArriveOK ==
  ASSUME TInv, NEW r \in Call, NEW w \in Workspace, NEW a \in App, NEW op \in Op(w),
         Arrive(r, op, w, a)
  PROVE  TInv'
<1> DEFINE q == Started(op, w, a)
<1>1. call' = [call EXCEPT ![r] = q]
  BY DEF Arrive
<1>2. /\ up = "serving" /\ call[r].pc = "idle"
      /\ UNCHANGED <<store, pools, up, queue, acked, cut>> /\ overlap \subseteq overlap'
      /\ (\E s \in InFlight(w) : "delete" \in {op, call[s].op}) => w \in overlap'
  BY DEF Arrive, At
<1>3. /\ call' = [s \in Call |-> call'[s]] /\ call'[r] = q
      /\ \A s \in Call : s # r => call'[s] = call[s]
  BY <1>1 DEF TInv, Called
<1>4. /\ op \in {"create", "delete", "createapp", "deleteapp", "admin"} \cup Unasked
      /\ op = "delete" => w # Master
  BY DEF Op, Unasked
<1>5. /\ q \in CallRec /\ q.op = op /\ q.w = w /\ q.pc = IF op \in Unasked THEN "get" ELSE "exists"
      /\ q.k = <<w>> \/ (op = "engine" /\ q.k = <<w, q.a>>)
  BY <1>4, KeyFacts DEF Started, CallRec, Place, NoFile, Wanting
<1> HIDE DEF q
<1>6. CallOK(call[r])'
  <2>1. q.pc \in {"get", "exists"} /\ (q.pc = "get" <=> op \in Unasked)
    BY <1>5
  <2>2. Placed(q)'
    BY <1>4, <1>5, <2>1 DEF Placed, Wanting, Migrating, Holding, Deleting, Unasked
  <2>3. Numbered(q)' /\ Seen(q)' /\ Handled(q)' /\ Counting(q)' /\ Evicted(q)'
    BY <1>5, <2>1 DEF Numbered, Seen, Handled, Counting, Evicted, Created, Wanting, Migrating,
       Holding, Deleting, Unasked
  <2> QED BY <1>3, <2>2, <2>3 DEF CallOK
<1>7. \A s, t \in Call : s # t => PairOK(call[s], call[t])'
  <2> TAKE s, t \in Call
  <2> HAVE s # t
  <2>1. ~Created(call[r])'
    BY <1>3, <1>5 DEF Created, Wanting, Migrating, Unasked
  <2>2. ASSUME NEW p \in Call, p # r, w \notin overlap', call[p].w = w, call[p].pc # "idle"
        PROVE  call[p].op # "delete" /\ op # "delete"
    BY <1>2, <2>2 DEF InFlight
  <2>3. CASE s # r /\ t # r
    <3>1. PairOK(call[s], call[t])
      BY DEF TInv
    <3> QED BY <1>2, <1>3, <2>3, <3>1 DEF PairOK, Created
  <2>4. CASE s = r \/ t = r
    BY <1>3, <1>5, <2>1, <2>2, <2>4 DEF PairOK
  <2> QED BY <2>3, <2>4
<1> QED BY <1>2, <1>3, <1>6, <1>7, MoveOK

\* Exists.
LEMMA ExistsOK ==
  ASSUME TInv, NEW r \in Call, Exists(r)
  PROVE  TInv'
<1>1. /\ up = "serving" /\ call[r].pc = "exists" /\ call[r] \in CallRec
      /\ UNCHANGED <<store, pools, up, queue, acked, cut, overlap>>
  BY DEF Exists, At, tHist, TInv, CallOK, Placed
<1>2. CASE End(r)
  BY <1>1, <1>2, EndOK
<1>3. CASE ~End(r)
  <2> DEFINE p == CASE call[r].op = "create" -> "insert"
                    [] call[r].op = "delete" -> "evict"
                    [] OTHER -> "get"
  <2>1. /\ find_workspace(call[r].w) # (call[r].op = "create")
        /\ call' = [call EXCEPT ![r] = [call[r] EXCEPT !.row = realm[call[r].w], !.pc = p]]
    <3>1. call' = [call EXCEPT ![r].row = realm[call[r].w], ![r].pc = p]
          /\ find_workspace(call[r].w) # (call[r].op = "create")
      BY <1>3 DEF Exists
    <3> QED BY <1>1, <3>1 DEF TInv, Called, CallRec
  <2>2. p \in {"insert", "evict", "get"} /\ (p = "insert" <=> call[r].op = "create")
        /\ (p = "evict" <=> call[r].op = "delete")
    OBVIOUS
  <2> HIDE DEF p
  <2>3. realm[call[r].w] \in Nat
    BY <1>1 DEF TInv, Stored, CallRec
  <2>4. /\ call' = [s \in Call |-> call'[s]] /\ \A s \in Call : s # r => call'[s] = call[s]
        /\ call'[r] \in CallRec /\ call'[r].pc = p /\ call'[r].row = realm[call[r].w]
        /\ call'[r].op = call[r].op /\ call'[r].w = call[r].w /\ call'[r].k = call[r].k
    BY <1>1, <2>1, <2>2, <2>3 DEF TInv, Called, CallRec, Place, Wanting, Deleting
  <2>5. ~Created(call[r])'
    BY <2>2, <2>4 DEF Created, Wanting, Migrating
  <2>6. p # "insert" => realm[call[r].w] # 0
    BY <2>1, <2>2 DEF find_workspace
  <2>7. CallOK(call[r])'
    <3>1. Placed(call[r])
      BY DEF TInv, CallOK
    <3>2. Placed(call[r])'
      BY <1>1, <2>2, <2>4, <3>1 DEF Placed, Wanting, Migrating, Holding, Deleting
    <3>3. Numbered(call[r])' /\ Counting(call[r])'
      BY <2>5 DEF Numbered, Counting
    <3>4. Seen(call[r])' /\ Handled(call[r])' /\ Evicted(call[r])'
      BY <1>1, <2>2, <2>4, <2>6 DEF Seen, Handled, Evicted, Wanting, Migrating, Holding, Deleting, store
    <3> QED BY <3>2, <3>3, <3>4 DEF CallOK
  <2>8. \A s, t \in Call : s # t => PairOK(call[s], call[t])'
    BY <1>1, <2>4, <2>5, PairsOK
  <2> QED BY <1>1, <2>4, <2>7, <2>8, MoveOK
<1> QED BY <1>2, <1>3

\* The key of a request is one of its workspace's.
LEMMA CallKey ==
  ASSUME TInv, NEW r \in Call
  PROVE  /\ call[r] \in CallRec /\ call[r].w \in Workspace /\ call[r].a \in App
         /\ call[r].k \in Key /\ call[r].k[1] = call[r].w
         /\ Kind(call[r].k) \in {1, 2} /\ (Kind(call[r].k) = 1 <=> call[r].k = <<call[r].w>>)
<1>1. Placed(call[r])
  BY DEF TInv, CallOK
<1>2. call[r] \in CallRec /\ (call[r].k = <<call[r].w>> \/ call[r].k = <<call[r].w, call[r].a>>)
  BY <1>1 DEF Placed
<1>3. call[r].w \in Workspace /\ call[r].a \in App /\ call[r].k \in Key
  BY <1>2 DEF CallRec
<1>4. CASE call[r].k = <<call[r].w>>
  <2>1. <<call[r].w>>[1] = call[r].w /\ Kind(<<call[r].w>>) = 1
    BY <1>3, KeyFacts
  <2> QED BY <1>2, <1>3, <1>4, <2>1
<1>5. CASE call[r].k = <<call[r].w, call[r].a>>
  <2> DEFINE k == <<call[r].w, call[r].a>>
  <2>1. k[1] = call[r].w /\ Kind(k) = 2 /\ k # <<call[r].w>>
    BY <1>3, KeyFacts
  <2> QED BY <1>2, <1>3, <1>5, <2>1
<1> QED BY <1>2, <1>4, <1>5

\* An entry of a cache that was there before, and one for r's key and a file that fits.
OldEntry(e, n) == \E d \in pools[n] : d.k = e.k /\ d.f = e.f
FreshEntry(r, e, n) ==
  /\ e.k = call[r].k /\ Kind(e.k) = n /\ call[r].pc \in Wanting \cup Holding
  /\ e.f \in 1..Len(body) /\ \A k \in Key : file[k] = e.f => k = call[r].k
  /\ Steady(e.k) => file[e.k] = e.f

\* A step that moves one handler and changes the caches by entries of its own at most.
LEMMA CacheOK ==
  ASSUME TInv, NEW r \in Call, up = "serving", call' = [s \in Call |-> call'[s]],
         \A s \in Call : s # r => call'[s] = call[s],
         UNCHANGED <<store, up, queue, acked, cut, overlap>>, call[r].pc \notin {"idle", "rmdir"},
         pools' = [n \in {1, 2} |-> pools'[n]],
         \A n \in {1, 2} : \A e \in pools'[n] : OldEntry(e, n) \/ FreshEntry(r, e, n),
         CallOK(call[r])',
         \A s, t \in Call : s # t => PairOK(call[s], call[t])'
  PROVE  TInv'
<1>1. UNCHANGED <<realm, realms, file, body>> /\ Called'
  BY DEF store, Called
<1>2. /\ call[r].w \in Workspace /\ call[r].k[1] = call[r].w /\ call[r].k \in Key
      /\ (Kind(call[r].k) = 1 <=> call[r].k = <<call[r].w>>)
  BY CallKey
<1>3. Stored' /\ Serving' /\ Written' /\ AckedIsMigrated'
  BY <1>1 DEF TInv, Stored, Serving, Written, AckedIsMigrated
<1>4. Pooled'
  <2> SUFFICES ASSUME NEW n \in {1, 2}, NEW e \in pools'[n]
               PROVE  /\ e.k \in Key /\ Kind(e.k) = n /\ e.f \in 1..Len(body)
                      /\ \A k \in Key : file[k] = e.f => k = e.k
                      /\ Steady(e.k) => e.f = file[e.k]
    BY <1>1 DEF Pooled, Steady
  <2>1. CASE OldEntry(e, n)
    BY <2>1 DEF OldEntry, TInv, Pooled
  <2>2. CASE FreshEntry(r, e, n)
    BY <1>2, <2>2 DEF FreshEntry
  <2> QED BY <2>1, <2>2
<1>5. Swept'
  <2> SUFFICES ASSUME NEW w \in Workspace \ (overlap \cup cut), realm[w] = 0,
                      \A s \in Call : ~(call'[s].w = w /\ call'[s].pc = "rmdir"),
                      NEW k \in Key, k[1] = w
               PROVE  Blank(k)
    BY <1>1 DEF Swept, Blank
  <2>1. \A s \in Call : ~(call[s].w = w /\ call[s].pc = "rmdir")
    OBVIOUS
  <2> QED BY <2>1 DEF TInv, Swept
<1>6. ASSUME NEW s \in Call, s # r PROVE CallOK(call[s])'
  <2>1. Len(body) \in Nat /\ realms \in Nat
    BY DEF TInv, Stored
  <2>2. Created(call[s]) => call[s].row \notin acked
    BY DEF TInv, CallOK, Numbered
  <2>3. ASSUME call[s].w \notin overlap, call[s].pc \in Deleting,
               NEW n \in {1, 2}, NEW e \in pools'[n], e.k[1] = call[s].w
        PROVE  \E d \in pools[n] : d.k = e.k
    <3>1. CASE OldEntry(e, n)
      BY <3>1 DEF OldEntry
    <3>2. CASE FreshEntry(r, e, n)
      <4>1. call[r].w = call[s].w
        BY <1>2, <2>3, <3>2 DEF FreshEntry
      <4>2. PairOK(call[s], call[r]) /\ Placed(call[s])
        BY <1>6 DEF TInv, CallOK
      <4> QED BY <2>3, <4>1, <4>2 DEF PairOK, Placed, Deleting
    <3> QED BY <3>1, <3>2
  <2>4. Steady(call[s].k)' => Steady(call[s].k)
    BY <1>1, <1>6 DEF Steady
  <2> QED BY <1>1, <1>6, <2>1, <2>2, <2>3, <2>4, OthersOK
<1> QED BY <1>1, <1>3, <1>4, <1>5, <1>6 DEF TInv

\* What the operations on a cache leave in it.
LEMMA WithoutFacts ==
  ASSUME NEW c, NEW out, NEW e \in Without(c, out)
  PROVE  \E d \in c : d \notin out /\ d.k = e.k /\ d.f = e.f
<1>1. PICK d \in c \ out :
        e = [k |-> d.k, f |-> d.f, age |-> Cardinality({b \in c \ out : b.age < d.age})]
  BY DEF Without
<1> QED BY <1>1

LEMMA NewestFacts ==
  ASSUME NEW c, NEW k, NEW f, NEW e \in Newest(c, k, f)
  PROVE  (e.k = k /\ e.f = f) \/ \E d \in c : d.k = e.k /\ d.f = e.f
BY DEF Newest

\* A cached pool: the file it works on.
LEMMA HandleFits ==
  ASSUME TInv, NEW r \in Call, Cached(call[r].k) # {}
  PROVE  /\ Handle(call[r].k) \in 1..Len(body)
         /\ \A k \in Key : file[k] = Handle(call[r].k) => k = call[r].k
         /\ Steady(call[r].k) => file[call[r].k] = Handle(call[r].k)
<1>1. PICK e \in Cached(call[r].k) : Handle(call[r].k) = e.f
  BY DEF Handle
<1>2. /\ Kind(call[r].k) \in {1, 2} /\ call[r].k[1] = call[r].w
      /\ (Kind(call[r].k) = 1 <=> call[r].k = <<call[r].w>>)
  BY CallKey
<1>3. e \in pools[Kind(call[r].k)] /\ e.k = call[r].k
  BY <1>1 DEF Cached
<1> QED BY <1>1, <1>2, <1>3 DEF TInv, Pooled

\* A pool used from the cache: LruCache::get.
LEMMA TouchFits ==
  ASSUME TInv, NEW r \in Call, Cached(call[r].k) # {}, Touch(call[r].k),
         call[r].pc \in Wanting \cup Holding
  PROVE  /\ pools' = [n \in {1, 2} |-> pools'[n]]
         /\ \A n \in {1, 2} : \A e \in pools'[n] : OldEntry(e, n) \/ FreshEntry(r, e, n)
<1> DEFINE k == call[r].k
<1>1. Kind(k) \in {1, 2} /\ pools = [n \in {1, 2} |-> pools[n]]
  BY CallKey DEF TInv, Pooled
<1>2. /\ pools' = [n \in {1, 2} |-> pools'[n]]
      /\ pools'[Kind(k)] = Newest(Without(pools[Kind(k)], Cached(k)), k, Handle(k))
      /\ \A n \in {1, 2} : n # Kind(k) => pools'[n] = pools[n]
  BY <1>1 DEF Touch
<1>3. ASSUME NEW n \in {1, 2}, NEW e \in pools'[n] PROVE OldEntry(e, n) \/ FreshEntry(r, e, n)
  <2>1. CASE n # Kind(k)
    BY <1>2, <2>1 DEF OldEntry
  <2>2. CASE n = Kind(k)
    <3>1. \/ e.k = k /\ e.f = Handle(k)
          \/ \E d \in Without(pools[Kind(k)], Cached(k)) : d.k = e.k /\ d.f = e.f
      BY <1>2, <2>2, NewestFacts
    <3>2. CASE e.k = k /\ e.f = Handle(k)
      BY <2>2, <3>2, HandleFits DEF FreshEntry
    <3>3. CASE \E d \in Without(pools[Kind(k)], Cached(k)) : d.k = e.k /\ d.f = e.f
      BY <2>2, <3>3, WithoutFacts DEF OldEntry
    <3> QED BY <3>1, <3>2, <3>3
  <2> QED BY <2>1, <2>2
<1> QED BY <1>2, <1>3

\* Where pool_for returns to.
LEMMA AfterPoolFacts ==
  ASSUME TInv, NEW r \in Call
  PROVE  /\ AfterPool(call[r]) \in {"read", "write", "findapp", "use"}
         /\ AfterPool(call[r]) = "read" => call[r].op = "create" \/ call[r].k # <<call[r].w>>
         /\ AfterPool(call[r]) = "use" => call[r].op \in Unasked
         /\ call[r].op \in Unasked => \/ AfterPool(call[r]) = "use"
                                      \/ call[r].op = "policy" /\ AfterPool(call[r]) = "findapp"
         /\ call[r].k # <<call[r].w>> => AfterPool(call[r]) \in {"read", "use"}
<1> DEFINE q == call[r]
<1>1. Kind(q.k) \in {1, 2} /\ (Kind(q.k) = 2 <=> q.k # <<q.w>>)
  BY CallKey
<1>2. q.k # <<q.w>> => q.op \in {"createapp", "policy", "engine"}
  BY DEF TInv, CallOK, Placed
<1>3. CASE q.op \in {"login", "engine"} \/ (q.op = "policy" /\ Kind(q.k) = 2)
  <2>1. AfterPool(q) = "use"
    BY <1>3 DEF AfterPool
  <2> QED BY <1>3, <2>1 DEF Unasked
<1>4. CASE q.op = "create" \/ (q.op = "createapp" /\ Kind(q.k) = 2)
  <2>1. AfterPool(q) = "read"
    BY <1>4 DEF AfterPool
  <2> QED BY <1>1, <1>4, <2>1 DEF Unasked
<1>5. CASE q.op = "admin"
  <2>1. AfterPool(q) = "write"
    BY <1>5 DEF AfterPool
  <2> QED BY <1>2, <1>5, <2>1 DEF Unasked
<1>6. CASE ~(\/ q.op \in {"login", "engine", "create", "admin"}
             \/ (q.op \in {"policy", "createapp"} /\ Kind(q.k) = 2))
  <2>1. AfterPool(q) = "findapp"
    BY <1>6, Zenon DEF AfterPool
  <2> QED BY <1>1, <1>2, <1>6, <2>1 DEF Unasked
<1> QED BY <1>3, <1>4, <1>5, <1>6

\* A handler that got its pool.
LEMMA GotPool ==
  ASSUME TInv, NEW r \in Call, call[r].pc \in {"get", "put"},
         UNCHANGED <<store, acked, overlap>>, call'[r] \in CallRec,
         call'[r].pc = AfterPool(call[r]), call'[r].op = call[r].op, call'[r].w = call[r].w,
         call'[r].a = call[r].a, call'[r].row = call[r].row, call'[r].k = call[r].k,
         call'[r].h \in 1..Len(body), \A k \in Key : file[k] = call'[r].h => k = call[r].k,
         Steady(call[r].k) => file[call[r].k] = call'[r].h,
         \A s \in Call : s # r => call'[s] = call[s]
  PROVE  CallOK(call[r])' /\ \A s, t \in Call : s # t => PairOK(call[s], call[t])'
<1>1. CallOK(call[r])
  BY DEF TInv
<1>2. /\ call'[r].pc \in {"read", "write", "findapp", "use"}
      /\ call'[r].pc = "read" => call[r].op = "create" \/ call[r].k # <<call[r].w>>
      /\ call'[r].pc = "use" => call[r].op \in Unasked
      /\ call[r].op \in Unasked => call'[r].pc = "use" \/ (call[r].op = "policy" /\ call'[r].pc = "findapp")
      /\ call[r].k # <<call[r].w>> => call'[r].pc \in {"read", "use"}
  BY AfterPoolFacts
<1>3. UNCHANGED <<realm, realms, file, body>>
  BY DEF store
<1>4. Placed(call[r])'
  BY <1>1, <1>2, <1>3 DEF CallOK, Placed, Wanting, Migrating, Holding, Deleting
<1>5. Created(call[r])' => Created(call[r])
  BY DEF Created, Wanting
<1>6. Numbered(call[r])' /\ Seen(call[r])'
  BY <1>1, <1>2, <1>3, <1>5 DEF CallOK, Numbered, Seen, Wanting, Migrating, Holding, Deleting
<1>7. Handled(call[r])' /\ Counting(call[r])' /\ Evicted(call[r])'
  BY <1>2, <1>3 DEF Handled, Counting, Evicted, Deleting, Steady
<1>8. CallOK(call[r])'
  BY <1>4, <1>6, <1>7 DEF CallOK
<1> QED BY <1>5, <1>8, PairsOK

\* A handler takes the cached pool of its key: either half of pool_for.
LEMMA TakeCachedOK ==
  ASSUME TInv, NEW r \in Call, up = "serving", call[r].pc \in {"get", "put"},
         Cached(call[r].k) # {}, Touch(call[r].k),
         call' = [call EXCEPT ![r].h = Handle(call[r].k), ![r].pc = AfterPool(call[r])],
         UNCHANGED <<store, up, queue, acked, cut, overlap>>
  PROVE  TInv'
<1>1. /\ Handle(call[r].k) \in 1..Len(body)
      /\ \A k \in Key : file[k] = Handle(call[r].k) => k = call[r].k
      /\ Steady(call[r].k) => file[call[r].k] = Handle(call[r].k)
  BY HandleFits
<1>2. AfterPool(call[r]) \in Place /\ Handle(call[r].k) \in Nat
  <2>1. Len(body) \in Nat
    BY DEF TInv, Stored
  <2> QED BY <1>1, <2>1, AfterPoolFacts DEF Place, Holding, Migrating
<1>3. call[r] \in CallRec
  BY CallKey
<1>4. /\ call' = [s \in Call |-> call'[s]] /\ \A s \in Call : s # r => call'[s] = call[s]
      /\ call'[r] \in CallRec /\ call'[r].pc = AfterPool(call[r]) /\ call'[r].h = Handle(call[r].k)
      /\ call'[r].op = call[r].op /\ call'[r].w = call[r].w /\ call'[r].a = call[r].a
      /\ call'[r].row = call[r].row /\ call'[r].k = call[r].k
  BY <1>2, <1>3 DEF TInv, Called, CallRec
<1>5. CallOK(call[r])' /\ \A s, t \in Call : s # t => PairOK(call[s], call[t])'
  <2>1. /\ call'[r].h \in 1..Len(body) /\ \A k \in Key : file[k] = call'[r].h => k = call[r].k
        /\ Steady(call[r].k) => file[call[r].k] = call'[r].h
    BY <1>1, <1>4
  <2> QED BY <1>4, <2>1, GotPool
<1>6. /\ pools' = [n \in {1, 2} |-> pools'[n]]
      /\ \A n \in {1, 2} : \A e \in pools'[n] : OldEntry(e, n) \/ FreshEntry(r, e, n)
  <2>1. call[r].pc \in Wanting \cup Holding
    BY DEF Wanting, Holding
  <2> QED BY <2>1, TouchFits
<1> QED BY <1>4, <1>5, <1>6, CacheOK

\* PoolGet.
LEMMA PoolGetOK ==
  ASSUME TInv, NEW r \in Call, PoolGet(r)
  PROVE  TInv'
<1>1. /\ up = "serving" /\ call[r].pc = "get"
      /\ UNCHANGED <<store, up, queue, acked, cut, overlap>>
  BY DEF PoolGet, At, tHist
<1>2. CASE Cached(call[r].k) # {}
  BY <1>1, <1>2, TakeCachedOK DEF PoolGet
<1>3. CASE Cached(call[r].k) = {}
  <2>1. Go(r, "open") /\ UNCHANGED pools /\ "open" \in Place
    BY <1>3 DEF PoolGet, Place, Wanting
  <2>2. /\ call' = [s \in Call |-> call'[s]]
        /\ \A s \in Call : s # r => call'[s] = call[s]
        /\ call'[r] \in CallRec
        /\ call'[r].pc = "open" /\ call'[r].op = call[r].op /\ call'[r].w = call[r].w
        /\ call'[r].a = call[r].a /\ call'[r].row = call[r].row /\ call'[r].k = call[r].k
    BY <2>1, GoFields
  <2>3. CallOK(call[r])
    BY DEF TInv
  <2>4. CallOK(call[r])'
    BY <1>1, <2>1, <2>2, <2>3 DEF CallOK, Placed, Numbered, Seen, Handled, Counting, Evicted, Created,
       Wanting, Migrating, Holding, Deleting, store
  <2>5. \A s, t \in Call : s # t => PairOK(call[s], call[t])'
    <3>1. Created(call[r])' => Created(call[r])
      BY <1>1, <2>2 DEF Created, Wanting
    <3> QED BY <1>1, <2>2, <3>1, PairsOK
  <2> QED BY <1>1, <2>1, <2>2, <2>4, <2>5, MoveOK
<1> QED BY <1>2, <1>3

\* PoolPut.
LEMMA PoolPutOK ==
  ASSUME TInv, NEW r \in Call, PoolPut(r)
  PROVE  TInv'
<1>1. /\ up = "serving" /\ call[r].pc = "put"
      /\ UNCHANGED <<store, up, queue, acked, cut, overlap>>
  BY DEF PoolPut, At, tHist
<1>2. CASE Cached(call[r].k) # {}
  BY <1>1, <1>2, TakeCachedOK DEF PoolPut
<1>3. CASE Cached(call[r].k) = {}
  <2>1. Put(call[r].k, call[r].h) /\ Go(r, AfterPool(call[r])) /\ AfterPool(call[r]) \in Place
    BY <1>3, AfterPoolFacts DEF PoolPut, Place, Holding, Migrating
  <2>2. /\ call' = [s \in Call |-> call'[s]]
        /\ \A s \in Call : s # r => call'[s] = call[s]
        /\ call'[r] \in CallRec /\ call'[r].h = call[r].h
        /\ call'[r].pc = AfterPool(call[r]) /\ call'[r].op = call[r].op /\ call'[r].w = call[r].w
        /\ call'[r].a = call[r].a /\ call'[r].row = call[r].row /\ call'[r].k = call[r].k
    BY <2>1, GoFields
  <2>3. /\ call[r].h \in 1..Len(body) /\ \A k \in Key : file[k] = call[r].h => k = call[r].k
        /\ Steady(call[r].k) => file[call[r].k] = call[r].h
    BY <1>1 DEF TInv, CallOK, Placed, Handled, Holding
  <2>4. CallOK(call[r])' /\ \A s, t \in Call : s # t => PairOK(call[s], call[t])'
    BY <1>1, <2>2, <2>3, GotPool
  <2>5. Kind(call[r].k) \in {1, 2} /\ pools = [n \in {1, 2} |-> pools[n]]
    BY CallKey DEF TInv, Pooled
  <2>6. /\ pools' = [n \in {1, 2} |-> pools'[n]]
        /\ pools'[Kind(call[r].k)] =
             {e \in Newest(pools[Kind(call[r].k)], call[r].k, call[r].h) : e.age < Cap}
        /\ \A n \in {1, 2} : n # Kind(call[r].k) => pools'[n] = pools[n]
    BY <2>1, <2>5 DEF Put
  <2>7. ASSUME NEW n \in {1, 2}, NEW e \in pools'[n] PROVE OldEntry(e, n) \/ FreshEntry(r, e, n)
    <3>1. CASE n # Kind(call[r].k)
      BY <2>6, <3>1 DEF OldEntry
    <3>2. CASE n = Kind(call[r].k)
      <4>1. \/ e.k = call[r].k /\ e.f = call[r].h
            \/ \E d \in pools[n] : d.k = e.k /\ d.f = e.f
        BY <2>6, <3>2, NewestFacts
      <4>2. call[r].pc \in Wanting \cup Holding
        BY <1>1 DEF Holding
      <4> QED BY <2>3, <3>2, <4>1, <4>2 DEF OldEntry, FreshEntry
    <3> QED BY <3>1, <3>2
  <2> QED BY <1>1, <2>2, <2>4, <2>6, <2>7, CacheOK
<1> QED BY <1>2, <1>3

\* An eviction leaves other keys' pools, as they were.
LEMMA EvictFits ==
  ASSUME TInv, NEW k \in Key, pools' = evict(k)
  PROVE  /\ pools' = [n \in {1, 2} |-> pools'[n]]
         /\ \A n \in {1, 2} : \A e \in pools'[n] : OldEntry(e, n)
         /\ \A e \in pools'[Kind(k)] : e.k # k
<1>1. Kind(k) \in {1, 2} /\ pools = [n \in {1, 2} |-> pools[n]]
  BY KeyFacts DEF TInv, Pooled
<1>2. /\ pools' = [n \in {1, 2} |-> pools'[n]]
      /\ pools'[Kind(k)] = Without(pools[Kind(k)], Cached(k))
      /\ \A n \in {1, 2} : n # Kind(k) => pools'[n] = pools[n]
  BY <1>1 DEF evict
<1>3. \A e \in pools'[Kind(k)] : \E d \in pools[Kind(k)] : d \notin Cached(k) /\ d.k = e.k /\ d.f = e.f
  BY <1>2, WithoutFacts
<1>4. \A n \in {1, 2} : \A e \in pools'[n] : OldEntry(e, n)
  BY <1>2, <1>3 DEF OldEntry
<1>5. \A e \in pools'[Kind(k)] : e.k # k
  BY <1>3 DEF Cached
<1> QED BY <1>2, <1>4, <1>5

LEMMA EvictRealmFits ==
  ASSUME TInv, NEW w \in Workspace, pools' = evict_realm(w)
  PROVE  /\ pools' = [n \in {1, 2} |-> pools'[n]]
         /\ \A n \in {1, 2} : \A e \in pools'[n] : OldEntry(e, n)
         /\ pools'[1] = pools[1] /\ \A e \in pools'[2] : e.k[1] # w
<1> DEFINE out == {e \in pools[2] : e.k[1] = w}
<1>1. pools = [n \in {1, 2} |-> pools[n]]
  BY DEF TInv, Pooled
<1>2. /\ pools' = [n \in {1, 2} |-> pools'[n]] /\ pools'[1] = pools[1]
      /\ pools'[2] = Without(pools[2], out)
  <2>1. pools' = [pools EXCEPT ![2] = Without(pools[2], out)]
    BY DEF evict_realm
  <2> DEFINE rest == Without(pools[2], out)
  <2>2. pools' = [pools EXCEPT ![2] = rest] /\ DOMAIN pools = {1, 2}
    BY <1>1, <2>1
  <2> HIDE DEF rest
  <2>3. pools' = [n \in DOMAIN pools |-> IF n = 2 THEN rest ELSE pools[n]]
    BY <2>2
  <2>4. pools' = [n \in {1, 2} |-> IF n = 2 THEN rest ELSE pools[n]]
    BY <2>2, <2>3
  <2>5. pools' = [n \in {1, 2} |-> pools'[n]] /\ pools'[1] = pools[1] /\ pools'[2] = rest
    BY <2>4
  <2> QED BY <2>5 DEF rest
<1>3. \A e \in pools'[2] : \E d \in pools[2] : d \notin out /\ d.k = e.k /\ d.f = e.f
  <2> HIDE DEF out
  <2> QED BY <1>2, WithoutFacts
<1>4. \A n \in {1, 2} : \A e \in pools'[n] : OldEntry(e, n)
  BY <1>2, <1>3 DEF OldEntry
<1>5. \A e \in pools'[2] : e.k[1] # w
  BY <1>3
<1> QED BY <1>2, <1>4, <1>5

\* The first two steps of workspaces::delete.
LEMMA DeleteEvictOK ==
  ASSUME TInv, NEW r \in Call, DeleteEvict(r) \/ DeleteEvictApps(r)
  PROVE  TInv'
<1>1. call[r].w \in Workspace /\ <<call[r].w>> \in Key /\ Kind(<<call[r].w>>) = 1
  BY CallKey, KeyFacts
<1>2. PICK p \in {"evictapps", "delrow"} :
        /\ up = "serving" /\ call[r].pc = IF p = "evictapps" THEN "evict" ELSE "evictapps"
        /\ Go(r, p)
        /\ pools' = IF p = "evictapps" THEN evict(<<call[r].w>>) ELSE evict_realm(call[r].w)
        /\ UNCHANGED <<store, up, queue, acked, cut, overlap>>
  BY DEF DeleteEvict, DeleteEvictApps, At, tHist
<1>3. /\ call' = [s \in Call |-> call'[s]]
      /\ \A s \in Call : s # r => call'[s] = call[s]
      /\ call'[r] \in CallRec
      /\ call'[r].pc = p /\ call'[r].op = call[r].op /\ call'[r].w = call[r].w
      /\ call'[r].k = call[r].k
  BY <1>2, GoFields DEF Place, Deleting
<1>4. CallOK(call[r])
  BY DEF TInv
<1>5. /\ pools' = [n \in {1, 2} |-> pools'[n]]
      /\ \A n \in {1, 2} : \A e \in pools'[n] : OldEntry(e, n)
      /\ call[r].w \notin overlap => \A e \in pools'[1] : e.k # <<call[r].w>>
      /\ p = "delrow" => \A e \in pools'[2] : e.k[1] # call[r].w
  <2>1. CASE p = "evictapps"
    BY <1>1, <1>2, <2>1, EvictFits
  <2>2. CASE p = "delrow"
    <3>1. /\ pools' = [n \in {1, 2} |-> pools'[n]]
          /\ \A n \in {1, 2} : \A e \in pools'[n] : OldEntry(e, n)
          /\ pools'[1] = pools[1] /\ \A e \in pools'[2] : e.k[1] # call[r].w
      BY <1>1, <1>2, <2>2, EvictRealmFits
    <3>2. call[r].w \notin overlap => \A e \in pools[1] : e.k # <<call[r].w>>
      BY <1>2, <1>4, <2>2 DEF CallOK, Evicted, Deleting
    <3> QED BY <3>1, <3>2
  <2> QED BY <2>1, <2>2
<1>6. ~Created(call[r])' /\ call[r].pc \notin {"idle", "rmdir"}
  BY <1>2, <1>3 DEF Created, Wanting, Migrating
<1>7. CallOK(call[r])'
  <2>1. Placed(call[r])'
    BY <1>2, <1>3, <1>4 DEF CallOK, Placed, Wanting, Migrating, Holding, Deleting
  <2>2. Numbered(call[r])' /\ Counting(call[r])'
    BY <1>6 DEF Numbered, Counting
  <2>3. Seen(call[r])' /\ Handled(call[r])'
    BY <1>2, <1>3, <1>4 DEF CallOK, Seen, Handled, Wanting, Migrating, Holding, Deleting, store
  <2>4. Evicted(call[r])'
    BY <1>2, <1>3, <1>5 DEF Evicted
  <2> QED BY <2>1, <2>2, <2>3, <2>4 DEF CallOK
<1>8. \A s, t \in Call : s # t => PairOK(call[s], call[t])'
  BY <1>2, <1>3, <1>6, PairsOK
<1> QED BY <1>2, <1>3, <1>5, <1>6, <1>7, <1>8, CacheOK

\* A handler of an app or an administrator goes on with the file it holds.
LEMMA HoldOn ==
  ASSUME TInv, NEW r \in Call, NEW p \in {"insapp", "evictapp", "delapp", "rmapp"}, Go(r, p),
         call[r].pc \in {"findapp", "insapp", "evictapp", "delapp"},
         p = "insapp" => call[r].op = "createapp", call[r].op # "policy",
         UNCHANGED <<realm, realms, file, acked, overlap>>, Len(body) = Len(body')
  PROVE  /\ CallOK(call[r])' /\ \A s, t \in Call : s # t => PairOK(call[s], call[t])'
         /\ call' = [s \in Call |-> call'[s]] /\ \A s \in Call : s # r => call'[s] = call[s]
<1>1. /\ call' = [s \in Call |-> call'[s]]
      /\ \A s \in Call : s # r => call'[s] = call[s]
      /\ call'[r] \in CallRec /\ call'[r].h = call[r].h
      /\ call'[r].pc = p /\ call'[r].op = call[r].op /\ call'[r].w = call[r].w
      /\ call'[r].a = call[r].a /\ call'[r].row = call[r].row /\ call'[r].k = call[r].k
  BY GoFields DEF Place, Holding
<1>2. CallOK(call[r])
  BY DEF TInv
<1>3. ~Created(call[r])' /\ call[r].pc # "idle"
  BY <1>1 DEF Created, Wanting, Migrating
<1>4. Placed(call[r])'
  BY <1>1, <1>2 DEF CallOK, Placed, Wanting, Migrating, Holding, Deleting
<1>5. Numbered(call[r])' /\ Counting(call[r])'
  BY <1>3 DEF Numbered, Counting
<1>6. Seen(call[r])' /\ Handled(call[r])' /\ Evicted(call[r])'
  BY <1>1, <1>2 DEF CallOK, Seen, Handled, Evicted, Steady, Wanting, Migrating, Holding, Deleting
<1>7. \A s, t \in Call : s # t => PairOK(call[s], call[t])'
  BY <1>1, <1>3, PairsOK
<1> QED BY <1>1, <1>4, <1>5, <1>6, <1>7 DEF CallOK

\* FindApp and DeleteAppEvict.
LEMMA FindAppOK ==
  ASSUME TInv, NEW r \in Call, FindApp(r)
  PROVE  TInv'
<1>1. /\ up = "serving" /\ call[r].pc = "findapp"
      /\ UNCHANGED <<store, pools, up, queue, acked, cut, overlap>>
      /\ UNCHANGED <<realm, realms, file, body>>
  BY DEF FindApp, At, tHist, store
<1>2. \/ End(r)
      \/ \E p \in {"insapp", "evictapp"} :
           Go(r, p) /\ (p = "insapp" => call[r].op = "createapp") /\ call[r].op # "policy"
      \/ /\ call[r].op = "policy"
         /\ call' = [call EXCEPT ![r].k = <<call[r].w, call[r].a>>, ![r].pc = "get"]
  BY DEF FindApp
<1>3. CASE End(r)
  BY <1>1, <1>3, EndOK
<1>4. ASSUME NEW p \in {"insapp", "evictapp"}, Go(r, p), p = "insapp" => call[r].op = "createapp",
             call[r].op # "policy"
      PROVE  TInv'
  <2>1. /\ CallOK(call[r])' /\ \A s, t \in Call : s # t => PairOK(call[s], call[t])'
        /\ call' = [s \in Call |-> call'[s]] /\ \A s \in Call : s # r => call'[s] = call[s]
    BY <1>1, <1>4, HoldOn
  <2> QED BY <1>1, <2>1, MoveOK
<1>5. CASE /\ call[r].op = "policy"
           /\ call' = [call EXCEPT ![r].k = <<call[r].w, call[r].a>>, ![r].pc = "get"]
  <2>1. call[r] \in CallRec /\ <<call[r].w, call[r].a>> \in Key /\ CallOK(call[r])
    BY CallKey, KeyFacts DEF TInv
  <2>2. /\ call' = [s \in Call |-> call'[s]] /\ \A s \in Call : s # r => call'[s] = call[s]
        /\ call'[r] = [call[r] EXCEPT !.k = <<call[r].w, call[r].a>>, !.pc = "get"]
    BY <1>5 DEF TInv, Called
  <2>3. /\ call'[r] \in CallRec /\ call'[r].pc = "get" /\ call'[r].op = "policy"
        /\ call'[r].w = call[r].w /\ call'[r].a = call[r].a /\ call'[r].k = <<call[r].w, call[r].a>>
    BY <1>5, <2>1, <2>2 DEF CallRec, Place, Wanting
  <2>4. Placed(call[r])'
    BY <2>3 DEF Placed, Wanting, Migrating, Holding, Deleting
  <2>5. Numbered(call[r])' /\ Seen(call[r])' /\ Handled(call[r])' /\ Counting(call[r])' /\ Evicted(call[r])'
    BY <2>3 DEF Numbered, Seen, Handled, Counting, Evicted, Created, Wanting, Migrating, Holding,
       Deleting, Unasked
  <2>6. CallOK(call[r])' /\ ~Created(call[r])'
    BY <2>3, <2>4, <2>5 DEF CallOK, Created
  <2>7. \A s, t \in Call : s # t => PairOK(call[s], call[t])'
    <3>1. /\ overlap \subseteq overlap' /\ call[r].pc # "idle" /\ call'[r].op = call[r].op
          /\ call'[r].w = call[r].w /\ ~Created(call[r])' /\ \A s \in Call : s # r => call'[s] = call[s]
      BY <1>1, <1>5, <2>2, <2>3, <2>6
    <3> QED BY <3>1, PairsOK
  <2> QED BY <1>1, <2>2, <2>6, <2>7, MoveOK
<1> QED BY <1>2, <1>3, <1>4, <1>5

\* UsePool.
LEMMA UsePoolOK ==
  ASSUME TInv, NEW r \in Call, UsePool(r)
  PROVE  TInv'
<1>1. /\ up = "serving" /\ call[r].pc = "use"
      /\ UNCHANGED <<store, pools, up, queue, acked, cut, overlap>>
      /\ UNCHANGED <<realm, realms, file, body>>
  BY DEF UsePool, At, tHist, store
<1>2. CASE End(r)
  BY <1>1, <1>2, EndOK
<1>3. CASE Go(r, "get")
  <2>1. /\ call' = [s \in Call |-> call'[s]]
        /\ \A s \in Call : s # r => call'[s] = call[s]
        /\ call'[r] \in CallRec
        /\ call'[r].pc = "get" /\ call'[r].op = call[r].op /\ call'[r].w = call[r].w
        /\ call'[r].a = call[r].a /\ call'[r].k = call[r].k
    BY <1>3, GoFields DEF Place, Wanting
  <2>2. Placed(call[r]) /\ call[r].op \in Unasked
    BY <1>1 DEF TInv, CallOK, Placed
  <2>3. Placed(call[r])' /\ ~Created(call[r])'
    BY <1>1, <2>1, <2>2 DEF Placed, Created, Wanting, Migrating, Holding, Deleting, Unasked
  <2>4. Numbered(call[r])' /\ Seen(call[r])' /\ Handled(call[r])' /\ Counting(call[r])' /\ Evicted(call[r])'
    BY <2>1, <2>2, <2>3 DEF Numbered, Seen, Handled, Counting, Evicted, Wanting, Migrating, Holding, Deleting
  <2>5. CallOK(call[r])'
    BY <2>3, <2>4 DEF CallOK
  <2>6. \A s, t \in Call : s # t => PairOK(call[s], call[t])'
    BY <1>1, <2>1, <2>3, PairsOK
  <2> QED BY <1>1, <2>1, <2>5, <2>6, MoveOK
<1> QED BY <1>2, <1>3 DEF UsePool

LEMMA DeleteAppEvictOK ==
  ASSUME TInv, NEW r \in Call, DeleteAppEvict(r)
  PROVE  TInv'
<1>1. /\ up = "serving" /\ call[r].pc = "evictapp" /\ Go(r, "delapp")
      /\ pools' = evict(<<call[r].w, call[r].a>>)
      /\ UNCHANGED <<store, up, queue, acked, cut, overlap>>
      /\ UNCHANGED <<realm, realms, file, body>>
  BY DEF DeleteAppEvict, At, tHist, store
<1>2. <<call[r].w, call[r].a>> \in Key
  BY CallKey, KeyFacts
<1>3. /\ pools' = [n \in {1, 2} |-> pools'[n]]
      /\ \A n \in {1, 2} : \A e \in pools'[n] : OldEntry(e, n)
  BY <1>1, <1>2, EvictFits
<1>4. /\ CallOK(call[r])' /\ \A s, t \in Call : s # t => PairOK(call[s], call[t])'
      /\ call' = [s \in Call |-> call'[s]] /\ \A s \in Call : s # r => call'[s] = call[s]
  <2>1. call[r].op # "policy"
    BY <1>1 DEF TInv, CallOK, Placed, Wanting, Unasked
  <2> QED BY <1>1, <2>1, HoldOn
<1> QED BY <1>1, <1>3, <1>4, CacheOK

\* MigrateRead.
LEMMA MigrateReadOK ==
  ASSUME TInv, NEW r \in Call, MigrateRead(r)
  PROVE  TInv'
<1>1. /\ up = "serving" /\ call[r].pc = "read" /\ call[r] \in CallRec
      /\ UNCHANGED <<store, pools, up, queue, acked, cut, overlap>>
      /\ UNCHANGED <<realm, realms, file, body>>
  BY CallKey DEF MigrateRead, At, tHist, store
<1>2. CallOK(call[r])
  BY DEF TInv
<1>3. call[r].h \in 1..Len(body) /\ body[call[r].h].rec \in Nat
  <2>1. call[r].h \in 1..Len(body)
    BY <1>1, <1>2 DEF CallOK, Placed, Holding, Migrating
  <2>2. body[call[r].h] \in Contents
    BY <2>1 DEF TInv, Stored
  <2> QED BY <2>1, <2>2, TenantConstants DEF Contents
<1>4. /\ call' = [s \in Call |-> call'[s]]
      /\ \A s \in Call : s # r => call'[s] = call[s]
      /\ call'[r] \in CallRec /\ call'[r].h = call[r].h /\ call'[r].i = body[call[r].h].rec + 1
      /\ call'[r].pc = "script" /\ call'[r].op = call[r].op /\ call'[r].w = call[r].w
      /\ call'[r].a = call[r].a /\ call'[r].row = call[r].row /\ call'[r].k = call[r].k
  <2> DEFINE i == body[call[r].h].rec + 1
  <2>1. i \in Nat /\ "script" \in Place
    BY <1>3 DEF Place, Holding, Migrating
  <2>2. call' = [call EXCEPT ![r].i = i, ![r].pc = "script"] /\ Called
    BY DEF MigrateRead, TInv
  <2> HIDE DEF i
  <2>3. /\ call' = [s \in Call |-> call'[s]]
        /\ \A s \in Call : s # r => call'[s] = call[s]
        /\ call'[r] = [call[r] EXCEPT !.i = i, !.pc = "script"]
    BY <2>2 DEF Called
  <2> QED BY <1>1, <2>1, <2>3 DEF CallRec, i
<1>5. CallOK(call[r])'
  BY <1>1, <1>2, <1>4 DEF CallOK, Placed, Numbered, Seen, Handled, Counting, Evicted, Created,
     Steady, Wanting, Migrating, Holding, Deleting, Unasked
<1>6. \A s, t \in Call : s # t => PairOK(call[s], call[t])'
  <2>1. Created(call[r])' => Created(call[r])
    BY <1>1, <1>4 DEF Created, Migrating
  <2> QED BY <1>1, <1>4, <2>1, PairsOK
<1> QED BY <1>1, <1>4, <1>5, <1>6, MoveOK

\* A 201 for an app.
LEMMA AnswerAppOK ==
  ASSUME TInv, NEW r \in Call, AnswerApp(r)
  PROVE  TInv'
BY EndOK DEF AnswerApp, At, tHist

\* A write into a file: the sequence of files keeps its length.
LEMMA BodyFields ==
  ASSUME TInv, NEW h \in 1..Len(body), NEW c \in Contents, body' = [body EXCEPT ![h] = c]
  PROVE  /\ body' \in Seq(Contents) /\ Len(body') = Len(body) /\ Len(body) \in Nat
         /\ \A f \in 1..Len(body) : body'[f] = IF f = h THEN c ELSE body[f]
BY DEF TInv, Stored

\* The contents of the file a handler holds.
LEMMA HeldFile ==
  ASSUME TInv, NEW r \in Call, call[r].pc \in Holding
  PROVE  /\ call[r].h \in 1..Len(body) /\ call[r].h # NoFile
         /\ body[call[r].h] \in Contents
         /\ \A k \in Key : file[k] = call[r].h => k = call[r].k
<1>1. Placed(call[r]) /\ Handled(call[r])
  BY DEF TInv, CallOK
<1>2. call[r].h \in 1..Len(body) /\ \A k \in Key : file[k] = call[r].h => k = call[r].k
  BY <1>1 DEF Placed, Handled
<1> QED BY <1>2 DEF TInv, Stored, NoFile

\* Who migrates a workspace's database is the create that inserted its row, if no delete
\* overlapped.
LEMMA Migrator ==
  ASSUME TInv, NEW r \in Call, call[r].pc \in Migrating, NEW w \in Workspace, w \notin overlap,
         file[<<w>>] = call[r].h
  PROVE  call[r].w = w /\ Created(call[r]) /\ call[r].row = realm[w] /\ call[r].row \notin acked
<1>1. call[r].pc \in Holding /\ call[r].pc \in Wanting \cup Migrating \cup {"put"}
  BY DEF Holding
<1>2. <<w>> \in Key /\ <<w>>[1] = w
  BY KeyFacts
<1>3. call[r].k = <<w>> /\ call[r].w = w
  BY <1>1, <1>2, HeldFile, CallKey
<1>4. call[r].op = "create"
  BY <1>3 DEF TInv, CallOK, Placed
<1>5. Created(call[r])
  BY <1>1, <1>4 DEF Created
<1> QED BY <1>1, <1>3, <1>4, <1>5 DEF TInv, CallOK, Seen, Numbered, Unasked

\* Who writes has asked for the row.
LEMMA AskedFirst ==
  ASSUME TInv, NEW r \in Call,
         call[r].pc \in {"script", "record", "insapp", "delapp", "rmapp", "write"}
  PROVE  call[r].op \notin Unasked
BY DEF TInv, CallOK, Placed, Wanting

\* A step that moves one handler and writes into the file it holds: _migrations rows only as a
\* migration does, the tenant's own rows only under its row.
LEMMA WriteOK ==
  ASSUME TInv, NEW r \in Call, up = "serving", call' = [s \in Call |-> call'[s]],
         \A s \in Call : s # r => call'[s] = call[s],
         UNCHANGED <<realm, realms, file, pools, up, queue, acked, cut, overlap>>,
         call[r].pc \in Holding, call[r].op \notin Unasked,
         NEW c \in Contents, body' \in Seq(Contents), Len(body') = Len(body),
         \A f \in 1..Len(body) : body'[f] = IF f = call[r].h THEN c ELSE body[f],
         c.rec # body[call[r].h].rec => call[r].pc \in Migrating,
         c.writers \subseteq body[call[r].h].writers \cup {call[r].row},
         CallOK(call[r])',
         \A s, t \in Call : s # t => PairOK(call[s], call[t])'
  PROVE  TInv'
<1> DEFINE h == call[r].h
<1>1. h \in 1..Len(body) /\ h # NoFile /\ \A k \in Key : file[k] = h => k = call[r].k
  BY HeldFile
<1>2. /\ body' \in Seq(Contents) /\ Len(body') = Len(body) /\ Len(body) \in Nat
      /\ \A f \in 1..Len(body) : body'[f] = IF f = h THEN c ELSE body[f]
  BY DEF TInv, Stored
<1>3. Called' /\ Stored' /\ Pooled' /\ Serving'
  BY <1>2 DEF TInv, Called, Stored, Pooled, Serving, Steady
<1>4. Swept'
  <2>1. call[r].pc # "rmdir"
    BY DEF Holding, Migrating
  <2> SUFFICES ASSUME NEW w \in Workspace \ (overlap \cup cut), realm[w] = 0,
                      \A s \in Call : ~(call'[s].w = w /\ call'[s].pc = "rmdir"),
                      NEW k \in Key, k[1] = w
               PROVE  file[k] # NoFile => body'[file[k]] = Empty
    BY DEF Swept, Blank
  <2>2. \A s \in Call : ~(call[s].w = w /\ call[s].pc = "rmdir")
    BY <2>1
  <2>3. Blank(k) /\ file[k] \in 0..Len(body)
    BY <2>2 DEF TInv, Swept, Stored
  <2>4. file[k] # h
    <3>1. file[k] = h => call[r].w = w
      BY <1>1, CallKey
    <3>2. Seen(call[r])
      BY DEF TInv, CallOK
    <3> QED BY <3>1, <3>2 DEF Seen
  <2> QED BY <1>2, <2>3, <2>4 DEF Blank, NoFile
<1>5. \A w \in Workspace : <<w>> \in Key /\ <<w>>[1] = w /\ file[<<w>>] \in 0..Len(body)
  <2> TAKE w \in Workspace
  <2>1. <<w>> \in Key /\ <<w>>[1] = w
    BY KeyFacts
  <2>2. file[<<w>>] \in Nat /\ file[<<w>>] <= Len(body)
    BY <2>1 DEF TInv, Stored
  <2> QED BY <1>2, <2>1, <2>2
<1>6. Written'
  <2> SUFFICES ASSUME NEW w \in Workspace \ (overlap \cup cut), realm[w] # 0, file[<<w>>] # NoFile
               PROVE  body'[file[<<w>>]].writers \subseteq {realm[w]}
    BY DEF Written
  <2>1. file[<<w>>] \in 1..Len(body) /\ body[file[<<w>>]].writers \subseteq {realm[w]}
    BY <1>2, <1>5 DEF TInv, Written, NoFile
  <2>2. CASE file[<<w>>] = h
    <3>1. call[r].w = w
      BY <1>1, <1>5, <2>2, CallKey
    <3>2. call[r].row = realm[w]
      <4>1. Seen(call[r])
        BY DEF TInv, CallOK
      <4> QED BY <3>1, <4>1 DEF Seen
    <3> QED BY <1>2, <2>1, <2>2, <3>2
  <2>3. CASE file[<<w>>] # h
    BY <1>2, <2>1, <2>3
  <2> QED BY <2>2, <2>3
<1>7. AckedIsMigrated'
  <2> SUFFICES ASSUME NEW w \in Workspace, realm[w] \in acked, w \notin overlap
               PROVE  file[<<w>>] # NoFile /\ body'[file[<<w>>]].rec = ScriptCount
    BY DEF AckedIsMigrated
  <2>1. /\ file[<<w>>] # NoFile /\ body[file[<<w>>]].rec = ScriptCount
        /\ file[<<w>>] \in 1..Len(body)
    BY <1>2, <1>5 DEF TInv, AckedIsMigrated, NoFile
  <2>2. file[<<w>>] = h => c.rec = body[h].rec
    BY Migrator
  <2> QED BY <1>2, <2>1, <2>2
<1>8. ASSUME NEW s \in Call, s # r PROVE CallOK(call[s])'
  <2>1. Created(call[s]) => call[s].row \notin acked
    BY DEF TInv, CallOK, Numbered
  <2>2. ASSUME Created(call[s]), call[s].w \notin overlap, call[s].pc \in {"script", "record"}
        PROVE  body'[call[s].h].rec = body[call[s].h].rec
    <3>1. call[s].pc \in Holding /\ call[s].pc \in Migrating
      BY <2>2 DEF Holding, Migrating
    <3>2. call[s].h \in 1..Len(body)
      BY <3>1, HeldFile
    <3>3. ASSUME call[s].h = h, c.rec # body[h].rec PROVE FALSE
      <4>1. file[<<call[s].w>>] = h /\ call[s].w \in Workspace
        <5>1. call[s].k = <<call[s].w>>
          BY <2>2 DEF TInv, CallOK, Placed, Created
        <5>2. Steady(call[s].k) /\ call[s].w \in Workspace
          BY <2>2, <5>1, CallKey DEF Steady
        <5>3. Handled(call[s])
          BY DEF TInv, CallOK
        <5>4. file[call[s].k] = call[s].h
          BY <3>1, <5>2, <5>3 DEF Handled
        <5> QED BY <3>3, <5>1, <5>2, <5>4
      <4>2. Created(call[r]) /\ call[r].row = realm[call[s].w]
        BY <2>2, <3>3, <4>1, Migrator
      <4>3. call[s].row = realm[call[s].w]
        <5>1. Seen(call[s]) /\ call[s].op \notin Unasked
          BY <2>2 DEF TInv, CallOK, Created, Unasked
        <5> QED BY <2>2, <3>1, <5>1 DEF Seen
      <4>4. PairOK(call[s], call[r])
        BY <1>8 DEF TInv
      <4> QED BY <2>2, <4>2, <4>3, <4>4 DEF PairOK
    <3> QED BY <1>2, <3>2, <3>3
  <2>3. realms \in Nat
    BY DEF TInv, Stored
  <2>4. call'[s] = call[s] /\ (Steady(call[s].k)' => Steady(call[s].k))
    BY <1>8 DEF Steady
  <2> QED BY <1>2, <2>1, <2>2, <2>3, <2>4, OthersOK
<1> QED BY <1>3, <1>4, <1>6, <1>7, <1>8 DEF TInv

\* MigrateScript.
LEMMA MigrateScriptOK ==
  ASSUME TInv, NEW r \in Call, MigrateScript(r)
  PROVE  TInv'
<1> DEFINE q == call[r]
           c == [body[q.h] EXCEPT !.done = q.i]
<1>1. /\ up = "serving" /\ q.pc = "script" /\ q.i <= ScriptCount
      /\ UNCHANGED <<realm, realms, file, pools, up, queue, acked, cut, overlap>>
  BY DEF MigrateScript, At, tHist
<1>2. q.pc \in Holding /\ q.pc \in Migrating /\ q.pc # "rmdir" /\ q \in CallRec
  BY <1>1, CallKey DEF Holding, Migrating
<1>3. q.h \in 1..Len(body) /\ body[q.h] \in Contents
  BY <1>2, HeldFile
<1>4. CASE End(r) /\ UNCHANGED body
  BY <1>1, <1>2, <1>4, EndOK DEF store
<1>5. CASE body[q.h].done < q.i /\ body' = [body EXCEPT ![q.h].done = q.i] /\ Go(r, "record")
  <2>1. ScriptCount \in Nat /\ q.i \in Nat /\ body[q.h].done \in Nat /\ q.i \in 1..ScriptCount
    <3>1. ScriptCount \in Nat
      BY TenantConstants
    <3>2. q.i \in Nat /\ body[q.h].done \in Nat
      <4>1. q.i \in Nat
        BY <1>2 DEF CallRec
      <4>2. body[q.h].done \in 0..ScriptCount
        BY <1>3 DEF Contents
      <4> QED BY <3>1, <4>1, <4>2
    <3>3. body[q.h].done < q.i /\ q.i <= ScriptCount
      BY <1>1, <1>5
    <3> QED BY <3>1, <3>2, <3>3
  <2>2. /\ c \in Contents /\ c.rec = body[q.h].rec /\ c.writers = body[q.h].writers
        /\ body' = [body EXCEPT ![q.h] = c]
    <3>1. c \in Contents /\ c.rec = body[q.h].rec /\ c.writers = body[q.h].writers
      BY <1>3, <2>1 DEF Contents
    <3> QED BY <1>5, <3>1
  <2>3. /\ call' = [s \in Call |-> call'[s]]
        /\ \A s \in Call : s # r => call'[s] = call[s]
        /\ call'[r] \in CallRec /\ call'[r].h = q.h /\ call'[r].i = q.i
        /\ call'[r].pc = "record" /\ call'[r].op = q.op /\ call'[r].w = q.w
        /\ call'[r].a = q.a /\ call'[r].row = q.row /\ call'[r].k = q.k
    BY <1>5, GoFields DEF Place, Holding, Migrating
  <2> HIDE DEF c
  <2>4. /\ body' \in Seq(Contents) /\ Len(body') = Len(body) /\ body'[q.h] = c
        /\ \A f \in 1..Len(body) : body'[f] = IF f = q.h THEN c ELSE body[f]
    <3>1. /\ body' \in Seq(Contents) /\ Len(body') = Len(body)
          /\ \A f \in 1..Len(body) : body'[f] = IF f = q.h THEN c ELSE body[f]
      BY <1>3, <2>2, BodyFields
    <3> QED BY <1>3, <3>1
  <2>5. CallOK(q)
    BY DEF TInv
  <2>6. Placed(call[r])' /\ Numbered(call[r])' /\ Seen(call[r])'
    BY <1>1, <2>1, <2>3, <2>4, <2>5 DEF CallOK, Placed, Numbered, Seen, Created,
       Wanting, Migrating, Holding, Deleting
  <2>7. Handled(call[r])' /\ Counting(call[r])' /\ Evicted(call[r])'
    BY <1>1, <2>2, <2>3, <2>4, <2>5 DEF CallOK, Handled, Counting, Evicted, Created, Steady,
       Wanting, Migrating, Holding, Deleting
  <2>8. \A s, t \in Call : s # t => PairOK(call[s], call[t])'
    <3>1. Created(call[r])' => Created(call[r])
      BY <1>2, <2>3 DEF Created
    <3> QED BY <1>1, <2>3, <3>1, PairsOK
  <2>9. CallOK(call[r])' /\ q.op \notin Unasked
    BY <1>1, <2>5, <2>6, <2>7, AskedFirst DEF CallOK
  <2> QED BY <1>1, <1>2, <2>2, <2>3, <2>4, <2>8, <2>9, WriteOK
<1> QED BY <1>4, <1>5 DEF MigrateScript

\* MigrateRecord.
LEMMA MigrateRecordOK ==
  ASSUME TInv, NEW r \in Call, MigrateRecord(r)
  PROVE  TInv'
<1> DEFINE q == call[r]
           c == [body[q.h] EXCEPT !.rec = q.i]
<1>1. /\ up = "serving" /\ q.pc = "record" /\ body' = [body EXCEPT ![q.h].rec = q.i]
      /\ call' = [call EXCEPT ![r].i = q.i + 1, ![r].pc = "script"]
      /\ UNCHANGED <<realm, realms, file, pools, up, queue, acked, cut, overlap>>
  BY DEF MigrateRecord, At, tHist
<1>2. q.pc \in Holding /\ q.pc \in Migrating /\ q \in CallRec /\ CallOK(q)
  BY <1>1, CallKey DEF Holding, Migrating, TInv
<1>3. q.h \in 1..Len(body) /\ body[q.h] \in Contents
  BY <1>2, HeldFile
<1>4. ScriptCount \in Nat /\ q.i \in 1..ScriptCount /\ q.i \in Nat
  BY <1>1, <1>2, TenantConstants DEF CallOK, Placed
<1>5. /\ c \in Contents /\ c.rec = q.i /\ c.writers = body[q.h].writers
      /\ body' = [body EXCEPT ![q.h] = c]
  <2>1. c \in Contents /\ c.rec = q.i /\ c.writers = body[q.h].writers
    BY <1>3, <1>4 DEF Contents
  <2> QED BY <1>1, <2>1
<1>6. /\ call' = [s \in Call |-> call'[s]]
      /\ \A s \in Call : s # r => call'[s] = call[s]
      /\ call'[r] \in CallRec /\ call'[r].h = q.h /\ call'[r].i = q.i + 1
      /\ call'[r].pc = "script" /\ call'[r].op = q.op /\ call'[r].w = q.w
      /\ call'[r].a = q.a /\ call'[r].row = q.row /\ call'[r].k = q.k
  <2>1. "script" \in Place /\ q.i + 1 \in Nat /\ Called
    BY <1>4 DEF Place, Holding, Migrating, TInv
  <2> QED BY <1>1, <1>2, <2>1 DEF CallRec, Called
<1> HIDE DEF c
<1>7. /\ body' \in Seq(Contents) /\ Len(body') = Len(body) /\ body'[q.h] = c
      /\ \A f \in 1..Len(body) : body'[f] = IF f = q.h THEN c ELSE body[f]
  <2>1. /\ body' \in Seq(Contents) /\ Len(body') = Len(body)
        /\ \A f \in 1..Len(body) : body'[f] = IF f = q.h THEN c ELSE body[f]
    BY <1>3, <1>5, BodyFields
  <2> QED BY <1>3, <2>1
<1>8. Placed(call[r])' /\ Numbered(call[r])' /\ Seen(call[r])'
  <2>1. q.pc = "record" /\ UNCHANGED <<realm, realms, acked, overlap>>
    BY <1>1
  <2> QED BY <1>2, <1>6, <1>7, <2>1 DEF CallOK, Placed, Numbered, Seen, Created,
     Wanting, Migrating, Holding, Deleting
<1>9. Handled(call[r])' /\ Counting(call[r])' /\ Evicted(call[r])'
  <2>1. q.pc = "record" /\ UNCHANGED <<file, pools, overlap>> /\ c.rec = q.i
    BY <1>1, <1>5
  <2>2. Steady(call[r].k)' => Steady(q.k)
    BY <1>1, <1>6 DEF Steady
  <2> QED BY <1>2, <1>6, <1>7, <2>1, <2>2 DEF CallOK, Handled, Counting, Evicted, Created,
     Wanting, Migrating, Holding, Deleting
<1>10. \A s, t \in Call : s # t => PairOK(call[s], call[t])'
  <2>1. Created(call[r])' => Created(call[r])
    BY <1>2, <1>6 DEF Created
  <2> QED BY <1>1, <1>6, <2>1, PairsOK
<1>11. CallOK(call[r])' /\ q.op \notin Unasked
  BY <1>1, <1>8, <1>9, AskedFirst DEF CallOK
<1> QED BY <1>1, <1>2, <1>5, <1>6, <1>7, <1>10, <1>11, WriteOK

\* InsertApp.
LEMMA InsertAppOK ==
  ASSUME TInv, NEW r \in Call, InsertApp(r)
  PROVE  TInv'
<1> DEFINE q == call[r]
           c == [body[q.h] EXCEPT !.apps = @ \cup {q.a}]
<1>1. /\ up = "serving" /\ q.pc = "insapp" /\ q.pc # "rmdir"
      /\ UNCHANGED <<realm, realms, file, pools, up, queue, acked, cut, overlap>>
  BY DEF InsertApp, At, tHist
<1>2. q.pc \in Holding /\ q \in CallRec /\ CallOK(q) /\ q.w \in Workspace /\ q.a \in App
  BY <1>1, CallKey DEF Holding, TInv
<1>3. q.h \in 1..Len(body) /\ body[q.h] \in Contents
  BY <1>2, HeldFile
<1>4. CASE End(r) /\ UNCHANGED body
  BY <1>1, <1>4, EndOK DEF store
<1>5. CASE create_app(q.h, q.a) /\ call' = [call EXCEPT ![r].k = <<q.w, q.a>>, ![r].pc = "get"]
  <2>1. /\ c \in Contents /\ c.rec = body[q.h].rec /\ c.writers = body[q.h].writers
        /\ body' = [body EXCEPT ![q.h] = c]
    BY <1>2, <1>3, <1>5 DEF create_app, Contents, TInv, Stored
  <2>2. /\ call' = [s \in Call |-> call'[s]]
        /\ \A s \in Call : s # r => call'[s] = call[s]
        /\ call'[r] \in CallRec /\ call'[r].h = q.h /\ call'[r].i = q.i
        /\ call'[r].pc = "get" /\ call'[r].op = q.op /\ call'[r].w = q.w
        /\ call'[r].a = q.a /\ call'[r].row = q.row /\ call'[r].k = <<q.w, q.a>>
    <3> DEFINE k == <<q.w, q.a>>
    <3>1. "get" \in Place /\ k \in Key /\ Called
      BY <1>2, KeyFacts DEF Place, Wanting, TInv
    <3>2. call' = [call EXCEPT ![r].k = k, ![r].pc = "get"]
      BY <1>5
    <3> HIDE DEF k
    <3>3. /\ call' = [s \in Call |-> call'[s]]
          /\ \A s \in Call : s # r => call'[s] = call[s]
          /\ call'[r] \in CallRec /\ call'[r].h = q.h /\ call'[r].i = q.i
          /\ call'[r].pc = "get" /\ call'[r].op = q.op /\ call'[r].w = q.w
          /\ call'[r].a = q.a /\ call'[r].row = q.row /\ call'[r].k = k
      BY <1>2, <3>1, <3>2 DEF CallRec, Called
    <3> QED BY <3>3 DEF k
  <2> HIDE DEF c
  <2>3. /\ body' \in Seq(Contents) /\ Len(body') = Len(body)
        /\ \A f \in 1..Len(body) : body'[f] = IF f = q.h THEN c ELSE body[f]
    BY <1>3, <2>1, BodyFields
  <2>4. q.op = "createapp"
    BY <1>1, <1>2 DEF CallOK, Placed
  <2>5. ~Created(call[r])'
    BY <2>2, <2>4 DEF Created
  <2>6. Placed(call[r])' /\ Numbered(call[r])' /\ Counting(call[r])'
    BY <1>1, <1>2, <2>2, <2>4, <2>5 DEF CallOK, Placed, Numbered, Counting,
       Wanting, Migrating, Holding, Deleting
  <2>7. Seen(call[r])' /\ Handled(call[r])' /\ Evicted(call[r])'
    BY <1>1, <1>2, <2>2 DEF CallOK, Seen, Handled, Evicted, Wanting, Migrating, Holding, Deleting
  <2>8. \A s, t \in Call : s # t => PairOK(call[s], call[t])'
    BY <1>1, <2>2, <2>5, PairsOK
  <2>9. CallOK(call[r])' /\ q.op \notin Unasked
    BY <2>4, <2>6, <2>7 DEF CallOK, Unasked
  <2> QED BY <1>1, <1>2, <2>1, <2>2, <2>3, <2>8, <2>9, WriteOK
<1> QED BY <1>4, <1>5 DEF InsertApp

\* DeleteAppRow.
LEMMA DeleteAppRowOK ==
  ASSUME TInv, NEW r \in Call, DeleteAppRow(r)
  PROVE  TInv'
<1> DEFINE q == call[r]
           c == [body[q.h] EXCEPT !.apps = @ \ {q.a}]
<1>1. /\ up = "serving" /\ q.pc = "delapp" /\ delete_app(q.h, q.a)
      /\ Go(r, "rmapp") \/ End(r)
      /\ UNCHANGED <<realm, realms, file, pools, up, queue, acked, cut, overlap>>
  BY DEF DeleteAppRow, At, tHist
<1>2. q.pc \in Holding /\ q.op \notin Unasked /\ q.op # "policy"
  BY <1>1, AskedFirst DEF Holding, Unasked
<1>3. q.h \in 1..Len(body) /\ body[q.h] \in Contents
  BY <1>2, HeldFile
<1>4. /\ c \in Contents /\ c.rec = body[q.h].rec /\ c.writers = body[q.h].writers
      /\ body' = [body EXCEPT ![q.h] = c]
  BY <1>1, <1>3 DEF delete_app, Contents, TInv, Stored
<1> HIDE DEF c
<1>5. /\ body' \in Seq(Contents) /\ Len(body') = Len(body)
      /\ \A f \in 1..Len(body) : body'[f] = IF f = q.h THEN c ELSE body[f]
  BY <1>3, <1>4, BodyFields
<1>6. /\ CallOK(call[r])' /\ \A s, t \in Call : s # t => PairOK(call[s], call[t])'
      /\ call' = [s \in Call |-> call'[s]] /\ \A s \in Call : s # r => call'[s] = call[s]
  <2>1. CASE Go(r, "rmapp")
    BY <1>1, <1>2, <1>5, <2>1, HoldOn
  <2>2. CASE End(r)
    BY <1>1, <2>2, EndPairs
  <2> QED BY <1>1, <2>1, <2>2
<1> QED BY <1>1, <1>2, <1>4, <1>5, <1>6, WriteOK

\* insert_realm_admin.
LEMMA InsertAdminOK ==
  ASSUME TInv, NEW r \in Call, insert_realm_admin(r)
  PROVE  TInv'
<1> DEFINE q == call[r]
           c == [body[q.h] EXCEPT !.writers = @ \cup {q.row}]
<1>1. /\ up = "serving" /\ q.pc = "write" /\ End(r)
      /\ body' = IF Queryable(q.h) THEN [body EXCEPT ![q.h].writers = @ \cup {q.row}] ELSE body
      /\ UNCHANGED <<realm, realms, file, pools, up, queue, acked, cut, overlap>>
  BY DEF insert_realm_admin, At, tHist
<1>2. q.pc \in Holding /\ q.row \in Nat /\ q.pc # "rmdir" /\ q.op \notin Unasked
  BY <1>1, CallKey, AskedFirst DEF Holding, CallRec
<1>3. q.h \in 1..Len(body) /\ body[q.h] \in Contents
  BY <1>2, HeldFile
<1>4. CASE UNCHANGED body
  BY <1>1, <1>2, <1>4, EndOK DEF store
<1>5. CASE body' = [body EXCEPT ![q.h].writers = @ \cup {q.row}]
  <2>1. /\ c \in Contents /\ c.rec = body[q.h].rec /\ c.writers = body[q.h].writers \cup {q.row}
        /\ body' = [body EXCEPT ![q.h] = c]
    BY <1>2, <1>3, <1>5 DEF Contents, TInv, Stored
  <2> HIDE DEF c
  <2>2. /\ CallOK(call[r])' /\ \A s, t \in Call : s # t => PairOK(call[s], call[t])'
        /\ call' = [s \in Call |-> call'[s]] /\ \A s \in Call : s # r => call'[s] = call[s]
    BY <1>1, EndPairs
  <2>3. /\ body' \in Seq(Contents) /\ Len(body') = Len(body)
        /\ \A f \in 1..Len(body) : body'[f] = IF f = q.h THEN c ELSE body[f]
    BY <1>3, <2>1, BodyFields
  <2>4. UNCHANGED <<realm, realms, file, pools, up, queue, acked, cut, overlap>> /\ up = "serving"
    BY <1>1
  <2> QED BY <1>2, <2>1, <2>2, <2>3, <2>4, WriteOK
<1> QED BY <1>1, <1>4, <1>5

\* PoolOpen: the file is there, or it is created.
LEMMA PoolOpenOK ==
  ASSUME TInv, NEW r \in Call, PoolOpen(r)
  PROVE  TInv'
<1> DEFINE q == call[r]
<1>1. /\ up = "serving" /\ q.pc = "open" /\ open_pool(q.k)
      /\ call' = [call EXCEPT ![r].h = file'[q.k], ![r].pc = "put"]
      /\ UNCHANGED <<realm, realms, pools, up, queue, acked, cut, overlap>>
  BY DEF PoolOpen, At, tHist
<1>2. up = "serving" /\ q.pc = "open" /\ UNCHANGED <<realm, realms, pools, up, queue, acked, cut, overlap>>
  BY <1>1
<1>3. /\ q \in CallRec /\ q.k \in Key /\ q.k[1] = q.w /\ CallOK(q) /\ q.w \in Workspace
      /\ q.pc \in Wanting
  BY <1>1, CallKey DEF TInv, Wanting
<1>4. /\ file \in [Key -> Nat] /\ body \in Seq(Contents) /\ Len(body) \in Nat
      /\ \A k \in Key : file[k] <= Len(body)
      /\ \A k, l \in Key : file[k] = file[l] /\ file[k] # NoFile => k = l
      /\ realms \in Nat
  BY DEF TInv, Stored
<1>5. ASSUME file'[q.k] \in 1..Len(body'), Len(body') \in Nat,
             \A k \in Key : file'[k] = file'[q.k] => k = q.k
      PROVE  /\ call' = [s \in Call |-> call'[s]] /\ \A s \in Call : s # r => call'[s] = call[s]
             /\ CallOK(call[r])' /\ \A s, t \in Call : s # t => PairOK(call[s], call[t])'
  <2> DEFINE h == file'[q.k]
  <2>1. "put" \in Place /\ h \in Nat /\ Called /\ call' = [call EXCEPT ![r].h = h, ![r].pc = "put"]
    BY <1>1, <1>5 DEF Place, Holding, TInv
  <2> HIDE DEF h
  <2>2. /\ call' = [s \in Call |-> call'[s]]
        /\ \A s \in Call : s # r => call'[s] = call[s]
        /\ call'[r] \in CallRec /\ call'[r].h = h /\ call'[r].i = q.i
        /\ call'[r].pc = "put" /\ call'[r].op = q.op /\ call'[r].w = q.w
        /\ call'[r].a = q.a /\ call'[r].row = q.row /\ call'[r].k = q.k
    BY <1>3, <2>1 DEF CallRec, Called
  <2>3. call'[r].h \in 1..Len(body')
    BY <1>5, <2>2 DEF h
  <2>4. Placed(call[r])'
    BY <1>1, <1>3, <2>2, <2>3 DEF CallOK, Placed, Wanting, Migrating, Holding, Deleting
  <2>5. Created(call[r])' => Created(call[r])
    BY <1>3, <2>2 DEF Created
  <2>6. Numbered(call[r])' /\ Seen(call[r])'
    BY <1>2, <1>3, <2>2, <2>5 DEF CallOK, Numbered, Seen, Deleting
  <2>7. Handled(call[r])'
    BY <1>5, <2>2 DEF Handled, h
  <2>8. Counting(call[r])' /\ Evicted(call[r])'
    BY <2>2 DEF Counting, Evicted, Deleting
  <2>9. \A s, t \in Call : s # t => PairOK(call[s], call[t])'
    BY <1>1, <2>2, <2>5, PairsOK
  <2> QED BY <2>2, <2>4, <2>6, <2>7, <2>8, <2>9 DEF CallOK
<1>6. CASE file[q.k] # NoFile /\ UNCHANGED <<file, body>>
  <2>1. /\ file'[q.k] \in 1..Len(body') /\ Len(body') \in Nat
        /\ \A k \in Key : file'[k] = file'[q.k] => k = q.k
    BY <1>3, <1>4, <1>6 DEF NoFile
  <2>2. q.pc # "rmdir" /\ UNCHANGED <<store, pools, up, queue, acked, cut, overlap>>
    BY <1>1, <1>6 DEF store
  <2>3. /\ call' = [s \in Call |-> call'[s]] /\ \A s \in Call : s # r => call'[s] = call[s]
        /\ CallOK(call[r])' /\ \A s, t \in Call : s # t => PairOK(call[s], call[t])'
    BY <1>5, <2>1
  <2> QED BY <1>1, <2>2, <2>3, MoveOK
<1>7. CASE /\ file[q.k] = NoFile
           /\ body' = Append(body, Empty) /\ file' = [file EXCEPT ![q.k] = Len(body) + 1]
  <2>1. /\ file' \in [Key -> Nat] /\ file'[q.k] = Len(body) + 1
        /\ \A k \in Key : k # q.k => file'[k] = file[k]
    BY <1>3, <1>4, <1>7
  <2>2. Empty \in Contents /\ Empty.writers = {}
    BY TenantConstants DEF Empty, Contents
  <2>3. /\ body' \in Seq(Contents) /\ Len(body') = Len(body) + 1
        /\ body'[Len(body) + 1] = Empty /\ \A f \in 1..Len(body) : body'[f] = body[f]
    BY <1>4, <1>7, <2>2
  <2>4. /\ file'[q.k] \in 1..Len(body') /\ Len(body') \in Nat
        /\ \A k \in Key : file'[k] = file'[q.k] => k = q.k
    BY <1>3, <1>4, <2>1, <2>3
  <2>5. /\ call' = [s \in Call |-> call'[s]] /\ \A s \in Call : s # r => call'[s] = call[s]
        /\ CallOK(call[r])' /\ \A s, t \in Call : s # t => PairOK(call[s], call[t])'
    BY <1>5, <2>4
  <2>6. Called' /\ Serving'
    BY <1>1, <2>5 DEF Called, Serving
  <2>7. Stored'
    <3>1. \A k \in Key : file'[k] <= Len(body')
      BY <1>4, <2>1, <2>3
    <3>2. \A k, l \in Key : file'[k] = file'[l] /\ file'[k] # NoFile => k = l
      BY <1>4, <2>1, <2>4
    <3> QED BY <1>1, <2>1, <2>3, <3>1, <3>2 DEF TInv, Stored
  <2>8. \A w \in Workspace : <<w>> \in Key /\ <<w>>[1] = w
    BY KeyFacts
  <2>9. Pooled'
    <3> SUFFICES ASSUME NEW n \in {1, 2}, NEW e \in pools[n]
                 PROVE  /\ e.k \in Key /\ Kind(e.k) = n /\ e.f \in 1..Len(body')
                        /\ \A k \in Key : file'[k] = e.f => k = e.k
                        /\ Steady(e.k) => e.f = file'[e.k]
      BY <1>1 DEF TInv, Pooled, Steady
    <3>1. /\ e.k \in Key /\ Kind(e.k) = n /\ e.f \in 1..Len(body)
          /\ \A k \in Key : file[k] = e.f => k = e.k
          /\ Steady(e.k) => e.f = file[e.k]
      BY DEF TInv, Pooled
    <3>2. e.f \in 1..Len(body') /\ e.f # file'[q.k] /\ e.f # file[q.k]
      BY <1>4, <1>7, <2>1, <2>3, <3>1 DEF NoFile
    <3> QED BY <2>1, <3>1, <3>2
  <2>10. Swept'
    <3> SUFFICES ASSUME NEW w \in Workspace \ (overlap \cup cut), realm[w] = 0,
                        \A s \in Call : ~(call'[s].w = w /\ call'[s].pc = "rmdir"),
                        NEW k \in Key, k[1] = w
                 PROVE  file'[k] # NoFile => body'[file'[k]] = Empty
      BY <1>2 DEF Swept, Blank
    <3>1. \A s \in Call : ~(call[s].w = w /\ call[s].pc = "rmdir")
      BY <1>1, <2>5
    <3>2. Blank(k)
      BY <3>1 DEF TInv, Swept
    <3>3. CASE k = q.k
      BY <2>1, <2>3, <3>3
    <3>4. CASE k # q.k
      <4>1. file'[k] = file[k] /\ (file[k] # NoFile => file[k] \in 1..Len(body))
        BY <1>4, <2>1, <3>4 DEF NoFile
      <4> QED BY <2>3, <3>2, <4>1 DEF Blank
    <3> QED BY <3>3, <3>4
  <2>11. Written'
    <3> SUFFICES ASSUME NEW w \in Workspace \ (overlap \cup cut), realm[w] # 0, file'[<<w>>] # NoFile
                 PROVE  body'[file'[<<w>>]].writers \subseteq {realm[w]}
      BY <1>2 DEF Written
    <3>1. CASE <<w>> = q.k
      BY <2>1, <2>2, <2>3, <3>1
    <3>2. CASE <<w>> # q.k
      <4>1. file'[<<w>>] = file[<<w>>] /\ file[<<w>>] \in 1..Len(body)
        BY <1>4, <2>1, <2>8, <3>2 DEF NoFile
      <4>2. body[file[<<w>>]].writers \subseteq {realm[w]}
        BY <4>1 DEF TInv, Written
      <4> QED BY <2>3, <4>1, <4>2
    <3> QED BY <3>1, <3>2
  <2>12. AckedIsMigrated'
    <3> SUFFICES ASSUME NEW w \in Workspace, realm[w] \in acked, w \notin overlap
                 PROVE  file'[<<w>>] # NoFile /\ body'[file'[<<w>>]].rec = ScriptCount
      BY <1>2 DEF AckedIsMigrated
    <3>1. file[<<w>>] # NoFile /\ body[file[<<w>>]].rec = ScriptCount
      BY DEF TInv, AckedIsMigrated
    <3>2. file[<<w>>] \in 1..Len(body)
      BY <1>4, <2>8, <3>1 DEF NoFile
    <3>3. <<w>> # q.k
      BY <1>7, <3>1
    <3>4. file'[<<w>>] = file[<<w>>]
      BY <2>1, <2>8, <3>3
    <3> QED BY <2>3, <3>1, <3>2, <3>4
  <2>13. ASSUME NEW s \in Call, s # r PROVE CallOK(call[s])'
    <3>1. Created(call[s]) => call[s].row \notin acked
      BY DEF TInv, CallOK, Numbered
    <3>2. ASSUME call[s].pc \in Holding
          PROVE  /\ \A k \in Key : file'[k] = call[s].h => file[k] = call[s].h
                 /\ Steady(call[s].k) => file'[call[s].k] = file[call[s].k]
      <4>1. call[s].h \in 1..Len(body) /\ call[s].h # NoFile /\ call[s].k \in Key
        BY <3>2, HeldFile, CallKey
      <4>2. Steady(call[s].k) => file[call[s].k] = call[s].h
        BY <3>2 DEF TInv, CallOK, Handled
      <4>3. call[s].h # file'[q.k]
        BY <1>4, <2>1, <4>1
      <4> QED BY <1>7, <2>1, <4>1, <4>2, <4>3
    <3>3. ASSUME call[s].pc \in {"script", "record"}
          PROVE  body'[call[s].h].rec = body[call[s].h].rec
      <4>1. call[s].h \in 1..Len(body)
        BY <3>3, HeldFile DEF Holding, Migrating
      <4> QED BY <2>3, <4>1
    <3>4. Len(body) <= Len(body')
      BY <1>4, <2>3
    <3>5. call'[s] = call[s] /\ Len(body) \in Nat /\ Len(body') \in Nat /\ realms \in Nat
      BY <1>4, <2>4, <2>5, <2>13
    <3>6. call[s].w \notin overlap /\ call[s].pc \in Deleting =>
            \A n \in {1, 2} : \A e \in pools'[n] :
              e.k[1] = call[s].w => \E d \in pools[n] : d.k = e.k
      BY <1>2
    <3>7. UNCHANGED <<realm, realms, acked, overlap>> /\ (Steady(call[s].k)' => Steady(call[s].k))
      BY <1>2, <3>5 DEF Steady
    <3> QED BY <3>1, <3>2, <3>3, <3>4, <3>5, <3>6, <3>7, OthersOK
  <2> QED BY <2>5, <2>6, <2>7, <2>9, <2>10, <2>11, <2>12, <2>13 DEF TInv
<1> QED BY <1>1, <1>6, <1>7 DEF open_pool

\* Where the rmdir of a delete nobody overlapped can be, seen from another handler on the workspace.
LEMMA NoRmdir ==
  ASSUME TInv, NEW r \in Call, call[r].pc # "idle", call[r].op # "delete", call[r].w \notin overlap,
         NEW s \in Call, call[s].w = call[r].w
  PROVE  call[s].pc = "idle" \/ call[s].op # "delete"
<1>1. CASE s = r
  BY <1>1
<1>2. CASE s # r
  BY <1>2 DEF TInv, PairOK
<1> QED BY <1>1, <1>2

\* InsertRow.
LEMMA InsertRowOK ==
  ASSUME TInv, NEW r \in Call, InsertRow(r)
  PROVE  TInv'
<1> DEFINE q == call[r]
           w == call[r].w
<1>1. /\ up = "serving" /\ q.pc = "insert" /\ q.pc # "rmdir"
      /\ UNCHANGED <<file, body, pools, up, queue, acked, cut, overlap>>
  BY DEF InsertRow, At, tHist
<1>2. /\ q \in CallRec /\ w \in Workspace /\ Placed(q) /\ q.op = "create" /\ q.k = <<w>>
      /\ realm \in [Workspace -> Nat] /\ realms \in Nat /\ realms + 1 \notin acked
      /\ \A v \in Workspace : realm[v] <= realms
  <2>1. Placed(q) /\ q \in CallRec
    BY DEF TInv, CallOK, Placed
  <2>2. w \in Workspace /\ q.op = "create" /\ q.k = <<w>>
    BY <1>1, <2>1, CallKey DEF Placed, Wanting, Migrating
  <2> QED BY <2>1, <2>2 DEF TInv, Stored
<1>3. CASE End(r) /\ UNCHANGED <<realm, realms>>
  BY <1>1, <1>3, EndOK DEF store
<1>4. CASE /\ ~find_workspace(w) /\ create_realm(w)
           /\ call' = [call EXCEPT ![r].pc = "get", ![r].row = realms + 1]
  <2>1. /\ realm[w] = 0 /\ realm' \in [Workspace -> Nat] /\ realms' = realms + 1
        /\ realm'[w] = realms + 1 /\ \A v \in Workspace : v # w => realm'[v] = realm[v]
    BY <1>2, <1>4 DEF find_workspace, create_realm
  <2>2. /\ call' = [s \in Call |-> call'[s]]
        /\ \A s \in Call : s # r => call'[s] = call[s]
        /\ call'[r] \in CallRec /\ call'[r].h = q.h /\ call'[r].i = q.i
        /\ call'[r].pc = "get" /\ call'[r].op = q.op /\ call'[r].w = w
        /\ call'[r].a = q.a /\ call'[r].row = realms + 1 /\ call'[r].k = q.k
    <3>1. call' = [call EXCEPT ![r].pc = "get", ![r].row = realms + 1]
      BY <1>4
    <3>2. "get" \in Place /\ realms + 1 \in Nat /\ Called
      BY <1>2 DEF Place, Wanting, TInv
    <3> QED BY <1>2, <3>1, <3>2 DEF CallRec, Called
  <2>3. CallOK(call[r])'
    <3>1. Placed(call[r])'
      BY <1>2, <2>2 DEF Placed, Wanting, Migrating, Holding, Deleting
    <3>2. \A v \in Workspace : realm'[v] = realms + 1 => v = w
      BY <1>2, <2>1
    <3>3. Numbered(call[r])'
      BY <1>1, <1>2, <2>1, <2>2, <3>2 DEF Numbered
    <3>4. Seen(call[r])'
      BY <1>2, <2>1, <2>2 DEF Seen, Deleting
    <3>5. Handled(call[r])' /\ Counting(call[r])' /\ Evicted(call[r])'
      BY <2>2 DEF Handled, Counting, Evicted, Holding, Migrating, Deleting
    <3> QED BY <3>1, <3>3, <3>4, <3>5 DEF CallOK
  <2>4. ASSUME NEW s \in Call, Created(call[s]) PROVE call[s].row \in 1..realms
    BY <2>4 DEF TInv, CallOK, Numbered
  <2>5. ASSUME NEW s \in Call, s # r PROVE PairOK(call[r], call[s])' /\ PairOK(call[s], call[r])'
    <3>1. PairOK(call[r], call[s]) /\ PairOK(call[s], call[r])
      BY <2>5 DEF TInv
    <3>2. call'[s] = call[s] /\ call'[r].pc # "idle" /\ q.pc # "idle"
      BY <1>1, <2>2, <2>5
    <3>3. (call'[r].w = call'[s].w /\ call'[r].w \notin overlap' /\ call'[s].pc # "idle")
          => call'[r].op # "delete" /\ call'[s].op # "delete"
      BY <1>1, <2>2, <3>1, <3>2 DEF PairOK
    <3>4. Created(call[s])' => call'[s].row # call'[r].row
      BY <1>2, <2>2, <2>4, <3>2 DEF Created
    <3> QED BY <3>2, <3>3, <3>4 DEF PairOK
  <2>6. \A s, t \in Call : s # t => PairOK(call[s], call[t])'
    <3> TAKE s, t \in Call
    <3> HAVE s # t
    <3>1. CASE s = r \/ t = r
      BY <2>5, <3>1
    <3>2. CASE s # r /\ t # r
      <4>1. call'[s] = call[s] /\ call'[t] = call[t] /\ overlap' = overlap /\ PairOK(call[s], call[t])
        BY <1>1, <2>2, <3>2 DEF TInv
      <4> QED BY <4>1 DEF PairOK, Created
    <3> QED BY <3>1, <3>2
  <2>0. \A v \in Workspace : realm'[v] = 0 => realm[v] = 0
    BY <1>2, <2>1
  <2>7. ASSUME NEW s \in Call, s # r PROVE CallOK(call[s])'
    <3>1. call'[s] = call[s] /\ Len(body) \in Nat /\ Len(body') = Len(body)
          /\ realms \in Nat /\ realms' \in Nat /\ realms <= realms'
      BY <1>1, <1>2, <2>1, <2>2, <2>7 DEF TInv, Stored
    <3>2. ASSUME Created(call[s])
          PROVE  /\ call[s].row \notin acked'
                 /\ \A v \in Workspace : realm'[v] = call[s].row => realm[v] = call[s].row
      <4>1. call[s].row \in 1..realms /\ call[s].row \notin acked
        BY <3>2 DEF TInv, CallOK, Numbered
      <4> QED BY <1>1, <1>2, <2>1, <4>1
    <3>3. ASSUME call[s].w \notin overlap, call[s].pc \in Wanting \cup Holding \cup Deleting
          PROVE  \/ realm'[call[s].w] = realm[call[s].w]
                 \/ call[s].op \in Unasked /\ realm'[call[s].w] # 0
      <4>1. call[s].w \in Workspace
        BY CallKey
      <4>2. ASSUME call[s].w = w, call[s].op \notin Unasked PROVE FALSE
        <5>1. call[s].op # "delete" \/ call[s].pc = "idle"
          BY <1>1, <1>2, <3>3, <4>2, NoRmdir
        <5>2. call[s].pc \notin Deleting
          BY <5>1 DEF TInv, CallOK, Placed, Deleting
        <5>3. realm[w] = call[s].row /\ call[s].row # 0
          BY <3>3, <4>2, <5>2 DEF TInv, CallOK, Seen
        <5> QED BY <2>1, <5>3
      <4> QED BY <1>2, <2>1, <4>1, <4>2
    <3>4. UNCHANGED <<file, body, pools, overlap>>
      BY <1>1
    <3>5. Steady(call[s].k)' => Steady(call[s].k)
      <4>1. call[s].k \in Key /\ call[s].k[1] \in Workspace
        BY CallKey
      <4> QED BY <2>0, <3>1, <3>4, <4>1 DEF Steady
    <3> QED BY <3>1, <3>2, <3>3, <3>4, <3>5, OthersOK
  <2>8. Called' /\ Serving'
    <3>1. \A v \in Workspace : realm[v] # 0 => realm'[v] # 0
      BY <1>2, <2>1
    <3> QED BY <1>1, <2>2, <3>1 DEF Called, Serving
  <2>9. Stored'
    <3>1. \A v \in Workspace : realm'[v] <= realms'
      BY <1>2, <2>1
    <3>2. 1..realms \subseteq 1..realms'
      BY <1>2, <2>1
    <3> QED BY <1>1, <1>2, <2>1, <3>1, <3>2 DEF TInv, Stored
  <2>10. Pooled'
    <3> SUFFICES ASSUME NEW n \in {1, 2}, NEW e \in pools[n], Steady(e.k)'
                 PROVE  e.f = file[e.k]
      BY <1>1 DEF TInv, Pooled
    <3>1. e.k \in Key /\ e.k[1] \in Workspace
      BY KeyFacts DEF TInv, Pooled
    <3>2. Steady(e.k)
      BY <1>1, <2>0, <3>1 DEF Steady
    <3> QED BY <3>2 DEF TInv, Pooled
  <2>11. Swept'
    <3> SUFFICES ASSUME NEW v \in Workspace \ (overlap \cup cut), realm'[v] = 0,
                        \A s \in Call : ~(call'[s].w = v /\ call'[s].pc = "rmdir"),
                        NEW k \in Key, k[1] = v
                 PROVE  Blank(k)
      BY <1>1 DEF Swept, Blank
    <3>1. v # w /\ realm[v] = 0
      BY <1>2, <2>1
    <3>2. \A s \in Call : ~(call[s].w = v /\ call[s].pc = "rmdir")
      BY <1>1, <2>2
    <3> QED BY <3>1, <3>2 DEF TInv, Swept
  <2>12. ASSUME w \notin overlap \cup cut PROVE Blank(<<w>>)
    <3>1. ASSUME NEW s \in Call, call[s].w = w, call[s].pc = "rmdir" PROVE FALSE
      <4>1. call[s].op # "delete"
        BY <1>1, <1>2, <2>12, <3>1, NoRmdir
      <4> QED BY <3>1, <4>1 DEF TInv, CallOK, Placed, Deleting
    <3>2. <<w>> \in Key /\ <<w>>[1] = w
      BY <1>2, KeyFacts
    <3> QED BY <1>2, <2>1, <2>12, <3>1, <3>2 DEF TInv, Swept
  <2>13. Written'
    <3> SUFFICES ASSUME NEW v \in Workspace \ (overlap \cup cut), realm'[v] # 0, file[<<v>>] # NoFile
                 PROVE  body[file[<<v>>]].writers \subseteq {realm'[v]}
      BY <1>1 DEF Written
    <3>1. CASE v # w
      BY <2>1, <3>1 DEF TInv, Written
    <3>2. CASE v = w
      <4>1. body[file[<<v>>]] = Empty
        BY <2>12, <3>2 DEF Blank
      <4> QED BY <4>1 DEF Empty
    <3> QED BY <3>1, <3>2
  <2>14. AckedIsMigrated'
    <3> SUFFICES ASSUME NEW v \in Workspace, realm'[v] \in acked, v \notin overlap
                 PROVE  file[<<v>>] # NoFile /\ body[file[<<v>>]].rec = ScriptCount
      BY <1>1 DEF AckedIsMigrated
    <3>1. v # w
      BY <1>2, <2>1
    <3> QED BY <2>1, <3>1 DEF TInv, AckedIsMigrated
  <2> QED BY <2>3, <2>6, <2>7, <2>8, <2>9, <2>10, <2>11, <2>13, <2>14 DEF TInv
<1> QED BY <1>3, <1>4 DEF InsertRow

\* AnswerWorkspace.
LEMMA AnswerWorkspaceOK ==
  ASSUME TInv, NEW r \in Call, AnswerWorkspace(r)
  PROVE  TInv'
<1> DEFINE q == call[r]
<1>1. /\ up = "serving" /\ q.pc = "script" /\ q.i > ScriptCount /\ Kind(q.k) = 1 /\ End(r)
      /\ acked' = acked \cup {q.row} /\ UNCHANGED <<store, pools, up, queue, cut, overlap>>
      /\ UNCHANGED <<realm, realms, file, body>>
  BY DEF AnswerWorkspace, At, store
<1>2. /\ CallOK(q) /\ q \in CallRec /\ q.k = <<q.w>> /\ q.w \in Workspace /\ q.op = "create"
      /\ q.pc \in Holding /\ Created(q) /\ q.pc # "rmdir"
  <2>1. CallOK(q) /\ q \in CallRec /\ q.k = <<q.w>> /\ q.w \in Workspace
    BY <1>1, CallKey DEF TInv
  <2>2. q.pc \in Migrating /\ q.pc \in Holding /\ q.pc # "rmdir"
    BY <1>1 DEF Migrating, Holding
  <2>3. q.op = "create"
    BY <2>1, <2>2 DEF CallOK, Placed
  <2> QED BY <2>1, <2>2, <2>3 DEF Created
<1>3. q.row \in 1..realms /\ \A w \in Workspace : realm[w] = q.row => w = q.w
  BY <1>2 DEF CallOK, Numbered
<1>4. /\ CallOK(call[r])' /\ \A s, t \in Call : s # t => PairOK(call[s], call[t])'
      /\ call' = [s \in Call |-> call'[s]] /\ \A s \in Call : s # r => call'[s] = call[s]
      /\ call'[r].pc = "idle"
  BY <1>1, EndPairs, EndFields
<1>5. Called' /\ Stored' /\ Pooled' /\ Serving' /\ Written'
  BY <1>1, <1>3, <1>4 DEF TInv, Called, Stored, Pooled, Serving, Written, Steady
<1>6. Swept'
  <2> SUFFICES ASSUME NEW w \in Workspace \ (overlap \cup cut), realm[w] = 0,
                      \A s \in Call : ~(call'[s].w = w /\ call'[s].pc = "rmdir"),
                      NEW k \in Key, k[1] = w
               PROVE  Blank(k)
    BY <1>1 DEF Swept, Blank
  <2>1. \A s \in Call : ~(call[s].w = w /\ call[s].pc = "rmdir")
    BY <1>2, <1>4
  <2> QED BY <2>1 DEF TInv, Swept
<1>7. AckedIsMigrated'
  <2> SUFFICES ASSUME NEW w \in Workspace, realm[w] \in acked \cup {q.row}, w \notin overlap
               PROVE  file[<<w>>] # NoFile /\ body[file[<<w>>]].rec = ScriptCount
    BY <1>1 DEF AckedIsMigrated
  <2>1. CASE realm[w] \in acked
    BY <2>1 DEF TInv, AckedIsMigrated
  <2>2. CASE realm[w] = q.row
    <3>1. w = q.w
      BY <1>3, <2>2
    <3>2. file[<<w>>] = q.h
      <4>1. Steady(q.k)
        BY <1>1, <1>2, <3>1, CallKey DEF Steady
      <4> QED BY <1>2, <3>1, <4>1 DEF CallOK, Handled
    <3>3. q.i = body[q.h].rec + 1
      BY <1>1, <1>2, <3>1 DEF CallOK, Counting
    <3>4. q.h # NoFile /\ body[q.h] \in Contents
      BY <1>2, HeldFile
    <3>5. body[q.h].rec \in 0..ScriptCount /\ ScriptCount \in Nat
      BY <3>4, TenantConstants DEF Contents
    <3> QED BY <1>1, <3>2, <3>3, <3>4, <3>5
  <2> QED BY <2>1, <2>2
<1>8. ASSUME NEW s \in Call, s # r PROVE CallOK(call[s])'
  <2>1. call'[s] = call[s] /\ Len(body) \in Nat /\ realms \in Nat
    BY <1>4, <1>8 DEF TInv, Stored
  <2>2. Created(call[s]) => call[s].row \notin acked'
    <3>1. PairOK(call[s], call[r])
      BY <1>8 DEF TInv
    <3> QED BY <1>1, <1>2, <3>1 DEF TInv, CallOK, Numbered, PairOK
  <2>3. UNCHANGED <<realm, realms, file, body, pools, overlap>> /\ (Steady(call[s].k)' => Steady(call[s].k))
    BY <1>1, <2>1 DEF Steady
  <2> QED BY <2>1, <2>2, <2>3, OthersOK
<1> QED BY <1>4, <1>5, <1>6, <1>7, <1>8 DEF TInv

\* DeleteRow.
LEMMA DeleteRowOK ==
  ASSUME TInv, NEW r \in Call, DeleteRow(r)
  PROVE  TInv'
<1> DEFINE q == call[r]
           w == call[r].w
<1>1. /\ up = "serving" /\ q.pc = "delrow" /\ delete_realm(w)
      /\ UNCHANGED <<realms, file, body, pools, up, queue, acked, cut, overlap>>
  BY DEF DeleteRow, At, tHist
<1>2. /\ CallOK(q) /\ Placed(q) /\ q \in CallRec /\ w \in Workspace /\ q.op = "delete" /\ w # Master
      /\ q.k = <<w>>
  <2>1. CallOK(q) /\ Placed(q) /\ q \in CallRec /\ w \in Workspace
    BY CallKey DEF TInv, CallOK
  <2>2. q.op = "delete" /\ q.k = <<w>>
    BY <1>1, <2>1 DEF Placed, Deleting, Wanting, Migrating
  <2> QED BY <2>1, <2>2 DEF Placed
<1>3. /\ realm \in [Workspace -> Nat] /\ realm' \in [Workspace -> Nat] /\ realm'[w] = 0
      /\ \A v \in Workspace : v # w => realm'[v] = realm[v]
  BY <1>1, <1>2 DEF TInv, Stored, delete_realm
<1>4. CASE ~find_workspace(w)
  <2>1. realm' = realm
    BY <1>3, <1>4 DEF find_workspace
  <2>2. End(r) /\ UNCHANGED store
    BY <1>1, <1>4, <2>1 DEF DeleteRow, store
  <2> QED BY <1>1, <2>2, EndOK
<1>5. CASE find_workspace(w)
  <2>1. Go(r, "rmdir") /\ "rmdir" \in Place
    BY <1>5 DEF DeleteRow, Place, Deleting
  <2>2. /\ call' = [s \in Call |-> call'[s]] /\ \A s \in Call : s # r => call'[s] = call[s]
        /\ call'[r] \in CallRec
        /\ call'[r].pc = "rmdir" /\ call'[r].op = q.op /\ call'[r].w = w
        /\ call'[r].a = q.a /\ call'[r].row = q.row /\ call'[r].k = q.k
        /\ call'[r].h = q.h /\ call'[r].i = q.i
    BY <2>1, GoFields
  <2>3. CallOK(call[r])'
    <3>1. Placed(call[r])'
      BY <1>2, <2>2 DEF Placed, Wanting, Migrating, Holding, Deleting
    <3>2. Numbered(call[r])' /\ Handled(call[r])' /\ Counting(call[r])'
      BY <2>2 DEF Numbered, Handled, Counting, Created, Wanting, Migrating, Holding
    <3>3. Seen(call[r])'
      BY <1>3, <2>2 DEF Seen, Wanting, Holding, Migrating
    <3>4. Evicted(call[r])'
      BY <1>1, <1>2, <2>2 DEF CallOK, Evicted, Deleting
    <3> QED BY <3>1, <3>2, <3>3, <3>4 DEF CallOK
  <2>4. \A s, t \in Call : s # t => PairOK(call[s], call[t])'
    <3>1. ~Created(call[r])'
      BY <1>2, <2>2 DEF Created
    <3> QED BY <1>1, <2>2, <3>1, PairsOK
  <2>5. ASSUME NEW s \in Call, s # r PROVE CallOK(call[s])'
    <3>1. /\ call'[s] = call[s] /\ Len(body) \in Nat /\ realms \in Nat /\ call[s].w \in Workspace
      BY <2>2, <2>5, CallKey DEF TInv, Stored
    <3>2. ASSUME Created(call[s])
          PROVE  /\ call[s].row \notin acked
                 /\ \A v \in Workspace : realm'[v] = call[s].row => realm[v] = call[s].row
      <4>1. call[s].row \in 1..realms /\ call[s].row \notin acked
        BY <3>2 DEF TInv, CallOK, Numbered
      <4> QED BY <1>3, <3>1, <4>1
    <3>3. ASSUME call[s].w \notin overlap, call[s].pc \in Wanting \cup Holding \cup Deleting
          PROVE  realm'[call[s].w] = realm[call[s].w]
      <4>1. call[s].pc # "idle"
        BY <3>3 DEF Wanting, Holding, Migrating, Deleting
      <4>2. PairOK(call[s], call[r])
        BY <2>5 DEF TInv
      <4>3. call[s].w # w
        BY <1>1, <1>2, <3>3, <4>1, <4>2 DEF PairOK
      <4> QED BY <1>3, <3>1, <4>3
    <3>4. UNCHANGED <<realms, file, body, pools, acked, overlap>>
      BY <1>1
    <3>5. ASSUME call[s].pc \in Holding, Steady(call[s].k)' PROVE Steady(call[s].k)
      <4>1. call[s].k[1] = call[s].w /\ call[s].w \notin overlap
        BY <3>1, <3>4, <3>5, CallKey DEF Steady
      <4> QED BY <3>1, <3>3, <3>4, <3>5, <4>1 DEF Steady
    <3> QED BY <3>1, <3>2, <3>3, <3>4, <3>5, OthersOK
  <2>6. Called' /\ Pooled' /\ Serving'
    <3>1. ASSUME NEW n \in {1, 2}, NEW e \in pools[n], Steady(e.k)' PROVE Steady(e.k)
      <4>1. e.k \in Key /\ e.k[1] \in Workspace /\ Kind(e.k) = n
        BY KeyFacts DEF TInv, Pooled
      <4>2. w \notin overlap => \A d \in pools[2] : d.k[1] # w
        BY <1>1, <1>2 DEF CallOK, Evicted
      <4> QED BY <1>1, <1>3, <3>1, <4>1, <4>2 DEF Steady
    <3>2. Pooled'
      BY <1>1, <3>1 DEF TInv, Pooled
    <3> QED BY <1>1, <2>2, <3>2 DEF TInv, Called, Serving
  <2>7. Stored'
    <3>1. realms \in Nat /\ \A v \in Workspace : realm[v] <= realms
      BY DEF TInv, Stored
    <3>2. \A v \in Workspace : realm'[v] <= realms
      BY <1>3, <3>1
    <3> QED BY <1>1, <1>3, <3>2 DEF TInv, Stored
  <2>8. Swept'
    <3> SUFFICES ASSUME NEW v \in Workspace \ (overlap \cup cut), realm'[v] = 0,
                        \A s \in Call : ~(call'[s].w = v /\ call'[s].pc = "rmdir"),
                        NEW k \in Key, k[1] = v
                 PROVE  Blank(k)
      BY <1>1 DEF Swept, Blank
    <3>1. v # w /\ realm[v] = 0
      BY <1>3, <2>2
    <3>2. \A s \in Call : ~(call[s].w = v /\ call[s].pc = "rmdir")
      BY <1>1, <2>2
    <3> QED BY <3>1, <3>2 DEF TInv, Swept
  <2>9. Written'
    <3> SUFFICES ASSUME NEW v \in Workspace \ (overlap \cup cut), realm'[v] # 0, file[<<v>>] # NoFile
                 PROVE  body[file[<<v>>]].writers \subseteq {realm'[v]}
      BY <1>1 DEF Written
    <3>1. v # w
      BY <1>3
    <3> QED BY <1>3, <3>1 DEF TInv, Written
  <2>10. AckedIsMigrated'
    <3> SUFFICES ASSUME NEW v \in Workspace, realm'[v] \in acked, v \notin overlap
                 PROVE  file[<<v>>] # NoFile /\ body[file[<<v>>]].rec = ScriptCount
      BY <1>1 DEF AckedIsMigrated
    <3>1. realm'[v] # 0
      BY DEF TInv, Stored
    <3>2. v # w
      BY <1>3, <3>1
    <3> QED BY <1>3, <3>2 DEF TInv, AckedIsMigrated
  <2> QED BY <2>2, <2>3, <2>4, <2>5, <2>6, <2>7, <2>8, <2>9, <2>10 DEF TInv
<1> QED BY <1>4, <1>5

\* A handler that ends by removing files: none of a workspace that has a row, and none that is in
\* use at a steady path.
LEMMA RemoveOK ==
  ASSUME TInv, NEW r \in Call, up = "serving", End(r),
         UNCHANGED <<realm, realms, body, pools, up, queue, acked, cut, overlap>>,
         NEW out \in SUBSET Key, file' \in [Key -> Nat],
         \A k \in Key : file'[k] = IF k \in out THEN NoFile ELSE file[k],
         \A w \in Workspace \ overlap : <<w>> \in out => realm[w] = 0,
         \A k \in out : Steady(k) =>
           /\ \A n \in {1, 2} : \A e \in pools[n] : e.k # k
           /\ \A s \in Call : s # r /\ call[s].k = k => call[s].pc \notin Holding,
         call[r].pc = "rmdir" /\ call[r].w \notin overlap =>
           \A k \in Key : k[1] = call[r].w => k \in out
  PROVE  TInv'
<1>1. /\ CallOK(call[r])' /\ \A s, t \in Call : s # t => PairOK(call[s], call[t])'
      /\ call' = [s \in Call |-> call'[s]] /\ \A s \in Call : s # r => call'[s] = call[s]
      /\ call'[r].pc = "idle"
  BY EndPairs, EndFields
<1>2. /\ file \in [Key -> Nat] /\ file' \in [Key -> Nat] /\ body \in Seq(Contents) /\ Len(body) \in Nat
      /\ \A k \in Key : file'[k] = NoFile \/ file'[k] = file[k]
      /\ \A k \in Key : k \notin out => file'[k] = file[k]
      /\ \A k \in Key : k \in out => file'[k] = NoFile
  BY DEF TInv, Stored, NoFile
<1>3. \A w \in Workspace : <<w>> \in Key /\ Kind(<<w>>) = 1 /\ <<w>>[1] = w
  BY KeyFacts
<1>4. Called' /\ Serving'
  BY <1>1 DEF TInv, Called, Serving
<1>5. Stored'
  <2>1. /\ \A k \in Key : file[k] <= Len(body)
        /\ \A k, l \in Key : file[k] = file[l] /\ file[k] # NoFile => k = l
    BY DEF TInv, Stored
  <2>2. /\ \A k \in Key : file'[k] <= Len(body)
        /\ \A k, l \in Key : file'[k] = file'[l] /\ file'[k] # NoFile => k = l
    BY <1>2, <2>1 DEF NoFile
  <2> QED BY <1>2, <2>2 DEF TInv, Stored
<1>6. Pooled'
  <2> SUFFICES ASSUME NEW n \in {1, 2}, NEW e \in pools[n]
               PROVE  /\ e.k \in Key /\ Kind(e.k) = n /\ e.f \in 1..Len(body)
                      /\ \A k \in Key : file'[k] = e.f => k = e.k
                      /\ Steady(e.k) => e.f = file'[e.k]
    BY DEF TInv, Pooled, Steady
  <2>1. /\ e.k \in Key /\ Kind(e.k) = n /\ e.f \in 1..Len(body)
        /\ \A k \in Key : file[k] = e.f => k = e.k
        /\ Steady(e.k) => e.f = file[e.k]
    BY DEF TInv, Pooled
  <2>2. e.f # NoFile
    BY <1>2, <2>1 DEF NoFile
  <2>3. \A k \in Key : file'[k] = e.f => k = e.k
    BY <1>2, <2>1, <2>2
  <2>4. ASSUME Steady(e.k) PROVE e.f = file'[e.k]
    <3>1. e.k \notin out
      BY <2>4
    <3> QED BY <1>2, <2>1, <2>4, <3>1
  <2> QED BY <2>1, <2>3, <2>4
<1>7. Swept'
  <2> SUFFICES ASSUME NEW w \in Workspace \ (overlap \cup cut), realm[w] = 0,
                      \A s \in Call : ~(call'[s].w = w /\ call'[s].pc = "rmdir"),
                      NEW k \in Key, k[1] = w
               PROVE  file'[k] # NoFile => body[file'[k]] = Empty
    BY DEF Swept, Blank
  <2>1. CASE call[r].pc = "rmdir" /\ call[r].w = w
    BY <1>2, <2>1
  <2>2. CASE ~(call[r].pc = "rmdir" /\ call[r].w = w)
    <3>1. \A s \in Call : ~(call[s].w = w /\ call[s].pc = "rmdir")
      BY <1>1, <2>2
    <3>2. Blank(k)
      BY <3>1 DEF TInv, Swept
    <3> QED BY <1>2, <3>2 DEF Blank
  <2> QED BY <2>1, <2>2
<1>8. Written'
  <2> SUFFICES ASSUME NEW w \in Workspace \ (overlap \cup cut), realm[w] # 0, file'[<<w>>] # NoFile
               PROVE  body[file'[<<w>>]].writers \subseteq {realm[w]}
    BY DEF Written
  <2>1. file'[<<w>>] = file[<<w>>]
    BY <1>2, <1>3
  <2> QED BY <2>1 DEF TInv, Written
<1>9. AckedIsMigrated'
  <2> SUFFICES ASSUME NEW w \in Workspace, realm[w] \in acked, w \notin overlap
               PROVE  file'[<<w>>] # NoFile /\ body[file'[<<w>>]].rec = ScriptCount
    BY DEF AckedIsMigrated
  <2>1. realm[w] # 0
    BY DEF TInv, Stored
  <2>2. file'[<<w>>] = file[<<w>>]
    BY <1>2, <1>3, <2>1
  <2> QED BY <2>2 DEF TInv, AckedIsMigrated
<1>10. ASSUME NEW s \in Call, s # r PROVE CallOK(call[s])'
  <2>1. call'[s] = call[s] /\ realms \in Nat /\ call[s].w \in Workspace
    BY <1>1, <1>10, CallKey DEF TInv, Stored
  <2>2. Created(call[s]) => call[s].row \notin acked
    BY DEF TInv, CallOK, Numbered
  <2>3. ASSUME call[s].pc \in Holding
        PROVE  /\ \A k \in Key : file'[k] = call[s].h => file[k] = call[s].h
               /\ Steady(call[s].k) => file'[call[s].k] = file[call[s].k]
    <3>1. call[s].h # NoFile /\ call[s].k \in Key
      BY <2>3, HeldFile, CallKey
    <3>2. Steady(call[s].k) => call[s].k \notin out
      BY <1>10, <2>3
    <3> QED BY <1>2, <3>1, <3>2
  <2>4. /\ Len(body) \in Nat /\ UNCHANGED <<realm, realms, body, acked, overlap>>
        /\ \A n \in {1, 2} : \A e \in pools'[n] :
             e.k[1] = call[s].w => \E d \in pools[n] : d.k = e.k
    BY <1>2
  <2>5. /\ overlap \subseteq overlap' /\ Len(body') \in Nat /\ Len(body) <= Len(body')
        /\ realms' \in Nat /\ realms <= realms'
    BY <2>1, <2>4
  <2>6. /\ Created(call[s]) => /\ call[s].row \notin acked'
                              /\ \A w \in Workspace :
                                   realm'[w] = call[s].row => realm[w] = call[s].row
        /\ realm'[call[s].w] = realm[call[s].w]
        /\ body'[call[s].h].rec = body[call[s].h].rec
        /\ Steady(call[s].k)' => Steady(call[s].k)
    BY <2>1, <2>2, <2>4 DEF Steady
  <2> QED BY <2>1, <2>3, <2>4, <2>5, <2>6, OthersOK
<1> QED BY <1>1, <1>4, <1>5, <1>6, <1>7, <1>8, <1>9, <1>10 DEF TInv

\* DeleteFolder: the folder is removed, or it stays and the workspace counts as cut.
LEMMA DeleteFolderOK ==
  ASSUME TInv, NEW r \in Call, DeleteFolder(r)
  PROVE  TInv'
<1> DEFINE q == call[r]
           w == call[r].w
<1>1. /\ up = "serving" /\ q.pc = "rmdir" /\ End(r)
      /\ UNCHANGED <<realm, realms, body, pools, up, queue, acked, overlap>>
  BY DEF DeleteFolder, At
<1>2. CallOK(q) /\ w \in Workspace /\ q.op = "delete"
  BY <1>1, CallKey DEF TInv, CallOK, Placed, Deleting
<1>3. CASE file' = [k \in Key |-> IF k[1] = w THEN NoFile ELSE file[k]] /\ UNCHANGED cut
  <2> DEFINE out == {k \in Key : k[1] = w}
  <2>1. /\ out \in SUBSET Key /\ file' \in [Key -> Nat]
        /\ \A k \in Key : file'[k] = IF k \in out THEN NoFile ELSE file[k]
    BY <1>3 DEF TInv, Stored, NoFile
  <2>2. ASSUME w \notin overlap
        PROVE  /\ realm[w] = 0 /\ \A e \in pools[1] : e.k # <<w>>
               /\ \A e \in pools[2] : e.k[1] # w
    BY <1>1, <1>2, <2>2 DEF CallOK, Seen, Evicted, Deleting
  <2>3. \A v \in Workspace \ overlap : <<v>> \in out => realm[v] = 0
    BY <2>2, KeyFacts
  <2>5. ASSUME NEW k \in out, Steady(k)
        PROVE  /\ \A n \in {1, 2} : \A e \in pools[n] : e.k # k
               /\ \A s \in Call : s # r /\ call[s].k = k => call[s].pc \notin Holding
    <3>1. k \in Key /\ k[1] = w /\ w \notin overlap /\ (Kind(k) = 1 <=> k = <<w>>)
      BY <2>5, KeyFacts DEF Steady
    <3>2. ASSUME NEW s \in Call, s # r, call[s].w = w PROVE call[s].pc \notin Holding
      <4>1. PairOK(call[s], call[r])
        BY <3>2 DEF TInv
      <4>2. call[s].pc = "idle"
        BY <1>1, <1>2, <3>1, <3>2, <4>1 DEF PairOK
      <4> QED BY <4>2 DEF Holding, Migrating
    <3>3. \A s \in Call : call[s].k = k => call[s].w = w
      BY <3>1, CallKey
    <3>4. \A n \in {1, 2} : \A e \in pools[n] : e.k # k
      <4>1. \A n \in {1, 2} : \A e \in pools[n] : Kind(e.k) = n
        BY DEF TInv, Pooled
      <4> QED BY <2>2, <3>1, <4>1
    <3> QED BY <3>2, <3>3, <3>4
  <2>4. \A k \in Key : k[1] = w => k \in out
    OBVIOUS
  <2> HIDE DEF out
  <2> QED BY <1>1, <1>3, <2>1, <2>3, <2>4, <2>5, RemoveOK
<1>4. CASE cut' = cut \cup {w} /\ UNCHANGED file
  <2>1. /\ CallOK(call[r])' /\ \A s, t \in Call : s # t => PairOK(call[s], call[t])'
        /\ call' = [s \in Call |-> call'[s]] /\ \A s \in Call : s # r => call'[s] = call[s]
    BY <1>1, EndPairs
  <2>2. Called' /\ Stored' /\ Pooled' /\ Serving' /\ AckedIsMigrated'
    BY <1>1, <1>4, <2>1 DEF TInv, Called, Stored, Pooled, Serving, AckedIsMigrated, Steady
  <2>3. Swept' /\ Written'
    <3>1. ASSUME NEW v \in Workspace \ (overlap \cup cut'),
                 \A s \in Call : ~(call'[s].w = v /\ call'[s].pc = "rmdir")
          PROVE  \A s \in Call : ~(call[s].w = v /\ call[s].pc = "rmdir")
      BY <1>4, <2>1, <3>1
    <3>2. Swept'
      BY <1>1, <1>4, <3>1 DEF TInv, Swept, Blank
    <3>3. Written'
      BY <1>1, <1>4 DEF TInv, Written
    <3> QED BY <3>2, <3>3
  <2>4. ASSUME NEW s \in Call, s # r PROVE CallOK(call[s])'
    <3>1. call'[s] = call[s] /\ Len(body) \in Nat /\ realms \in Nat
      BY <2>1, <2>4 DEF TInv, Stored
    <3>2. Created(call[s]) => call[s].row \notin acked
      BY DEF TInv, CallOK, Numbered
    <3>3. Steady(call[s].k)' => Steady(call[s].k)
      BY <1>1, <3>1 DEF Steady
    <3> QED BY <1>1, <1>4, <3>1, <3>2, <3>3, OthersOK
  <2> QED BY <2>1, <2>2, <2>3, <2>4 DEF TInv
<1> QED BY <1>3, <1>4 DEF DeleteFolder

\* DeleteAppFolder.
LEMMA DeleteAppFolderOK ==
  ASSUME TInv, NEW r \in Call, DeleteAppFolder(r)
  PROVE  TInv'
<1> DEFINE l == <<call[r].w, call[r].a>>
<1>1. /\ up = "serving" /\ call[r].pc = "rmapp" /\ call[r].pc # "rmdir" /\ End(r)
      /\ UNCHANGED <<realm, realms, body, pools, up, queue, acked, cut, overlap>>
      /\ file' = file \/ file' = [file EXCEPT ![l] = NoFile]
  BY DEF DeleteAppFolder, At, tHist
<1>2. CASE file' = file
  BY <1>1, <1>2, EndOK DEF store
<1>3. CASE file' = [file EXCEPT ![l] = NoFile]
  <2>1. l \in Key /\ (\A w \in Workspace : <<w>> # l) /\ ~Steady(l)
    <3>1. l \in Key /\ Kind(l) = 2 /\ l[1] = call[r].w
      BY CallKey, KeyFacts
    <3>2. call[r].op \notin Unasked /\ call[r].pc \in Holding /\ Seen(call[r])
      BY <1>1, AskedFirst DEF Holding, TInv, CallOK
    <3>3. call[r].w \notin overlap => realm[call[r].w] # 0
      BY <3>2 DEF Seen
    <3> QED BY <3>1, <3>3, KeyFacts DEF Steady
  <2> DEFINE out == {l}
  <2>2. file' \in [Key -> Nat] /\ \A k \in Key : file'[k] = IF k \in out THEN NoFile ELSE file[k]
    BY <1>3, <2>1 DEF TInv, Stored, NoFile
  <2>3. out \in SUBSET Key /\ (\A w \in Workspace : <<w>> \notin out) /\ \A k \in out : ~Steady(k)
    BY <2>1
  <2> HIDE DEF out
  <2> QED BY <1>1, <2>2, <2>3, RemoveOK
<1> QED BY <1>1, <1>2, <1>3

\* A step of the process itself: no handler is running, no store changes, and a cache gains at
\* most the present file of a workspace with a row.
LEMMA ProcessOK ==
  ASSUME TInv, UNCHANGED <<store, call, acked, overlap, cut>>, \A r \in Call : call[r].pc = "idle",
         pools' = [n \in {1, 2} |-> pools'[n]],
         \A n \in {1, 2} : \A e \in pools'[n] :
           OldEntry(e, n) \/ \E w \in Workspace : /\ realm[w] # 0 /\ n = 1 /\ e.k = <<w>>
                                                  /\ e.f = file[<<w>>] /\ e.f # NoFile,
         up' = "loading" => queue' \subseteq {w \in Workspace : realm[w] # 0}
  PROVE  TInv'
<1>1. UNCHANGED <<realm, realms, file, body>>
  BY DEF store
<1>2. Called' /\ Stored' /\ Serving' /\ Written' /\ AckedIsMigrated'
  BY <1>1 DEF TInv, Called, Stored, Serving, Written, AckedIsMigrated
<1>3. \A w \in Workspace : <<w>> \in Key /\ Kind(<<w>>) = 1 /\ <<w>>[1] = w
  BY KeyFacts
<1>4. Pooled'
  <2> SUFFICES ASSUME NEW n \in {1, 2}, NEW e \in pools'[n]
               PROVE  /\ e.k \in Key /\ Kind(e.k) = n /\ e.f \in 1..Len(body)
                      /\ \A k \in Key : file[k] = e.f => k = e.k
                      /\ Steady(e.k) => e.f = file[e.k]
    BY <1>1 DEF Pooled, Steady
  <2>1. CASE OldEntry(e, n)
    BY <2>1 DEF OldEntry, TInv, Pooled
  <2>2. CASE ~OldEntry(e, n)
    <3>1. PICK w \in Workspace : n = 1 /\ e.k = <<w>> /\ e.f = file[<<w>>] /\ e.f # NoFile
      BY <2>2
    <3>2. /\ file[<<w>>] \in Nat /\ file[<<w>>] <= Len(body) /\ Len(body) \in Nat
          /\ \A k \in Key : file[k] = file[<<w>>] /\ file[k] # NoFile => k = <<w>>
      BY <1>3 DEF TInv, Stored
    <3> QED BY <1>3, <3>1, <3>2 DEF NoFile
  <2> QED BY <2>1, <2>2
<1>5. Swept'
  <2> SUFFICES ASSUME NEW w \in Workspace \ (overlap \cup cut), realm[w] = 0,
                      \A s \in Call : ~(call[s].w = w /\ call[s].pc = "rmdir"),
                      NEW k \in Key, k[1] = w
               PROVE  Blank(k)
    BY <1>1 DEF Swept, Blank
  <2> QED BY DEF TInv, Swept
<1>6. ASSUME NEW s \in Call PROVE CallOK(call[s])'
  <2>1. CallOK(call[s]) /\ call[s].pc = "idle"
    BY DEF TInv
  <2> QED BY <1>1, <2>1 DEF CallOK, Placed, Numbered, Seen, Handled, Counting, Evicted, Created,
             Wanting, Migrating, Holding, Deleting
<1>7. \A s, t \in Call : s # t => PairOK(call[s], call[t])'
  BY DEF TInv, PairOK, Created
<1> QED BY <1>2, <1>4, <1>5, <1>6, <1>7 DEF TInv

\* Restart and Serve.
LEMMA RestartOK ==
  ASSUME TInv, Restart \/ Serve
  PROVE  TInv'
<1>1. /\ UNCHANGED <<store, call, acked, overlap, cut>> /\ UNCHANGED pools /\ up # "serving"
      /\ up' = "loading" => queue' = list_realms
  BY DEF Restart, Serve, tHist
<1>2. pools' = [n \in {1, 2} |-> pools'[n]] /\ \A n \in {1, 2} : \A e \in pools'[n] : OldEntry(e, n)
  BY <1>1 DEF TInv, Pooled, OldEntry
<1>3. \A r \in Call : call[r].pc = "idle"
  BY <1>1 DEF TInv, Serving
<1> QED BY <1>1, <1>2, <1>3, ProcessOK DEF list_realms

\* LoadHooks.
LEMMA LoadHooksOK ==
  ASSUME TInv, LoadHooks
  PROVE  TInv'
<1>1. /\ up = "loading" /\ UNCHANGED <<store, call, acked, overlap, cut>> /\ up' = up
  BY DEF LoadHooks, tHist
<1>2. PICK w \in queue :
        /\ queue' \subseteq queue
        /\ UNCHANGED pools \/ (file[<<w>>] # NoFile /\ Put(<<w>>, file[<<w>>]))
  BY DEF LoadHooks, Oldest
<1>3. queue \subseteq {v \in Workspace : realm[v] # 0} /\ \A r \in Call : call[r].pc = "idle"
  BY <1>1 DEF TInv, Serving
<1>4. pools = [n \in {1, 2} |-> pools[n]]
  BY DEF TInv, Pooled
<1>5. CASE UNCHANGED pools
  <2>1. pools' = [n \in {1, 2} |-> pools'[n]] /\ \A n \in {1, 2} : \A e \in pools'[n] : OldEntry(e, n)
    BY <1>4, <1>5 DEF OldEntry
  <2> QED BY <1>1, <1>2, <1>3, <2>1, ProcessOK
<1>6. CASE file[<<w>>] # NoFile /\ Put(<<w>>, file[<<w>>])
  <2> DEFINE c == {e \in Newest(pools[1], <<w>>, file[<<w>>]) : e.age < Cap}
  <2>1. w \in Workspace /\ realm[w] # 0 /\ Kind(<<w>>) = 1
    BY <1>2, <1>3, KeyFacts
  <2>2. pools' = [pools EXCEPT ![1] = c]
    BY <1>6, <2>1 DEF Put
  <2>3. \A e \in c : OldEntry(e, 1) \/ (e.k = <<w>> /\ e.f = file[<<w>>])
    BY NewestFacts DEF OldEntry
  <2> HIDE DEF c
  <2>4. pools' = [n \in {1, 2} |-> pools'[n]] /\ pools'[1] = c /\ pools'[2] = pools[2]
    <3>1. DOMAIN pools = {1, 2}
      BY <1>4
    <3>2. pools' = [n \in DOMAIN pools |-> IF n = 1 THEN c ELSE pools[n]]
      BY <2>2
    <3>3. pools' = [n \in {1, 2} |-> IF n = 1 THEN c ELSE pools[n]]
      BY <3>1, <3>2
    <3> QED BY <3>3
  <2>5. ASSUME NEW n \in {1, 2}, NEW e \in pools'[n], ~OldEntry(e, n)
        PROVE  n = 1 /\ e.k = <<w>> /\ e.f = file[<<w>>]
    BY <2>3, <2>4, <2>5 DEF OldEntry
  <2>6. \A n \in {1, 2} : \A e \in pools'[n] :
          OldEntry(e, n) \/ \E v \in Workspace : /\ realm[v] # 0 /\ n = 1 /\ e.k = <<v>>
                                                 /\ e.f = file[<<v>>] /\ e.f # NoFile
    BY <1>6, <2>1, <2>5
  <2> QED BY <1>1, <1>2, <1>3, <2>4, <2>6, ProcessOK
<1> QED BY <1>2, <1>5, <1>6

\* No handler is left.
LEMMA AllIdle ==
  ASSUME call' = [r \in Call |-> NoCall]
  PROVE  /\ Called' /\ \A r \in Call : CallOK(call[r])' /\ call'[r].pc = "idle"
         /\ \A r, s \in Call : r # s => PairOK(call[r], call[s])'
<1>1. \A r \in Call : call'[r] = NoCall /\ call'[r].pc = "idle"
  BY DEF NoCall
<1>2. \A r \in Call : CallOK(call[r])'
  BY <1>1, IdleOK
<1>3. \A r, s \in Call : r # s => PairOK(call[r], call[s])'
  BY <1>1 DEF PairOK, Created, Wanting, Migrating
<1> QED BY <1>1, <1>2, <1>3 DEF Called

\* Die.
LEMMA DieOK ==
  ASSUME TInv, Die
  PROVE  TInv'
<1>1. /\ UNCHANGED <<realm, realms, file, body, acked, overlap>> /\ up' = "down"
      /\ pools' = NoPools /\ call' = [r \in Call |-> NoCall]
      /\ cut' = cut \cup {call[r].w : r \in {r \in Call : call[r].pc = "rmdir"}}
  BY DEF Die, store
<1>2. \A n \in {1, 2} : pools'[n] = {}
  BY <1>1 DEF NoPools
<1>3. Pooled'
  BY <1>1, <1>2 DEF Pooled, NoPools
<1>4. Stored' /\ Written' /\ AckedIsMigrated'
  BY <1>1 DEF TInv, Stored, Written, AckedIsMigrated
<1>5. Swept'
  <2> SUFFICES ASSUME NEW w \in Workspace \ (overlap \cup cut'), realm[w] = 0, NEW k \in Key, k[1] = w
               PROVE  Blank(k)
    BY <1>1 DEF Swept, Blank
  <2>1. w \notin cut /\ \A s \in Call : ~(call[s].w = w /\ call[s].pc = "rmdir")
    BY <1>1
  <2> QED BY <2>1 DEF TInv, Swept
<1>6. /\ Called' /\ \A r \in Call : CallOK(call[r])' /\ call'[r].pc = "idle"
      /\ \A r, s \in Call : r # s => PairOK(call[r], call[s])'
  BY <1>1, AllIdle
<1>7. Serving'
  BY <1>1, <1>6 DEF Serving
<1> QED BY <1>3, <1>4, <1>5, <1>6, <1>7 DEF TInv

\* Only the workspace `master` is there at first.
LEMMA InitTInv ==
  ASSUME TInit
  PROVE  TInv
<1>1. /\ realm = [w \in Workspace |-> IF w = Master THEN 1 ELSE 0] /\ realms = 1
      /\ file = [k \in Key |-> NoFile] /\ body = <<>> /\ pools = NoPools /\ up = "serving"
      /\ call = [r \in Call |-> NoCall] /\ acked = {} /\ overlap = {} /\ cut = {}
  BY DEF TInit
<1>2. \A r \in Call : call[r] = NoCall /\ call[r].pc = "idle"
  BY <1>1 DEF NoCall
<1>3. Called /\ Serving
  BY <1>1, <1>2 DEF Called, Serving
<1>4. Stored
  <2>1. Len(body) = 0 /\ body \in Seq(Contents)
    BY <1>1
  <2>2. file \in [Key -> Nat] /\ \A k \in Key : file[k] = 0
    BY <1>1 DEF NoFile
  <2>3. realm \in [Workspace -> Nat] /\ \A w \in Workspace : realm[w] <= realms
    BY <1>1
  <2> QED BY <1>1, <2>1, <2>2, <2>3 DEF Stored, NoFile
<1>5. \A n \in {1, 2} : pools[n] = {}
  BY <1>1 DEF NoPools
<1>6. Pooled
  BY <1>1, <1>5 DEF Pooled, NoPools
<1>7. Swept
  BY <1>1 DEF Swept, Blank
<1>8. Written /\ AckedIsMigrated
  BY <1>1, KeyFacts DEF Written, AckedIsMigrated
<1>9. NoCall \in CallRec
  <2>1. (CHOOSE a \in App : TRUE) \in App
    BY TenantConstants
  <2>2. <<Master>> \in Key /\ Master \in Workspace
    BY KeyFacts, TenantConstants
  <2> QED BY <2>1, <2>2 DEF NoCall, CallRec, Place, NoFile
<1>10. NoCall.pc = "idle" /\ NoCall.op = "none" /\ NoCall.k = <<NoCall.w>>
  BY DEF NoCall
<1>11. \A r \in Call : CallOK(call[r])
  BY <1>2, <1>9, <1>10 DEF CallOK, Placed, Numbered, Seen, Handled, Counting, Evicted, Created,
     Wanting, Migrating, Holding, Deleting, Unasked
<1>12. \A r, s \in Call : r # s => PairOK(call[r], call[s])
  BY <1>2 DEF PairOK, Created, Wanting, Migrating
<1> QED BY <1>3, <1>4, <1>6, <1>7, <1>8, <1>11, <1>12 DEF TInv

\* Every step keeps the invariant, one case per action.
LEMMA StepTInv ==
  ASSUME TInv, [TNext]_tVars
  PROVE  TInv'
<1>1. CASE UNCHANGED tVars
  <2>1. UNCHANGED <<realm, realms, file, body, pools, up, queue, call, acked, overlap, cut>>
    BY <1>1 DEF tVars, store, tHist
  <2>2. Called' /\ Stored' /\ Pooled' /\ Serving'
    BY <2>1 DEF TInv, Called, Stored, Pooled, Serving, Steady
  <2>3. Swept' /\ Written' /\ AckedIsMigrated'
    BY <2>1 DEF TInv, Swept, Blank, Written, AckedIsMigrated
  <2>4. \A r \in Call : CallOK(call[r])'
    BY <2>1 DEF TInv, CallOK, Placed, Numbered, Seen, Handled, Counting, Evicted, Created, Steady
  <2>5. \A r, s \in Call : r # s => PairOK(call[r], call[s])'
    BY <2>1 DEF TInv, PairOK, Created
  <2> QED BY <2>2, <2>4, <2>5, <2>3 DEF TInv
<1>2. CASE \E r \in Call, w \in Workspace, a \in App : \E op \in Op(w) : Arrive(r, op, w, a)
  BY <1>2, ArriveOK
<1>3. ASSUME NEW r \in Call, Step(r) PROVE TInv'
  <2>1. CASE Exists(r)              BY <2>1, ExistsOK
  <2>2. CASE InsertRow(r)           BY <2>2, InsertRowOK
  <2>3. CASE PoolGet(r)             BY <2>3, PoolGetOK
  <2>4. CASE PoolOpen(r)            BY <2>4, PoolOpenOK
  <2>5. CASE PoolPut(r)             BY <2>5, PoolPutOK
  <2>6. CASE MigrateRead(r)         BY <2>6, MigrateReadOK
  <2>7. CASE MigrateScript(r)       BY <2>7, MigrateScriptOK
  <2>8. CASE MigrateRecord(r)       BY <2>8, MigrateRecordOK
  <2>9. CASE AnswerWorkspace(r)     BY <2>9, AnswerWorkspaceOK
  <2>10. CASE AnswerApp(r)          BY <2>10, AnswerAppOK
  <2>11. CASE DeleteEvict(r) \/ DeleteEvictApps(r) BY <2>11, DeleteEvictOK
  <2>12. CASE DeleteRow(r)          BY <2>12, DeleteRowOK
  <2>13. CASE DeleteFolder(r)       BY <2>13, DeleteFolderOK
  <2>14. CASE FindApp(r)            BY <2>14, FindAppOK
  <2>15. CASE InsertApp(r)          BY <2>15, InsertAppOK
  <2>16. CASE DeleteAppEvict(r)     BY <2>16, DeleteAppEvictOK
  <2>17. CASE DeleteAppRow(r)       BY <2>17, DeleteAppRowOK
  <2>18. CASE DeleteAppFolder(r)    BY <2>18, DeleteAppFolderOK
  <2>19. CASE insert_realm_admin(r) BY <2>19, InsertAdminOK
  <2>20. CASE UsePool(r)            BY <2>20, UsePoolOK
  <2>21. CASE Dropped(r)            BY <2>21, EndOK DEF Dropped, tHist
  <2> QED BY <1>3, <2>1, <2>2, <2>3, <2>4, <2>5, <2>6, <2>7, <2>8, <2>9, <2>10, <2>11, <2>12,
             <2>13, <2>14, <2>15, <2>16, <2>17, <2>18, <2>19, <2>20, <2>21 DEF Step
<1>4. CASE Die
  BY <1>4, DieOK
<1>5. CASE Restart \/ Serve
  BY <1>5, RestartOK
<1>6. CASE LoadHooks
  BY <1>6, LoadHooksOK
<1> QED BY <1>1, <1>2, <1>3, <1>4, <1>5, <1>6 DEF TNext

\* With every delete through, TInv says what FreshTenant says.
LEMMA TInvFresh ==
  ASSUME TInv
  PROVE  FreshTenant
<1> SUFFICES ASSUME NEW w \in Workspace \ (overlap \cup cut)
             PROVE  /\ realm[w] = 0 /\ InFlight(w) = {} =>
                         \A k \in Key : k[1] = w => /\ file[k] # NoFile => body[file[k]] = Empty
                                                   /\ \A e \in Cached(k) : e.f = file[k]
                    /\ realm[w] # 0 =>
                         /\ file[<<w>>] # NoFile => body[file[<<w>>]].writers \subseteq {realm[w]}
                         /\ \A e \in Cached(<<w>>) : e.f = file[<<w>>]
  BY DEF FreshTenant
<1>1. ASSUME NEW k \in Key, Steady(k) PROVE \A e \in Cached(k) : e.f = file[k]
  <2>1. Kind(k) \in {1, 2}
    BY KeyFacts
  <2> QED BY <1>1, <2>1 DEF TInv, Pooled, Cached
<1>2. ASSUME realm[w] = 0, InFlight(w) = {}, NEW k \in Key, k[1] = w
      PROVE  (file[k] # NoFile => body[file[k]] = Empty) /\ \A e \in Cached(k) : e.f = file[k]
  <2>1. \A s \in Call : ~(call[s].w = w /\ call[s].pc = "rmdir")
    BY <1>2 DEF InFlight
  <2>2. Blank(k) /\ Steady(k)
    BY <1>2, <2>1 DEF TInv, Swept, Steady
  <2> QED BY <1>1, <2>2 DEF Blank
<1>3. \A e \in Cached(<<w>>) : e.f = file[<<w>>]
  <2>1. <<w>> \in Key /\ Steady(<<w>>)
    BY KeyFacts DEF Steady
  <2> QED BY <1>1, <2>1
<1> QED BY <1>2, <1>3 DEF TInv, Written

\* TInv is an invariant: what the handlers, the stores and the caches say of each other survives
\* every handler step, a crash, the restart and the sweep that loads the hooks.
THEOREM TenantsKept == TSpec => []TInv
<1>1. TInit => TInv
  BY InitTInv
<1>2. TInv /\ [TNext]_tVars => TInv'
  BY StepTInv
<1> QED BY <1>1, <1>2, PTL DEF TSpec

\* A workspace whose creation was answered 201 (AnswerWorkspace) keeps a fully migrated database
\* as long as its row is there: over crashes, evictions and every interleaving of handlers,
\* unless a delete of that workspace overlapped another request on it.
THEOREM AnsweredIsMigrated == TSpec => []AckedIsMigrated
<1>1. TInv => AckedIsMigrated
  BY DEF TInv
<1> QED BY <1>1, TenantsKept, PTL

\* What a deleted workspace's databases held is out of a successor's reach, also when late logins,
\* policy writes and engines re-create the files, for every number of workspaces, apps and
\* concurrent requests and every cache capacity.  Excepted are the two holes FreshTenant names.
THEOREM TenantsAreFresh == TSpec => []FreshTenant
<1>1. TInv => FreshTenant
  BY TInvFresh
<1> QED BY <1>1, TenantsKept, PTL

-----------------------------------------------------------------------------
(* Boot, setup and the gateway. *)

USE BootConstants, GatewayConstants

\* The statements of main() after apply_migrations, after the master workspace and after the
\* seed row.
Migrated == {"realm", "seed", "check", "key1", "key2", "kek", "mail", "storage", "listen", "serving"}
Seeded == Migrated \ {"realm", "seed"}

HandlerAt == {"idle", "guard", "find", "write", "mark", "conflict", "error", "created"}

\* The part of the types the arguments need.
Shape ==
  /\ committed \subseteq 1..Scripts /\ recorded \subseteq committed
  /\ admin \in Req \cup {"norow", "null"}
  /\ pc \in Stage /\ nextScript \in Nat \ {0}
  /\ req \in [Req -> [pc : HandlerAt, late : BOOLEAN]]
  /\ setupDone \in BOOLEAN

\* The loop of apply_migrations: what it read is recorded, everything before its position is
\* recorded, and a script waiting for its row has committed.
LoopCovers ==
  /\ pc \in {"script", "record"} => /\ already \subseteq recorded
                                    /\ \A s \in 1..Scripts : s < nextScript => s \in recorded
  /\ pc = "record" => nextScript \in committed

\* What the statements behind main()'s position have established.
StagesHold ==
  /\ pc \in Migrated => 1..Scripts \subseteq recorded
  /\ pc \in Migrated \ {"realm"} => master
  /\ pc \in Seeded => admin # "norow"

\* A handler past its UPDATE, like a setup that was answered and like an open gate, leaves a
\* password behind; handlers that arrived after one are still before the guard or refused.
PasswordStays ==
  /\ initialized => admin \in Req
  /\ setupDone => admin \in Req
  /\ \A r \in Req : req[r].pc \in {"mark", "created"} => admin \in Req
  /\ \A r \in Req : req[r].late => setupDone /\ req[r].pc \in {"guard", "conflict"}

IInv == Shape /\ LoopCovers /\ StagesHold /\ PasswordStays

-----------------------------------------------------------------------------
\* The first boot starts from an empty directory.
LEMMA InitIInv == Init => IInv
<1> SUFFICES ASSUME Init PROVE IInv
  OBVIOUS
<1>1. Idle \in [pc : HandlerAt, late : BOOLEAN] /\ Idle.pc = "idle" /\ Idle.late = FALSE
  BY DEF Idle, HandlerAt
<1>2. Shape
  <2>1. req \in [Req -> [pc : HandlerAt, late : BOOLEAN]]
    BY <1>1, Zenon DEF Init
  <2>2. setupDone \in BOOLEAN
    BY Zenon DEF Init
  <2> QED BY <2>1, <2>2 DEF Init, Shape, Stage
<1>3. PasswordStays
  BY <1>1 DEF Init, PasswordStays
<1>4. LoopCovers /\ StagesHold
  BY DEF Init, LoopCovers, StagesHold, Migrated, Seeded
<1> QED BY <1>2, <1>3, <1>4 DEF IInv

\* Ending the process, by a failing `?` or a crash, keeps the rows and drops the handlers.
LEMMA ExitIInv == IInv /\ Exit /\ UNCHANGED <<db, setupDone>> => IInv'
BY DEF IInv, Shape, LoopCovers, StagesHold, PasswordStays, Migrated, Seeded, Stage, HandlerAt,
       Exit, Idle, db

\* The statements of main() from the config to the last migration.
LEMMA MigrationIInv ==
  ASSUME IInv, Start \/ ReadApplied \/ ApplyScript \/ RecordScript \/ SkipScript
  PROVE  IInv'
<1> USE DEF IInv, db, hist
<1>1. CASE Start
  BY <1>1 DEF Start, Shape, LoopCovers, StagesHold, PasswordStays, Migrated, Seeded, Stage
<1>2. CASE ReadApplied
  BY <1>2 DEF ReadApplied, Shape, LoopCovers, StagesHold, PasswordStays, Migrated, Seeded, Stage
<1>3. CASE ApplyScript
  <2>1. CASE SYSTEM_MIGRATIONS(nextScript)
    <3>1. /\ pc = "script" /\ pc' = "record" /\ nextScript \in 1..Scripts
          /\ committed' = committed \cup {nextScript}
          /\ UNCHANGED <<recorded, admin, already, nextScript, initialized, req, setupDone>>
      BY <1>3, <2>1 DEF ApplyScript
    <3>2. Shape'
      BY <3>1 DEF Shape, Stage
    <3>3. LoopCovers' /\ StagesHold' /\ PasswordStays'
      BY <3>1 DEF LoopCovers, StagesHold, PasswordStays, Migrated, Seeded
    <3> QED BY <3>2, <3>3
  <2>2. CASE ~SYSTEM_MIGRATIONS(nextScript)
    BY <1>3, <2>2, ExitIInv DEF ApplyScript, Fail
  <2> QED BY <2>1, <2>2
<1>4. CASE RecordScript
  BY <1>4 DEF RecordScript, Shape, LoopCovers, StagesHold, PasswordStays, Migrated, Seeded, Stage
<1>5. CASE SkipScript
  BY <1>5 DEF SkipScript, Shape, LoopCovers, StagesHold, PasswordStays, Migrated, Seeded, Stage
<1> QED BY <1>1, <1>2, <1>3, <1>4, <1>5

\* The statements of main() after the migrations.
LEMMA StartupIInv ==
  ASSUME IInv,
         \/ ensure_master_realm \/ ensure_seed_master_admin \/ CheckInitialized
         \/ LoadSigningKey \/ LoadRsaKey \/ ResolveKek \/ ChooseMailer \/ ChooseStorage \/ Listen
  PROVE  IInv'
<1> USE DEF IInv, db, hist
<1>1. CASE ensure_master_realm
  BY <1>1 DEF ensure_master_realm, Shape, LoopCovers, StagesHold, PasswordStays, Migrated, Seeded, Stage
<1>2. CASE ensure_seed_master_admin
  BY <1>2 DEF ensure_seed_master_admin, Shape, LoopCovers, StagesHold, PasswordStays, Migrated, Seeded, Stage
<1>3. CASE CheckInitialized \/ LoadSigningKey \/ LoadRsaKey
  <2>1. /\ pc \in Seeded /\ pc' \in Seeded
        /\ UNCHANGED <<committed, recorded, master, admin, already, nextScript, req, setupDone>>
    BY <1>3 DEF CheckInitialized, LoadSigningKey, LoadRsaKey, Seeded, Migrated
  <2>2. initialized' => initialized \/ admin \in Req
    <3>1. CASE CheckInitialized
      BY <3>1, Zenon DEF CheckInitialized, master_admin_is_initialized
    <3>2. CASE LoadSigningKey \/ LoadRsaKey
      BY <3>2, Zenon DEF LoadSigningKey, LoadRsaKey
    <3> QED BY <1>3, <3>1, <3>2
  <2> QED BY <2>1, <2>2 DEF Shape, LoopCovers, StagesHold, PasswordStays, Migrated, Seeded, Stage
<1>4. CASE ResolveKek \/ ChooseMailer \/ ChooseStorage \/ Listen
  <2>1. CASE Fail
    BY <2>1, ExitIInv DEF Fail
  <2>2. CASE ~Fail
    <3>1. /\ pc \in Seeded /\ pc' \in Seeded
          /\ UNCHANGED <<committed, recorded, master, admin, already, nextScript, initialized, req, setupDone>>
      BY <1>4, <2>2 DEF ResolveKek, ChooseMailer, ChooseStorage, Listen, Seeded, Migrated
    <3> QED BY <3>1 DEF Shape, LoopCovers, StagesHold, PasswordStays, Migrated, Seeded, Stage
  <2> QED BY <2>1, <2>2
<1> QED BY <1>1, <1>2, <1>3, <1>4

\* A setup handler's statement: of the database only the seed row's password can change.
LEMMA SetupIInv ==
  ASSUME IInv, NEW r \in Req, Setup(r)
  PROVE  IInv'
<1> USE DEF IInv, db, proc, hist
<1>1. /\ UNCHANGED <<committed, recorded, master, pc, already, nextScript>>
      /\ admin' \in {admin, r}
  BY DEF Setup, SetupStart, SetupGuard, SetupFind, SetupWrite, SetupMark, SetupEnd
<1>2. /\ req' \in [Req -> [pc : HandlerAt, late : BOOLEAN]]
      /\ \A q \in Req : q # r => req'[q] = req[q]
  <2>1. CASE SetupStart(r)
    BY <2>1 DEF SetupStart, Shape, HandlerAt
  <2>2. CASE SetupEnd(r)
    BY <2>2 DEF SetupEnd, Idle, Shape, HandlerAt
  <2>3. CASE SetupGuard(r) \/ SetupFind(r) \/ SetupWrite(r) \/ SetupMark(r)
    <3>1. PICK to \in HandlerAt : Move(r, to)
      BY <2>3 DEF SetupGuard, SetupFind, SetupWrite, SetupMark, HandlerAt
    <3> QED BY <3>1 DEF Move, Shape
  <2> QED BY <2>1, <2>2, <2>3 DEF Setup
<1>3. setupDone' \in BOOLEAN /\ (setupDone => setupDone')
  BY DEF Setup, SetupStart, SetupGuard, SetupFind, SetupWrite, SetupMark, SetupEnd, Shape
<1>4. Shape' /\ LoopCovers' /\ StagesHold'
  BY <1>1, <1>2, <1>3 DEF Shape, LoopCovers, StagesHold
<1>5. /\ initialized' => admin' \in Req
      /\ setupDone' => admin' \in Req
      /\ req'[r].pc \in {"mark", "created"} => admin' \in Req
      /\ req'[r].late => setupDone' /\ req'[r].pc \in {"guard", "conflict"}
  <2>1. CASE SetupStart(r)
    BY <2>1 DEF SetupStart, PasswordStays, Shape
  <2>2. CASE SetupGuard(r) \/ SetupFind(r)
    BY <2>2 DEF SetupGuard, SetupFind, Move, PasswordStays, Shape, master_admin_is_initialized
  <2>3. CASE SetupWrite(r) \/ SetupMark(r) \/ SetupEnd(r)
    BY <2>3 DEF SetupWrite, SetupMark, SetupEnd, mark_initialized, Move, Idle, PasswordStays, Shape
  <2> QED BY <2>1, <2>2, <2>3 DEF Setup
<1>6. PasswordStays'
  BY <1>1, <1>2, <1>3, <1>5 DEF PasswordStays
<1> QED BY <1>4, <1>6

\* Every step of the server preserves the invariant.
LEMMA NextIInv == IInv /\ [Next]_vars => IInv'
<1> SUFFICES ASSUME IInv, [Next]_vars PROVE IInv'
  OBVIOUS
<1>1. CASE Main
  BY <1>1, MigrationIInv, StartupIInv DEF Main
<1>2. CASE Crash
  BY <1>2, ExitIInv DEF Crash
<1>3. CASE \E r \in Req : Setup(r)
  BY <1>3, SetupIInv
<1>4. CASE UNCHANGED vars
  BY <1>4 DEF vars, db, proc, hist, IInv, Shape, LoopCovers, StagesHold, PasswordStays
<1> QED BY <1>1, <1>2, <1>3, <1>4 DEF Next

\* The invariant holds of every behaviour of the server.
LEMMA Invariant == Init /\ [][Next]_vars => []IInv
BY InitIInv, NextIInv, PTL

-----------------------------------------------------------------------------
\* A serving process has the whole schema, the master workspace and a seed admin, and no
\* crash leaves a _migrations row without its script (apply_one, main).
THEOREM SchemaIsComplete == Spec => []ServesOnFullSchema
<1>1. IInv => ServesOnFullSchema
  BY DEF IInv, Shape, StagesHold, ServesOnFullSchema, Migrated, Seeded
<1> QED BY <1>1, Invariant, PTL DEF Spec

\* A setup request that arrives after another was answered 201 is refused, over any number
\* of crashes and restarts (setup.rs).
THEOREM SecondSetupIsRefused == Spec => []SubsequentSetupsRefused
<1>1. IInv => SubsequentSetupsRefused
  BY DEF IInv, PasswordStays, SubsequentSetupsRefused
<1> QED BY <1>1, Invariant, PTL DEF Spec

\* No step takes the password away or closes the gate.
LEMMA SetupStays == Init /\ [][Next]_vars => SetupIsForever
<1> DEFINE Kept == /\ admin \in Req => admin' \in Req
                   /\ pc = "serving" /\ initialized /\ pc' = "serving" => initialized'
<1>1. ASSUME IInv, [Next]_vars PROVE [Kept]_vars
  <2>1. CASE Main
    <3>1. admin \in Req => admin' \in Req
      BY <1>1, <2>1 DEF Main, Start, ReadApplied, ApplyScript, RecordScript, SkipScript,
         ensure_master_realm, ensure_seed_master_admin, CheckInitialized, LoadSigningKey,
         LoadRsaKey, ResolveKek, ChooseMailer, ChooseStorage, Listen, Fail, db
    <3>2. pc # "serving"
      BY <2>1 DEF Main, Start, ReadApplied, ApplyScript, RecordScript, SkipScript,
         ensure_master_realm, ensure_seed_master_admin, CheckInitialized, LoadSigningKey,
         LoadRsaKey, ResolveKek, ChooseMailer, ChooseStorage, Listen
    <3> QED BY <3>1, <3>2
  <2>2. CASE Crash
    BY <2>2 DEF Crash, Exit, db
  <2>3. CASE \E r \in Req : Setup(r)
    BY <2>3 DEF Setup, SetupStart, SetupGuard, SetupFind, SetupWrite, SetupMark, SetupEnd,
       mark_initialized, db, proc
  <2>4. CASE UNCHANGED vars
    BY <2>4
  <2> QED BY <1>1, <2>1, <2>2, <2>3, <2>4 DEF Next
<1> QED BY <1>1, Invariant, PTL DEF SetupIsForever

\* A stored password stays and an open gate stays open while the process runs.
THEOREM PasswordIsForever == Spec => SetupIsForever
BY SetupStays, PTL DEF Spec

-----------------------------------------------------------------------------
(* The gateway on top of the server. *)

\* Every step of the gateway is one of the server or leaves it alone.
LEMMA StepRefines == [GNext]_gvars => [Next]_vars
<1> SUFFICES ASSUME [GNext]_gvars PROVE [Next]_vars
  OBVIOUS
<1>1. CASE Booting \/ Crashing \/ \E r \in Req : SettingUp(r)
  BY <1>1 DEF Booting, Crashing, SettingUp, Next
<1>2. CASE Tick \/ \E m \in mint : Mint(m)
  BY <1>2 DEF Tick, Mint
<1>3. CASE master_admin_login
  BY <1>3 DEF master_admin_login, Begin
<1>4. ASSUME NEW w \in Ws,
             \/ workspace_admin_login(w) \/ user_login(w)
             \/ \E s \in sess : workspace_admin_refresh(s, w) \/ user_refresh(s, w)
      PROVE  UNCHANGED vars
  BY <1>4 DEF workspace_admin_login, user_login, LogIn, Refuse, workspace_admin_refresh, user_refresh,
              Refresh, Begin
<1>5. ASSUME NEW w \in Ws,
             \/ user_register(w) \/ workspaces_create(w) \/ workspaces_delete(w)
             \/ workspace_admins_create(w) \/ apps_create(w) \/ apps_delete(w) \/ lru_evict(w)
      PROVE  UNCHANGED vars
  BY <1>5 DEF user_register, workspaces_create, workspaces_delete, workspace_admins_create, apps_create,
              apps_delete, Add, Change, lru_evict
<1>6. CASE \E x \in removal : delete_realm_row(x) \/ remove_dir_all(x) \/ RemovalEnds(x)
  BY <1>6 DEF delete_realm_row, remove_dir_all, RemovalEnds
<1>7. CASE UNCHANGED gvars
  BY <1>7 DEF gvars
<1> QED BY <1>1, <1>2, <1>3, <1>4, <1>5, <1>6, <1>7 DEF GNext

\* The gateway implements the safety part of Boot's specification, so what holds of every
\* boot holds under any traffic.
THEOREM GatewayImplementsBoot == GSpec => Init /\ [][Next]_vars
BY StepRefines, PTL DEF GSpec, GInit

\* So a serving gateway has the whole schema, refuses a second setup and keeps the password,
\* whatever tenants and tokens do meanwhile.
THEOREM BootsUnderTraffic == GSpec => []ServesOnFullSchema /\ []SubsequentSetupsRefused /\ SetupIsForever
<1>1. IInv => ServesOnFullSchema /\ SubsequentSetupsRefused
  BY DEF IInv, Shape, StagesHold, PasswordStays, ServesOnFullSchema, SubsequentSetupsRefused, Migrated, Seeded
<1> QED BY <1>1, GatewayImplementsBoot, Invariant, SetupStays, PTL

\* Workspace w works on database d: it is at its path, or a cached pool has it open.
Works(d, w) == d # 0 /\ (at[w] = d \/ cached[w] = d)

GShape ==
  /\ now \in Nat /\ gone \in [Ws -> Nat] /\ dbs \in Nat
  /\ at \in [Ws -> Nat] /\ cached \in [Ws -> Nat]
  /\ \A w \in Ws : at[w] <= dbs /\ cached[w] <= dbs

\* No two workspaces work on one database.
Owned == \A v, w \in Ws : \A d \in Nat : Works(d, v) /\ Works(d, w) => v = w

\* Unless a request raced a DELETE, a cached pool is on the present database, and there is none
\* once a DELETE has dropped it.
Coherent ==
  /\ \A x \in removal : x.w \in Ws
  /\ \A w \in Ws : w \notin raced =>
       /\ cached[w] = 0 \/ cached[w] = at[w]
       /\ (\E x \in removal : x.w = w) => cached[w] = 0

\* A session, or who came from one: only the workspace it was opened in may work on its database.
Fits(x) ==
  /\ x.home \in Ws /\ x.role \in {"WorkspaceAdmin", "User"} /\ x.db \in 1..dbs
  /\ \A w \in Ws : Works(x.db, w) => w = x.home

\* A login or refresh in flight, or the token it issued.  A workspace's admins and users have
\* claims that name the workspace their session was opened in, and when that database has gone
\* they had begun before.
Bearer(m) ==
  \/ m.role = "MasterAdmin" /\ m.home = Nowhere
  \/ /\ Fits(m) /\ m.ws = m.home
     /\ m.began \in Nat /\ m.began <= now
     /\ m.home \notin raced /\ m.db # at[m.home] => m.began <= gone[m.home]

GInv ==
  /\ GShape /\ Owned /\ Coherent
  /\ (\A s \in sess : Fits(s)) /\ (\A m \in mint : Bearer(m)) /\ (\A t \in token : Bearer(t))

\* Nobody holds anything before the first boot.
LEMMA InitGInv == GInit => GInv
<1> SUFFICES ASSUME GInit PROVE GInv
  OBVIOUS
<1>1. /\ at = [w \in Ws |-> 0] /\ cached = [w \in Ws |-> 0] /\ gone = [w \in Ws |-> 0]
      /\ dbs = 0 /\ now = 0 /\ removal = {} /\ sess = {} /\ mint = {} /\ token = {}
  BY DEF GInit, Nothing
<1> QED BY <1>1 DEF GInv, GShape, Owned, Works, Coherent

\* A step that leaves databases, pools and removals alone.
LEMMA SameGInv ==
  ASSUME GInv, UNCHANGED <<at, cached, dbs, raced, gone, now>>, removal' \subseteq removal
  PROVE  /\ GShape' /\ Owned' /\ Coherent'
         /\ \A x : (Fits(x) => Fits(x)') /\ (Bearer(x) => Bearer(x)')
<1>1. \A d, w : Works(d, w)' <=> Works(d, w)
  BY DEF Works
<1>2. GShape' /\ Owned' /\ Coherent'
  BY <1>1 DEF GInv, GShape, Owned, Coherent
<1>3. \A x : Fits(x) => Fits(x)'
  BY <1>1 DEF Fits
<1>4. \A x : Bearer(x) => Bearer(x)'
  BY <1>3 DEF Bearer
<1> QED BY <1>2, <1>3, <1>4

\* pool_for: the workspace's own database, and the present one unless a DELETE is in flight.
LEMMA PoolForGInv ==
  ASSUME GInv, NEW w \in Ws, pool_for(w), UNCHANGED <<removal, gone, now>>
  PROVE  /\ GShape' /\ Owned' /\ Coherent'
         /\ \A x : (Fits(x) => Fits(x)') /\ (Bearer(x) => Bearer(x)')
         /\ Db(w) \in 1..dbs' /\ \A v \in Ws : Works(Db(w), v)' => v = w
         /\ w \notin raced' => at'[w] = Db(w)
<1> DEFINE d == Db(w)
<1>1. /\ GShape /\ Owned /\ Coherent
  BY DEF GInv
<1>2. \/ d # 0 /\ d \in Nat /\ d <= dbs /\ d = cached[w]
      \/ d # 0 /\ d \in Nat /\ d <= dbs /\ cached[w] = 0 /\ d = at[w]
      \/ d = dbs + 1 /\ cached[w] = 0 /\ at[w] = 0
  BY <1>1 DEF Db, GShape
<1>3. /\ cached' = [cached EXCEPT ![w] = d]
      /\ d > dbs => dbs' = d /\ at' = [at EXCEPT ![w] = d]
      /\ ~(d > dbs) => dbs' = dbs /\ at' = at
      /\ raced \subseteq raced' /\ raced' \subseteq raced \cup {w}
      /\ (\E x \in removal : x.w = w) => w \in raced'
  BY DEF pool_for
<1> HIDE DEF d
<1>4. /\ cached' \in [Ws -> Nat] /\ cached'[w] = d /\ \A v \in Ws : v # w => cached'[v] = cached[v]
      /\ at' \in [Ws -> Nat] /\ \A v \in Ws : v # w => at'[v] = at[v]
      /\ at'[w] = at[w] \/ (at[w] = 0 /\ at'[w] = d /\ d = dbs + 1)
      /\ dbs' \in Nat /\ dbs <= dbs' /\ d \in 1..dbs' /\ (d <= dbs \/ d = dbs + 1)
  BY <1>1, <1>2, <1>3 DEF GShape
<1>5. GShape'
  BY <1>1, <1>4 DEF GShape
<1>6. ASSUME NEW e \in Nat, NEW v \in Ws, Works(e, v)'
      PROVE  Works(e, v) \/ (v = w /\ e = d /\ d = dbs + 1)
  BY <1>2, <1>4, <1>6 DEF Works
<1>7. \A e \in Nat, v \in Ws : Works(e, v) => e <= dbs
  BY <1>1 DEF Works, GShape
<1>8. Owned'
  <2> SUFFICES ASSUME NEW u \in Ws, NEW v \in Ws, NEW e \in Nat, Works(e, u)', Works(e, v)'
               PROVE  u = v
    BY DEF Owned
  <2>1. e = dbs + 1 => ~Works(e, u) /\ ~Works(e, v)
    BY <1>1, <1>7 DEF GShape
  <2>2. Works(e, u) \/ (u = w /\ e = d /\ d = dbs + 1)
    BY <1>6
  <2>3. Works(e, v) \/ (v = w /\ e = d /\ d = dbs + 1)
    BY <1>6
  <2> QED BY <1>1, <2>1, <2>2, <2>3 DEF Owned
<1>9. w \notin raced' => at'[w] = d /\ ~\E x \in removal : x.w = w
  <2> SUFFICES ASSUME w \notin raced' PROVE at'[w] = d
    BY <1>3
  <2>1. w \notin raced /\ (cached[w] = 0 \/ cached[w] = at[w])
    BY <1>1, <1>3 DEF Coherent
  <2>2. at[w] # 0 => at'[w] = at[w] /\ d = at[w]
    BY <1>2, <1>4, <2>1
  <2>3. at[w] = 0 => d = dbs + 1
    BY <1>2, <2>1
  <2> QED BY <1>1, <1>3, <2>2, <2>3 DEF GShape
<1>10. Coherent'
  <2>1. ASSUME NEW v \in Ws, v \notin raced'
        PROVE  /\ cached'[v] = 0 \/ cached'[v] = at'[v]
               /\ (\E x \in removal : x.w = v) => cached'[v] = 0
    <3>1. CASE v = w
      BY <1>4, <1>9, <2>1, <3>1
    <3>2. CASE v # w
      BY <1>1, <1>3, <1>4, <2>1, <3>2 DEF Coherent
    <3> QED BY <3>1, <3>2
  <2> QED BY <1>1, <2>1 DEF Coherent
<1>11. ASSUME NEW x, Fits(x) PROVE Fits(x)'
  <2>1. x.db \in 1..dbs /\ x.db \in Nat /\ x.db # dbs + 1
    BY <1>1, <1>11 DEF Fits, GShape
  <2>2. x.db \in 1..dbs'
    BY <1>1, <1>4, <2>1 DEF GShape
  <2>3. \A v \in Ws : Works(x.db, v)' => Works(x.db, v)
    BY <1>6, <2>1
  <2> QED BY <1>11, <2>2, <2>3 DEF Fits
<1>12. ASSUME NEW x, Bearer(x) PROVE Bearer(x)'
  <2>1. CASE x.role = "MasterAdmin" /\ x.home = Nowhere
    BY <2>1 DEF Bearer
  <2>2. CASE /\ Fits(x) /\ x.ws = x.home /\ x.began \in Nat /\ x.began <= now
             /\ x.home \notin raced /\ x.db # at[x.home] => x.began <= gone[x.home]
    <3>1. x.home \in Ws /\ x.db # 0
      BY <1>1, <2>2 DEF Fits, GShape
    <3>2. x.db # at'[x.home] => x.db # at[x.home]
      BY <1>4, <3>1
    <3> QED BY <1>3, <1>11, <2>2, <3>2 DEF Bearer
  <2> QED BY <1>12, <2>1, <2>2 DEF Bearer
<1>13. ASSUME NEW v \in Ws, Works(d, v)' PROVE v = w
  <2>1. d' = d
    <3>1. cached'[w] = d /\ d # 0
      BY <1>4
    <3> QED BY <3>1 DEF d, Db
  <2>2. \A u \in Ws : Works(d, u)' <=> d # 0 /\ (at'[u] = d \/ cached'[u] = d)
    BY <2>1 DEF Works
  <2> QED BY <1>4, <1>8, <1>13, <2>2 DEF Owned, Works
<1> QED BY <1>4, <1>5, <1>8, <1>9, <1>10, <1>11, <1>12, <1>13 DEF d

\* A handler that begins carries what it looked up.
LEMMA LoginGInv ==
  ASSUME GInv, NEW w \in Ws,
         \/ workspace_admin_login(w) \/ user_login(w)
         \/ \E s \in sess : workspace_admin_refresh(s, w) \/ user_refresh(s, w)
  PROVE  GInv'
<1> USE DEF GInv
<1> DEFINE Roles == {"WorkspaceAdmin", "User"}
<1>0. \/ \E role \in Roles : LogIn(role, w)
      \/ \E s \in sess, role \in Roles : Refresh(s, role, w)
  BY DEF workspace_admin_login, user_login, workspace_admin_refresh, user_refresh
<1>1. pool_for(w) /\ UNCHANGED <<has, sess, removal, gone, token, now>>
  <2>1. ASSUME NEW role \in Roles, LogIn(role, w)
        PROVE  pool_for(w) /\ UNCHANGED <<has, sess, removal, gone, token, now>>
    BY <2>1 DEF LogIn, Refuse, Begin
  <2>2. ASSUME NEW s \in sess, NEW role \in Roles, Refresh(s, role, w)
        PROVE  pool_for(w) /\ UNCHANGED <<has, sess, removal, gone, token, now>>
    BY <2>2 DEF Refresh, Begin
  <2> QED BY <1>0, <2>1, <2>2
<1>2. /\ GShape' /\ Owned' /\ Coherent'
      /\ \A x : (Fits(x) => Fits(x)') /\ (Bearer(x) => Bearer(x)')
      /\ Db(w) \in 1..dbs' /\ \A v \in Ws : Works(Db(w), v)' => v = w
      /\ w \notin raced' => at'[w] = Db(w)
  BY <1>1, PoolForGInv
<1>3. ASSUME NEW m \in mint' \ mint PROVE Bearer(m)'
  <2> DEFINE Same(op, role) == [op |-> op, role |-> role, ws |-> w, home |-> w, db |-> Db(w), began |-> now]
  <2>1. ASSUME NEW role \in Roles, LogIn(role, w) PROVE m = Same("login", role)
    BY <1>3, <2>1 DEF LogIn, Refuse, Begin
  <2>2. ASSUME NEW s \in sess, NEW role \in Roles, Refresh(s, role, w) PROVE m = Same("refresh", role)
    <3>1. s.db = Db(w) /\ Fits(s)' /\ cached'[w] = Db(w)
      BY <1>1, <1>2, <2>2 DEF Refresh, find_active_refresh_token, pool_for, GShape
    <3>2. Works(s.db, w)'
      BY <1>2, <3>1 DEF Works
    <3>3. s.home = w
      BY <3>1, <3>2 DEF Fits
    <3> QED BY <1>3, <2>2, <3>1, <3>3 DEF Refresh, Begin
  <2>3. PICK op, role : role \in Roles /\ m = Same(op, role)
    BY <1>0, <2>1, <2>2
  <2>4. Fits(m)'
    <3>1. m.home = w /\ m.role \in Roles /\ m.db = Db(w)
      BY <2>3
    <3>2. Db(w)' = Db(w)
      <4>1. cached'[w] = Db(w) /\ Db(w) # 0
        BY <1>1, <1>2 DEF pool_for, GShape
      <4> QED BY <4>1 DEF Db
    <3>3. \A v \in Ws : Works(m.db, v)' => v = w
      BY <1>2, <3>1, <3>2 DEF Works
    <3> QED BY <1>2, <3>1, <3>3 DEF Fits
  <2>5. m.began \in Nat /\ m.began <= now' /\ m.ws = m.home /\ (m.home \notin raced' => m.db = at'[m.home])
    BY <1>1, <1>2, <2>3 DEF GShape
  <2> QED BY <2>4, <2>5 DEF Bearer
<1>4. \A m \in mint' : Bearer(m)'
  BY <1>2, <1>3
<1> QED BY <1>1, <1>2, <1>4

\* A master admin's login.
LEMMA MasterGInv ==
  ASSUME GInv, master_admin_login
  PROVE  GInv'
<1>1. /\ UNCHANGED <<at, cached, dbs, raced, gone, now, removal, sess, token>>
      /\ \A m \in mint' : m \in mint \/ (m.role = "MasterAdmin" /\ m.home = Nowhere)
  BY DEF master_admin_login, Begin, files
<1>2. /\ GShape' /\ Owned' /\ Coherent'
      /\ \A x : (Fits(x) => Fits(x)') /\ (Bearer(x) => Bearer(x)')
  BY <1>1, SameGInv
<1>3. \A m \in mint' : Bearer(m)'
  BY <1>1, <1>2 DEF Bearer, GInv
<1> QED BY <1>1, <1>2, <1>3 DEF GInv

\* A handler signs its token and stores its session, in the database it opened.
LEMMA MintGInv ==
  ASSUME GInv, NEW m \in mint, Mint(m)
  PROVE  GInv'
<1> USE DEF GInv
<1>1. /\ mint' \subseteq mint /\ UNCHANGED <<removal, gone, now>> /\ Bearer(m)
      /\ \/ issue(m) /\ insert_refresh_token(m) /\ record_audit(m)
         \/ UNCHANGED <<token, sess, files>>
  BY DEF Mint
<1>2. /\ GShape' /\ Owned' /\ Coherent'
      /\ \A x : (Fits(x) => Fits(x)') /\ (Bearer(x) => Bearer(x)')
  <2>1. UNCHANGED files \/ (m.home # Nowhere /\ pool_for(m.home))
    BY <1>1 DEF record_audit
  <2>2. CASE UNCHANGED files
    <3>1. UNCHANGED <<at, cached, dbs, raced, gone, now>> /\ removal' \subseteq removal
      BY <1>1, <2>2 DEF files
    <3> QED BY <3>1, SameGInv
  <2>3. CASE m.home # Nowhere /\ pool_for(m.home)
    <3>1. m.home \in Ws
      BY <1>1, <2>3 DEF Bearer, Fits
    <3> QED BY <1>1, <2>3, <3>1, PoolForGInv
  <2> QED BY <2>1, <2>2, <2>3
<1>3. CASE UNCHANGED <<token, sess, files>>
  BY <1>1, <1>2, <1>3
<1>4. CASE issue(m) /\ insert_refresh_token(m)
  <2>1. ASSUME NEW s \in sess' PROVE Fits(s)'
    <3>1. CASE s \in sess
      BY <1>2, <3>1
    <3>2. CASE s \notin sess
      <4>1. m.home # Nowhere /\ s = [role |-> m.role, home |-> m.home, db |-> m.db]
        BY <1>4, <2>1, <3>2 DEF insert_refresh_token
      <4>2. Fits(m)
        BY <1>1, <4>1 DEF Bearer
      <4>3. s.role = m.role /\ s.home = m.home /\ s.db = m.db
        BY <4>1
      <4>4. Fits(s)
        BY <4>2, <4>3 DEF Fits
      <4> QED BY <1>2, <4>4
    <3> QED BY <3>1, <3>2
  <2>2. ASSUME NEW t \in token' PROVE Bearer(t)'
    <3>1. CASE t \in token
      BY <1>2, <3>1
    <3>2. CASE t \notin token
      <4>1. t = [role |-> m.role, ws |-> m.ws, home |-> m.home, db |-> m.db, began |-> m.began,
                 exp |-> now + Ttl, key |-> held["master_jwt_rsa_pkcs8_v1"]]
        BY <1>4, <2>2, <3>2 DEF issue
      <4>2. t.role = m.role /\ t.ws = m.ws /\ t.home = m.home /\ t.db = m.db /\ t.began = m.began
        BY <4>1
      <4>3. Bearer(t)
        BY <1>1, <4>2 DEF Bearer, Fits
      <4> QED BY <1>2, <4>3
    <3> QED BY <3>1, <3>2
  <2> QED BY <1>1, <1>2, <2>1, <2>2
<1> QED BY <1>1, <1>3, <1>4

\* A workspace is created, or accounts and apps come and go.
LEMMA ChangeGInv ==
  ASSUME GInv, NEW w \in Ws,
         \/ user_register(w) \/ workspace_admins_create(w) \/ apps_create(w) \/ apps_delete(w)
         \/ workspaces_create(w)
  PROVE  GInv'
<1>1. pool_for(w) /\ UNCHANGED <<sess, removal, gone, token, mint, now>>
  BY DEF user_register, workspace_admins_create, apps_create, apps_delete, workspaces_create, Add, Change
<1>2. /\ GShape' /\ Owned' /\ Coherent'
      /\ \A x : (Fits(x) => Fits(x)') /\ (Bearer(x) => Bearer(x)')
  BY <1>1, PoolForGInv
<1> QED BY <1>1, <1>2 DEF GInv

\* Pools leave the cache: by eviction, when a DELETE begins, in a crash.
LEMMA UncacheGInv ==
  ASSUME GInv, UNCHANGED <<at, dbs, gone, now, sess, token>>, mint' \subseteq mint,
         cached' \in [Ws -> Nat], \A w \in Ws : cached'[w] = cached[w] \/ cached'[w] = 0,
         raced \subseteq raced', \A x \in removal' : x.w \in Ws,
         \A x \in removal' : x \in removal \/ cached'[x.w] = 0
  PROVE  GInv'
<1> USE DEF GInv
<1>1. \A d \in Nat : \A w \in Ws : Works(d, w)' => Works(d, w)
  BY DEF Works, GShape
<1>2. GShape'
  BY DEF GShape
<1>3. Owned'
  BY <1>1 DEF Owned
<1>4. Coherent'
  <2> SUFFICES ASSUME NEW w \in Ws, w \notin raced'
               PROVE  /\ cached'[w] = 0 \/ cached'[w] = at[w]
                      /\ (\E x \in removal' : x.w = w) => cached'[w] = 0
    BY DEF Coherent
  <2>1. /\ cached[w] = 0 \/ cached[w] = at[w]
        /\ (\E x \in removal : x.w = w) => cached[w] = 0
    BY DEF Coherent
  <2> QED BY <2>1
<1>5. ASSUME NEW x, Fits(x) PROVE Fits(x)'
  <2>1. x.db \in Nat
    BY <1>5 DEF Fits, GShape
  <2> QED BY <1>1, <1>5, <2>1 DEF Fits
<1>6. \A x : Bearer(x) => Bearer(x)'
  BY <1>5 DEF Bearer
<1> QED BY <1>2, <1>3, <1>4, <1>5, <1>6

\* The DELETE begins by dropping the pool; pools are also evicted.
LEMMA EvictGInv ==
  ASSUME GInv, NEW w \in Ws, workspaces_delete(w) \/ lru_evict(w)
  PROVE  GInv'
<1>1. /\ UNCHANGED <<at, dbs, gone, now, sess, token, mint>>
      /\ cached' = [cached EXCEPT ![w] = 0] /\ raced \subseteq raced'
      /\ \A x \in removal' : x \in removal \/ x = [w |-> w, step |-> "row"]
  BY DEF workspaces_delete, evict_pool, lru_evict
<1>2. /\ cached' \in [Ws -> Nat] /\ cached'[w] = 0
      /\ \A v \in Ws : cached'[v] = cached[v] \/ cached'[v] = 0
  BY <1>1 DEF GInv, GShape
<1>3. \A x \in removal' : x.w \in Ws /\ (x \in removal \/ cached'[x.w] = 0)
  BY <1>1, <1>2 DEF GInv, Coherent
<1> QED BY <1>1, <1>2, <1>3, UncacheGInv

\* The row goes, or the DELETE ends early.
LEMMA RowGInv ==
  ASSUME GInv, NEW x \in removal, delete_realm_row(x) \/ RemovalEnds(x)
  PROVE  GInv'
<1>1. /\ UNCHANGED <<at, cached, dbs, raced, gone, now, sess, token, mint>>
      /\ \A y \in removal' : y \in removal \/ y = [x EXCEPT !.step = "folder"]
  BY DEF delete_realm_row, RemovalEnds, files
<1>2. \A y \in removal' : \E z \in removal : y.w = z.w
  <2>1. [x EXCEPT !.step = "folder"].w = x.w
    OBVIOUS
  <2> QED BY <1>1, <2>1
<1>3. Coherent'
  BY <1>1, <1>2 DEF GInv, Coherent
<1>4. \A d, w : Works(d, w)' <=> Works(d, w)
  BY <1>1 DEF Works
<1>5. GShape' /\ Owned'
  BY <1>1, <1>4 DEF GInv, GShape, Owned
<1>6. \A y : Fits(y) => Fits(y)'
  BY <1>1, <1>4 DEF Fits
<1>7. \A y : Bearer(y) => Bearer(y)'
  BY <1>1, <1>6 DEF Bearer
<1> QED BY <1>1, <1>3, <1>5, <1>6, <1>7 DEF GInv

\* The folder goes; whoever had a session in it began before.
LEMMA FolderGInv ==
  ASSUME GInv, NEW x \in removal, remove_dir_all(x)
  PROVE  GInv'
<1> USE DEF GInv
<1>1. /\ UNCHANGED <<cached, dbs, raced, now, sess, token, mint>> /\ removal' = removal \ {x}
      /\ at' = [at EXCEPT ![x.w] = 0] /\ gone' = [gone EXCEPT ![x.w] = now]
  BY DEF remove_dir_all
<1>2. x.w \in Ws /\ (x.w \notin raced => cached[x.w] = 0)
  BY DEF Coherent
<1>3. /\ at' \in [Ws -> Nat] /\ at'[x.w] = 0 /\ \A w \in Ws : w # x.w => at'[w] = at[w]
      /\ gone' \in [Ws -> Nat] /\ gone'[x.w] = now /\ \A w \in Ws : w # x.w => gone'[w] = gone[w]
  BY <1>1, <1>2 DEF GShape
<1>4. \A d, w : w \in Ws /\ Works(d, w)' => Works(d, w)
  BY <1>1, <1>3 DEF Works
<1>5. GShape' /\ Owned'
  <2>1. GShape'
    BY <1>1, <1>3 DEF GShape
  <2>2. Owned'
    BY <1>4 DEF Owned
  <2> QED BY <2>1, <2>2
<1>6. Coherent'
  BY <1>1, <1>2, <1>3 DEF Coherent
<1>7. \A y : Fits(y) => Fits(y)'
  BY <1>1, <1>4 DEF Fits
<1>8. ASSUME NEW y, Bearer(y) PROVE Bearer(y)'
  <2>1. CASE y.role = "MasterAdmin" /\ y.home = Nowhere
    BY <2>1 DEF Bearer
  <2>2. CASE /\ Fits(y) /\ y.ws = y.home /\ y.began \in Nat /\ y.began <= now
             /\ y.home \notin raced /\ y.db # at[y.home] => y.began <= gone[y.home]
    <3>1. y.home \in Ws
      BY <2>2 DEF Fits
    <3>2. CASE y.home = x.w
      BY <1>1, <1>3, <1>7, <2>2, <3>2 DEF Bearer
    <3>3. CASE y.home # x.w
      BY <1>1, <1>3, <1>7, <2>2, <3>1, <3>3 DEF Bearer
    <3> QED BY <3>2, <3>3
  <2> QED BY <1>8, <2>1, <2>2 DEF Bearer
<1> QED BY <1>1, <1>5, <1>6, <1>7, <1>8

\* Every step of the gateway preserves the invariant.
LEMMA NextGInv == GInv /\ [GNext]_gvars => GInv'
<1> SUFFICES ASSUME GInv, [GNext]_gvars PROVE GInv'
  OBVIOUS
<1>1. CASE Booting \/ (\E r \in Req : SettingUp(r)) \/ UNCHANGED gvars
  <2>1. UNCHANGED <<at, cached, dbs, raced, gone, now, removal, sess, token, mint>>
    BY <1>1 DEF Booting, SettingUp, gateway, gvars, tenants, files
  <2> QED BY <2>1, SameGInv DEF GInv
<1>2. CASE Tick
  <2>1. /\ now' = now + 1 /\ token' \subseteq token
        /\ UNCHANGED <<at, cached, dbs, raced, gone, removal, sess, mint>>
    BY <1>2 DEF Tick, tenants, files
  <2>2. \A d, w : Works(d, w)' <=> Works(d, w)
    BY <2>1 DEF Works
  <2>3. GShape' /\ Owned' /\ Coherent'
    BY <2>1, <2>2 DEF GInv, GShape, Owned, Coherent
  <2>4. \A x : Fits(x) => Fits(x)'
    BY <2>1, <2>2 DEF Fits
  <2>5. \A x : Bearer(x) => Bearer(x)'
    BY <2>1, <2>4 DEF Bearer, GInv, GShape
  <2> QED BY <2>1, <2>3, <2>4, <2>5 DEF GInv
<1>3. CASE Crashing
  <2>1. /\ UNCHANGED <<at, dbs, gone, now, sess, token, raced>> /\ mint' = {} /\ removal' = {}
        /\ cached' = [w \in Ws |-> 0]
    BY <1>3 DEF Crashing, Nothing
  <2>2. cached' \in [Ws -> Nat] /\ \A w \in Ws : cached'[w] = 0
    BY <2>1
  <2> QED BY <2>1, <2>2, UncacheGInv
<1>4. CASE master_admin_login \/ \E m \in mint : Mint(m)
  BY <1>4, MasterGInv, MintGInv
<1>5. CASE \E w \in Ws :
             \/ workspace_admin_login(w) \/ user_login(w)
             \/ \E s \in sess : workspace_admin_refresh(s, w) \/ user_refresh(s, w)
  BY <1>5, LoginGInv
<1>6. CASE \E w \in Ws :
             \/ user_register(w) \/ workspaces_create(w) \/ workspaces_delete(w)
             \/ workspace_admins_create(w) \/ apps_create(w) \/ apps_delete(w) \/ lru_evict(w)
  BY <1>6, ChangeGInv, EvictGInv
<1>7. CASE \E x \in removal : delete_realm_row(x) \/ remove_dir_all(x) \/ RemovalEnds(x)
  BY <1>7, RowGInv, FolderGInv
<1> QED BY <1>1, <1>2, <1>3, <1>4, <1>5, <1>6, <1>7 DEF GNext

\* Both invariants hold under any traffic.
LEMMA GInvariant == GSpec => [](IInv /\ GInv)
<1>1. GSpec => []IInv
  BY GatewayImplementsBoot, Invariant, PTL
<1>2. GSpec => []GInv
  BY InitGInv, NextGInv, PTL DEF GSpec
<1> QED BY <1>1, <1>2, PTL

-----------------------------------------------------------------------------
\* The guards of the system's, a workspace's and an app's endpoints.
LEMMA Guards ==
  ASSUME NEW t, NEW w
  PROVE  /\ SystemPath(t, w) => t.role = "MasterAdmin"
         /\ WorkspacePath(t, w) => t.role = "MasterAdmin" \/ ClaimsAdmin(t, w)
         /\ AppPath(t, w) => t.role = "MasterAdmin" \/ ClaimsAdmin(t, w)
<1>1. SystemPath(t, w) => require_master(t)
  BY DEF SystemPath, workspaces_list, workspaces_get, workspaces_update, policies_system_list,
     policies_system_get, policies_system_put, policies_system_delete, audit_system_list
<1>2. WorkspacePath(t, w) => require_workspace_access(t, w)
  BY DEF WorkspacePath, users_list, users_get, users_verify, users_reset_totp, users_delete,
     oauth_admin_list, oauth_admin_get, oauth_admin_put, oauth_admin_delete, policies_workspace_list,
     policies_workspace_get, policies_workspace_put, policies_workspace_delete, audit_workspace_list,
     apps_list, apps_get, apps_update
<1>3. AppPath(t, w) => require_app_access(t, w)
  BY DEF AppPath, collections_list, collections_get, collections_create, collections_patch, collections_delete,
     access_rules_list, access_rules_put, access_rules_delete, files_list, files_upload, files_download,
     files_meta, files_delete, policies_app_list, policies_app_get, policies_app_put, policies_app_delete,
     audit_app_list, hooks_list, hooks_get, hooks_put, hooks_delete, hooks_reload
<1> QED BY <1>1, <1>2, <1>3 DEF require_master, require_workspace_access, require_app_access

\* No request reaches a handler before setup or outside its caller's scope, for any number of
\* workspaces, logins, refreshes, deletions and restarts (auth/extract.rs and every handler).
THEOREM CallersStayInScope == GSpec => []ScopesHold
<1>1. ASSUME IInv, GInv PROVE ScopesHold
  <2> SUFFICES ASSUME NEW path \in Path, NEW w \in Ws, NEW t \in Callers, build_router(path, t, w)
               PROVE  master_admin_is_initialized /\ Covers(path, t, w)
    BY DEF ScopesHold
  <2>1. t \in token /\ Open
    BY DEF Callers, Claims, read_cookie, extract_claims
  <2>2. Bearer(t)
    BY <1>1, <2>1 DEF GInv
  <2>3. master_admin_is_initialized
    BY <1>1, <2>1 DEF Open, setup_gate, is_initialized, is_allowed_before_setup, IInv, PasswordStays,
                      master_admin_is_initialized
  <2>4. CASE path = "system"
    BY <2>3, <2>4, Guards DEF build_router, Covers
  <2>5. CASE path \in {"workspace", "app"}
    BY <2>2, <2>3, <2>5, Guards DEF build_router, Covers, ClaimsAdmin, Bearer, Fits
  <2>6. CASE path = "principal"
    BY <2>2, <2>3, <2>6, GatewayConstants DEF build_router, Covers, PrincipalPath, records, record_events, record_events_ws,
                      is_admin_for_app, user_workspace, ClaimsAdmin, Bearer, Fits, Nowhere
  <2>7. CASE path = "user"
    BY <2>2, <2>3, <2>7, GatewayConstants DEF build_router, Covers, UserPath, totp_enroll, totp_confirm, totp_disable,
                      verify_email_request, require_user_in_workspace, user_workspace, Bearer, Fits, Nowhere
  <2> QED BY <2>3, <2>4, <2>5, <2>6, <2>7 DEF Path
<1> QED BY <1>1, GInvariant, PTL

\* Who holds a token of a database that has gone had begun before the removal, for any number of
\* workspaces, logins, refreshes, evictions and deletions in flight, unless some request opened the
\* workspace while its DELETE was in flight: the eviction that begins it (workspaces.rs) is what
\* keeps a predecessor's sessions from being refreshed (auth/refresh.rs).
THEOREM PredecessorsAreOut == GSpec => []PredecessorsFade
<1>1. GInv => PredecessorsFade
  BY DEF GInv, Bearer, Fits, PredecessorsFade
<1> QED BY <1>1, GInvariant, PTL
=============================================================================
