------------------------------ MODULE Realtime ------------------------------
(***************************************************************************)
(* Realtime subscriptions to one collection of one app: the access token   *)
(* of a connection, the subscription's effective filter, the in-process    *)
(* broker that hands out broadcast receivers, the writers that publish     *)
(* after they commit, and the process, which may start again.              *)
(* DashMap operations are atomic; everything between two of them may       *)
(* interleave.  What a filter is parsed to and which records it lets       *)
(* through are parameters (SubscriptionFilters).                           *)
(***************************************************************************)
EXTENDS FilterSyntax, FiniteSets

CONSTANTS
  Conns,            \* connections, each opened at most once
  Writers,          \* record requests in flight
  Ttl,              \* access-token lifetime
  Leeway,           \* what the JWT library tolerates past exp
  Capacity,         \* events a channel retains
  ClientTexts,      \* what `?filter=` may hold
  ClientFilter(_),  \* the filter of such a text: [ok, n]
  RuleFilter(_),    \* the filter of a rule other than `deny`: [ok, n]
  Matches(_, _),    \* FilterNode::matches
  Budgets           \* bounds of a behaviour: the tokens and the rule it starts with, how far the
                    \* clock goes, how many writes, tokens and changes of the rule there are

VARIABLES
  now,         \* seconds
  tokens,      \* access tokens in the hands of clients
  listRule,    \* the List rule of the collection
  budget,      \* the behaviour's bounds, the changes of the rule counted down
  row,         \* the one record, or NoRow
  conn,        \* connections
  chan,        \* the channel the broker's map holds, or NoChan
  alive,       \* the channels whose Sender has not been dropped
  log,         \* channel -> indices into published, in the order sent
  writer,      \* writers
  published    \* every event handed to publish

rtVars == <<now, tokens, listRule, budget, row, conn, chan, alive, log, writer, published>>

NoChan == 0
NoRow == [s |-> Str(<<0>>)]

-----------------------------------------------------------------------------
(* Access tokens. *)

Workspace == "w"
App == "app"
\* The subjects: a user of this workspace, a user of another, an app admin.
Subjects == {"user", "outsider", "admin"}
role(s) == IF s = "admin" THEN "app_admin" ELSE "user"
workspace(s) == IF s = "outsider" THEN "elsewhere" ELSE Workspace

\* build_claims, signed by `issue` (RS256, the active kid).
build_claims(s) == [sub |-> s, iat |-> now, exp |-> now + Ttl, alg |-> "RS256", kid |-> "active"]

\* Tokens from before: HS256 ones of version 0.1, and one signed by another key.
LegacyToken == [sub |-> "user", iat |-> 0, exp |-> Ttl, alg |-> "HS256", kid |-> "none"]
StrangeToken == [sub |-> "user", iat |-> 0, exp |-> Ttl, alg |-> "RS256", kid |-> "other"]

\* The List rules: none, everything, and three with a template; `typo` names an unknown path.
ListRules == {"deny", "allow", "owner", "email", "typo"}

ASSUME RealtimeBounds ==
  /\ Ttl \in Nat /\ Leeway \in Nat /\ Capacity \in Nat \ {0}
  /\ \A b \in Budgets :
       /\ {b.now, b.writes, b.tokens, b.rules} \subseteq Nat
       /\ b.old \subseteq {LegacyToken, StrangeToken} /\ b.rule \in ListRules

\* JwtIssuer::verify: the active key when a kid is named, the legacy secret for HS256 (the
\* server always passes it), and an exp not further in the past than the leeway.
verify(t) ==
  /\ t.alg = "RS256" => t.kid \in {"active", "none"}
  /\ t.exp >= now - Leeway

\* Where a request carries its token; server-sent events know no query parameter.
extract_claims(transport, place) == place \in {"header", "cookie"} \/ transport = "ws"

Requests == {<<"sse", "header">>, <<"sse", "query">>, <<"ws", "query">>}

Login(s) ==
  /\ Cardinality(tokens) < budget.tokens
  /\ tokens' = tokens \cup {build_claims(s)}
  /\ UNCHANGED <<now, listRule, budget, row, conn, chan, alive, log, writer, published>>

Tick == now < budget.now /\ now' = now + 1 /\ UNCHANGED <<tokens, listRule, budget, row, conn, chan, alive, log, writer, published>>

-----------------------------------------------------------------------------
(* Records, and what the filters of the rules say of them. *)

\* What a request may write, and what an event may show: the fields as given, or as re-read.
Fields == {[n |-> IntV(1), s |-> UserId], [n |-> IntV(2), s |-> Str(<<2>>)], [n |-> IntV(2), s |-> NullV]}
Shown == Fields \cup {row_to_record(Stored(f)) : f \in Fields}

\* The value of column s that a template resolves to; the context never has the user's e-mail
\* address.
Demanded == [owner |-> UserId, email |-> NullV]

\* A rule with an unknown path has no filter; the others let through only what they demand,
\* alone and in a conjunction.
ASSUME RuleFilters ==
  /\ ~RuleFilter("typo").ok
  /\ \A r \in DOMAIN Demanded : LET f == RuleFilter(r).n IN
       /\ f # NoFilter /\ \A rec \in Shown : Matches(f, rec) => rec.s = Demanded[r]
       /\ \A x \in ClientTexts, rec \in Shown : LET g == ClientFilter(x) IN
            g.ok /\ g.n # NoFilter /\ Matches(And(f, g.n), rec) => Matches(f, rec)

-----------------------------------------------------------------------------
(* Opening a connection. *)

NoConn == [st |-> "idle", sub |-> "user", rule |-> "deny",
           filter |-> NoFilter, chan |-> NoChan, pos |-> 0, since |-> 0, seen |-> {}, got |-> {}, lagged |-> FALSE]

Gone == [NoConn EXCEPT !.st = "gone"]

\* principal_from_token: refused or admitted.  Nothing in the program revokes a subject, so
\* is_revoked is false of every token.
Present(c, t, transport, place) ==
  /\ conn[c].st = "idle" /\ t \in tokens
  /\ conn' = [conn EXCEPT ![c] = IF extract_claims(transport, place) /\ verify(t)
                                 THEN [NoConn EXCEPT !.st = "admitted", !.sub = t.sub] ELSE Gone]
  /\ UNCHANGED <<now, tokens, listRule, budget, row, chan, alive, log, writer, published>>

is_admin_for_app(s) == role(s) = "app_admin" /\ workspace(s) = Workspace
user_workspace(s) == IF role(s) = "user" THEN workspace(s) ELSE "none"

\* Faulty variant: the two texts are joined before they are parsed.
IntersectTexts(a, b) ==
  CASE a = NoFilter -> b
    [] b = NoFilter -> a
    [] OTHER -> IF b.op = "or" THEN Or(And(a, b.l), b.r) ELSE And(a, b)

intersect_filters(a, b) ==
  CASE a = NoFilter -> b
    [] b = NoFilter -> a
    [] OTHER -> And(a, b)

\* authorize_subscribe.
Authorize(c, text) ==
  /\ conn[c].st = "admitted"
  /\ LET s == conn[c].sub
         cf == ClientFilter(text)
         rf == RuleFilter(listRule)
         open(f) == [conn[c] EXCEPT !.st = "subscribe", !.filter = f, !.rule = listRule]
         refused == ~cf.ok \/ (~is_admin_for_app(s) /\ (user_workspace(s) # Workspace \/ listRule = "deny" \/ ~rf.ok))
     IN conn' = [conn EXCEPT ![c] =
          CASE refused -> Gone
            [] ~refused /\ is_admin_for_app(s) -> open(cf.n)
            [] OTHER -> open(intersect_filters(rf.n, cf.n))]
  /\ UNCHANGED <<now, tokens, listRule, budget, row, chan, alive, log, writer, published>>

\* put / delete of the List rule; open subscriptions keep the filter they have.
SetRule(r) ==
  /\ budget.rules > 0 /\ budget' = [budget EXCEPT !.rules = @ - 1]
  /\ listRule # r /\ listRule' = r
  /\ UNCHANGED <<now, tokens, row, conn, chan, alive, log, writer, published>>

-----------------------------------------------------------------------------
(* RealtimeBroker. *)

Attached(c, k, n) == [conn[c] EXCEPT !.st = "open", !.chan = k, !.pos = n, !.since = Len(published)]

\* subscribe finds the channel and joins it at its end ...
Subscribe(c) ==
  /\ conn[c].st = "subscribe"
  /\ conn' = [conn EXCEPT ![c] = IF chan # NoChan THEN Attached(c, chan, Len(log[chan]))
                                 ELSE [conn[c] EXCEPT !.st = "create"]]
  /\ UNCHANGED <<now, tokens, listRule, budget, row, chan, alive, log, writer, published>>

\* Faulty variant: someone still holds the Sender that the new channel replaces.
SubscribeNewKeepsOld(c) ==
  /\ conn[c].st = "create"
  /\ log' = Append(log, <<>>)
  /\ chan' = Len(log) + 1 /\ alive' = alive \cup {chan'}
  /\ conn' = [conn EXCEPT ![c] = Attached(c, Len(log) + 1, 0)]
  /\ UNCHANGED <<now, tokens, listRule, budget, row, writer, published>>

\* ... or, finding none, makes one and puts it in the map, over whatever is there by now:
\* the map held the only Sender of that one.
SubscribeNew(c) ==
  /\ conn[c].st = "create"
  /\ log' = Append(log, <<>>)
  /\ chan' = Len(log) + 1 /\ alive' = (alive \ {chan}) \cup {chan'}
  /\ conn' = [conn EXCEPT ![c] = Attached(c, Len(log) + 1, 0)]
  /\ UNCHANGED <<now, tokens, listRule, budget, row, writer, published>>

Receivers(k) == {c \in Conns : conn[c].st = "open" /\ conn[c].chan = k}

\* event_matches.
event_matches(ev, f) == f = NoFilter \/ ev.kind = "deleted" \/ Matches(f, ev.rec)

\* BroadcastStream::next: the oldest retained event it has not seen; a lagging receiver skips.
Receive(c) ==
  /\ conn[c].st = "open"
  /\ LET k == log[conn[c].chan]
         from == conn[c].pos
         lag == Len(k) - from > Capacity
         i == IF lag THEN Len(k) - Capacity + 1 ELSE from + 1
         ev == published[k[i]]
         let == event_matches(ev, conn[c].filter)
     IN /\ from < Len(k)
        /\ conn' = [conn EXCEPT ![c].pos = i, ![c].seen = @ \cup {k[i]}, ![c].lagged = @ \/ lag,
                                ![c].got = IF let /\ ev.kind # "deleted" THEN @ \cup {ev.rec} ELSE @]
  /\ UNCHANGED <<now, tokens, listRule, budget, row, chan, alive, log, writer, published>>

\* The stream ends: its channel is closed and drained, or the client is gone.
Disconnect(c) ==
  /\ conn[c].st = "open"
  /\ conn' = [conn EXCEPT ![c] = Gone]
  /\ UNCHANGED <<now, tokens, listRule, budget, row, chan, alive, log, writer, published>>

-----------------------------------------------------------------------------
(* Writers: commit, re-read after an update, publish. *)

Ready == [st |-> "ready", ev |-> NullV]
Busy == Cardinality({w \in Writers : writer[w] # Ready})

CreateRecord(w, fields) ==
  /\ writer[w] = Ready /\ Len(published) + Busy < budget.writes /\ row = NoRow
  /\ row' = Stored(fields)
  /\ writer' = [writer EXCEPT ![w] = [st |-> "publish", ev |-> [kind |-> "created", rec |-> fields]]]
  /\ UNCHANGED <<now, tokens, listRule, budget, conn, chan, alive, log, published>>

UpdateRecord(w, fields) ==
  /\ writer[w] = Ready /\ Len(published) + Busy < budget.writes /\ row # NoRow
  /\ row' = Stored(fields)
  /\ writer' = [writer EXCEPT ![w].st = "reread"]
  /\ UNCHANGED <<now, tokens, listRule, budget, conn, chan, alive, log, published>>

\* update_record answers what the row holds now; gone by now, the update is a 404.
Reread(w) ==
  /\ writer[w].st = "reread"
  /\ writer' = [writer EXCEPT ![w] = IF row = NoRow THEN Ready
                  ELSE [st |-> "publish", ev |-> [kind |-> "updated", rec |-> row_to_record(row)]]]
  /\ UNCHANGED <<now, tokens, listRule, budget, row, conn, chan, alive, log, published>>

DeleteRecord(w) ==
  /\ writer[w] = Ready /\ Len(published) + Busy < budget.writes /\ row # NoRow
  /\ row' = NoRow
  /\ writer' = [writer EXCEPT ![w] = [st |-> "publish", ev |-> [kind |-> "deleted", rec |-> NullV]]]
  /\ UNCHANGED <<now, tokens, listRule, budget, conn, chan, alive, log, published>>

\* publish sends to the channel in the map, and will remove one without receivers ...
Publish(w) ==
  /\ writer[w].st = "publish"
  /\ published' = Append(published, writer[w].ev)
  /\ log' = IF chan # NoChan /\ Receivers(chan) # {}
            THEN [log EXCEPT ![chan] = Append(@, Len(published) + 1)] ELSE log
  /\ writer' = [writer EXCEPT ![w] = IF chan # NoChan /\ Receivers(chan) = {} THEN [Ready EXCEPT !.st = "remove"] ELSE Ready]
  /\ UNCHANGED <<now, tokens, listRule, budget, row, conn, chan, alive>>

\* ... by key, whichever channel is there by now; its receivers' streams end.
RemoveChannel(w) ==
  /\ writer[w].st = "remove"
  /\ chan' = NoChan /\ alive' = alive \ {chan}
  /\ writer' = [writer EXCEPT ![w] = Ready]
  /\ UNCHANGED <<now, tokens, listRule, budget, row, conn, log, published>>

\* The process stops and starts again: the streams end with the broker, the requests with what
\* they have committed, published or not; tokens, rule and row outlive it.
Restart ==
  /\ conn' = [c \in Conns |-> IF conn[c].st = "idle" THEN conn[c] ELSE Gone]
  /\ writer' = [w \in Writers |-> Ready]
  /\ chan' = NoChan /\ alive' = {}
  /\ UNCHANGED <<now, tokens, listRule, budget, row, log, published>>

-----------------------------------------------------------------------------

RtInit ==
  /\ now = 0
  /\ budget \in Budgets /\ tokens = budget.old /\ listRule = budget.rule
  /\ row = NoRow
  /\ conn = [c \in Conns |-> NoConn] /\ writer = [w \in Writers |-> Ready]
  /\ chan = NoChan /\ alive = {} /\ log = <<>> /\ published = <<>>

RtNext ==
  \/ Tick \/ Restart
  \/ \E s \in Subjects : Login(s)
  \/ \E r \in ListRules : SetRule(r)
  \/ \E c \in Conns :
       \/ \E t \in tokens, r \in Requests : Present(c, t, r[1], r[2])
       \/ \E x \in ClientTexts : Authorize(c, x)
       \/ Subscribe(c) \/ SubscribeNew(c) \/ Receive(c) \/ Disconnect(c)
  \/ \E w \in Writers :
       \/ \E f \in Fields : CreateRecord(w, f) \/ UpdateRecord(w, f)
       \/ Reread(w) \/ DeleteRecord(w) \/ Publish(w) \/ RemoveChannel(w)

RtSpec == RtInit /\ [][RtNext]_rtVars

-----------------------------------------------------------------------------
(* Properties. *)

\* A subscriber whose stream is still open misses nothing without lagging: every event
\* published since it joined was handed to it or waits in its channel, however subscribes,
\* publishes and the removal of channels interleave.  (A lost race ends its stream instead.)
NoSilentLoss ==
  \A c \in Conns :
    conn[c].st = "open" /\ conn[c].chan \in alive /\ ~conn[c].lagged =>
      \A i \in (conn[c].since + 1)..Len(published) :
        \/ i \in conn[c].seen
        \/ \E j \in (conn[c].pos + 1)..Len(log[conn[c].chan]) : log[conn[c].chan][j] = i

\* A user is handed records only as the rule in force when it connected allows, whatever filter
\* it supplies: its own records under the owner rule, under the e-mail rule (whose template
\* resolves to null) the records without a value, none under `deny` or a rule that does not
\* resolve; a user of another workspace none at all.
EventsWithinRule ==
  \A c \in Conns : \A r \in conn[c].got :
    \/ conn[c].sub = "admin"
    \/ /\ conn[c].sub = "user"
       /\ conn[c].rule \notin {"deny", "typo"}
       /\ conn[c].rule = "owner" => r.s = UserId
       /\ conn[c].rule = "email" => r.s = NullV
=============================================================================
