------------------------------- MODULE Hooks -------------------------------
(***************************************************************************)
(* The JavaScript hooks of one app.  Every load of the hook files builds a *)
(* generation (`AppHooks`): a QuickJS context, a CPU deadline, a mailer    *)
(* with its daily counters, and one scheduler task per cron job.  The      *)
(* engine's map names the current generation; requests, schedulers and     *)
(* reloads keep older ones alive through reference counts.  Entries into   *)
(* JavaScript arm the deadline BEFORE they wait for the context, and the   *)
(* deadline is one cell for all entries of a generation.                   *)
(*                                                                         *)
(* What a handler computes is left open: it may throw, call a native, mail *)
(* or run on until it is interrupted.  Time passes in ticks; the interrupt *)
(* handler is asked often enough that no tick passes in JavaScript that is *)
(* over a deadline, but it is never asked inside a native call.            *)
(***************************************************************************)
EXTENDS Naturals, FiniteSets

CONSTANTS
  Entry,      \* requests and scheduler ticks that may be inside the runtime at once
  Admin,      \* concurrent requests of the hook-file endpoints
  Budget,     \* cpu_time_ms, in ticks
  NoQuota,    \* there is no `mailer.daily_quota` policy
  MaxGen,     \* bound: generations built
  MaxDay,     \* bound: last UTC day
  Worlds      \* the daily quota, and the bounds on a behaviour (what it may still do)

Nobody == "nobody"
Absent == "absent"

ASSUME HookConstants ==
  /\ IsFiniteSet(Entry) /\ IsFiniteSet(Admin) /\ Nobody \notin Entry
  /\ Budget \in Nat \ {0}
  /\ MaxGen \in Nat /\ MaxDay \in Nat
  /\ \A w \in Worlds : /\ w.quota \in Nat \cup {NoQuota}
                       /\ w.left \in [{"loads", "enters", "calls", "mails", "ticks", "days"} -> Nat]

Gen == 1..MaxGen
Day == 0..MaxDay
Source == {"broken", "cron", "badCron"}   \* what the hook file holds, when there is one
Loaded == Source \cup {Absent, "over"}    \* ... or held: a schedule may have run out since

VARIABLES
  file,      \* data/hooks/<workspace>/<app>: its one file
  current,   \* HookEngine.apps: the generation requests are served by, 0 for none
  src,       \* what a generation loaded
  strong,    \* Arc<AppHooks> reference counts
  cron,      \* generations whose scheduler task runs
  holder,    \* the entry inside a generation's context
  deadline,  \* CpuClock::deadline_ms, 0 when disarmed
  request,   \* $app.request of a generation
  count,     \* QuotedMailer::counts, per generation and day
  entry, admin,
  now, day, quota, built,
  left,      \* what remains of the behaviour's bounds
  cut,       \* history: generations in which an interrupt cut a dispatch
  sent       \* history: mails whose delivery was confirmed, per generation and day charged

context == <<holder, deadline, request, cut>>
mail == <<count, sent>>
refs == <<strong, cron>>
time == <<now, day, quota>>
hVars == <<file, current, src, refs, context, mail, entry, admin, time, built, left>>

Out == [pc |-> "out", g |-> 0, kind |-> "none", armed |-> 0, alone |-> TRUE,
        late |-> FALSE, seen |-> Nobody, day |-> 0]
NoWork == [pc |-> "idle", g |-> 0]

\* A new generation's clock is disarmed and its mailer has counted nothing.
CpuClock == 0
QuotedMailer == [d \in Day |-> 0]

HInit ==
  /\ file = Absent /\ current = 0
  /\ src = [g \in Gen |-> Absent]
  /\ strong = [g \in Gen |-> 0] /\ cron = {}
  /\ holder = [g \in Gen |-> Nobody] /\ deadline = [g \in Gen |-> CpuClock]
  /\ request = [g \in Gen |-> Nobody] /\ cut = {}
  /\ count = [g \in Gen |-> QuotedMailer] /\ sent = [g \in Gen |-> [d \in Day |-> 0]]
  /\ entry = [e \in Entry |-> Out] /\ admin = [a \in Admin |-> NoWork]
  /\ now = 0 /\ day = 0 /\ built = 0
  /\ \E w \in Worlds : quota = w.quota /\ left = w.left

-----------------------------------------------------------------------------
Spend(what) == left[what] > 0 /\ left' = [left EXCEPT ![what] = @ - 1]

(* Reference counts. *)

Clone(g) == strong' = [strong EXCEPT ![g] = @ + 1] /\ UNCHANGED cron

\* The last reference runs Drop for AppHooks, which aborts the scheduler tasks.
Drop(s) == strong' = s /\ cron' = {g \in cron : s[g] > 0}
Release(g) == Drop([strong EXCEPT ![g] = @ - 1])

-----------------------------------------------------------------------------
(* The CPU deadline. *)

On(g) == {e \in Entry : entry[e].pc # "out" /\ entry[e].g = g}

\* Another entry of g has stored to the deadline: e can no longer count on its own.
Crowd(g, e) == [x \in Entry |-> IF x \in On(g) \ {e} THEN [entry[x] EXCEPT !.alone = FALSE] ELSE entry[x]]

arm(g) == deadline' = [deadline EXCEPT ![g] = now + Budget]
disarm(g) == deadline' = [deadline EXCEPT ![g] = 0]
deadline_crossed(g) == deadline[g] # 0 /\ now >= deadline[g]

-----------------------------------------------------------------------------
(* What a file registers when it is evaluated. *)

\* TypeScript is stripped first; a file that does not parse is skipped and registers nothing.
transpile(s) == s # "broken"
eval(s) == IF transpile(s) THEN s ELSE Absent

\* The bootstrap's registries: handlers, routes and pending cron jobs.
HasHandlers(g) == src[g] # Absent
PendingCron(g) == src[g] \in {"cron", "badCron"}
\* A valid expression that has a date to come.
ValidExpression(g) == src[g] = "cron"

-----------------------------------------------------------------------------
(* Entries: wait for the context, run, leave. *)

At(e, pc) == entry[e].pc = pc
Step(e, pc) == entry' = [entry EXCEPT ![e].pc = pc]
Running(e) == entry[e].pc \in {"js", "native", "reserve", "send"}

\* arm_cpu and then the wait for the context's lock; the caller holds an Arc meanwhile.
Enter(e, g, kind) ==
  /\ At(e, "out") /\ Spend("enters")
  /\ Clone(g) /\ arm(g)
  /\ entry' = [Crowd(g, e) EXCEPT ![e] =
       [Out EXCEPT !.pc = "wait", !.g = g, !.kind = kind, !.armed = now, !.alone = On(g) = {}]]
  /\ UNCHANGED <<file, current, src, holder, request, cut, mail, admin, time, built>>

\* HookEngine::get: without a generation in the map every dispatch is a no-op.
get == current # 0

\* The events of AppHooks and their driver: the before ones may veto.
DriverOf == [beforeCreate |-> "before", beforeUpdate |-> "before", beforeDelete |-> "before",
             userBeforeLogin |-> "before", created |-> "after", updated |-> "after", deleted |-> "after",
             userAfterLogin |-> "after", userAfterRegister |-> "after"]
Fired(kind) == \E event \in DOMAIN DriverOf : DriverOf[event] = kind

dispatch(e) == get /\ Fired("after") /\ Enter(e, current, "after")
run_before(e) == get /\ Fired("before") /\ Enter(e, current, "before")

\* A request of a custom route, from anybody.
invoke_custom_route(e) == Enter(e, current, "route")
handle(e) == get /\ invoke_custom_route(e)

\* Faulty variant: the scheduler enters without arming.
CronUnarmed(e) ==
  \E g \in cron :
    /\ strong[g] > 0 /\ ~\E x \in On(g) : entry[x].kind = "cron"
    /\ At(e, "out") /\ Spend("enters")
    /\ Clone(g)
    /\ entry' = [entry EXCEPT ![e] =
         [Out EXCEPT !.pc = "wait", !.g = g, !.kind = "cron", !.armed = now, !.alone = On(g) = {}]]
    /\ UNCHANGED <<file, current, src, context, mail, admin, time, built>>

\* A scheduler tick: upgrade the weak reference, then invoke; a job never overlaps itself.
invoke_cron(e) ==
  \E g \in cron :
    /\ strong[g] > 0 /\ ~\E x \in On(g) : entry[x].kind = "cron"
    /\ Enter(e, g, "cron")

\* Faulty variant: drivers without a `finally`.
DriverKeepsRequest(g, e) == request[g]

\* The `finally` of the before and after drivers; routes and cron jobs have none.
driver_finally(g, e) == IF entry[e].kind \in {"before", "after"} THEN Nobody ELSE request[g]

\* The context is free: the before and after drivers set $app.request.
Lock(e) ==
  LET g == entry[e].g
      r == IF entry[e].kind \in {"before", "after"} THEN e ELSE request[g] IN
  /\ At(e, "wait") /\ holder[g] = Nobody
  /\ holder' = [holder EXCEPT ![g] = e] /\ request' = [request EXCEPT ![g] = r]
  /\ entry' = [entry EXCEPT ![e].pc = "js", ![e].seen = r]
  /\ UNCHANGED <<file, current, src, refs, deadline, cut, mail, admin, time, built, left>>

\* The handlers return, or one throws (a veto, a 500, or an error that is collected).
Return(e) ==
  LET g == entry[e].g IN
  /\ At(e, "js") /\ Step(e, "leave")
  /\ holder' = [holder EXCEPT ![g] = Nobody]
  /\ request' = [request EXCEPT ![g] = driver_finally(g, e)]
  /\ UNCHANGED <<file, current, src, refs, deadline, cut, mail, admin, time, built, left>>

\* The interrupt: not catchable in JavaScript, so no `finally` runs; the error becomes Timeout.
Interrupt(e) ==
  LET g == entry[e].g IN
  /\ At(e, "js") /\ deadline_crossed(g) /\ Step(e, "leave")
  /\ holder' = [holder EXCEPT ![g] = Nobody]
  /\ cut' = IF entry[e].kind \in {"before", "after"} THEN cut \cup {g} ELSE cut
  /\ UNCHANGED <<file, current, src, refs, deadline, request, mail, admin, time, built, left>>

\* The guard's drop disarms whatever deadline is there; then the Arc goes.
Leave(e) ==
  LET g == entry[e].g IN
  /\ At(e, "leave") /\ disarm(g) /\ Release(g)
  /\ entry' = [Crowd(g, e) EXCEPT ![e] = Out]
  /\ UNCHANGED <<file, current, src, holder, request, cut, mail, admin, time, built, left>>

-----------------------------------------------------------------------------
(* Native calls block the entry, with the context held. *)

\* The callback blocks its thread until the bridge answers.
Block(e) ==
  /\ At(e, "js") /\ HasHandlers(entry[e].g) /\ Step(e, "native")
  /\ Spend("calls")
  /\ UNCHANGED <<file, current, src, refs, context, mail, admin, time, built>>

\* $app.records.*, whose statements are those of Records,
CallRecords(e) == Block(e)
\* $app.audit.write, which appends to the app's audit log: a malformed entry throws at once,
Argument == {"well-formed", "malformed"}
write(arg) == arg = "well-formed"
CallAudit(e, arg) == write(arg) /\ Block(e)
\* and $app.fetch: a malformed URL or a host that is not on the allowlist does, too.
Host == {"listed", "other"}
host_allowed(h) == h = "listed"
fetch(arg) == arg = "well-formed"
CallFetch(e, arg, h) == fetch(arg) /\ host_allowed(h) /\ Block(e)

\* The answer, or an error (a statement's, a timeout) that is thrown into the handler.
NativeReturns(e) ==
  /\ At(e, "native") /\ Step(e, "js")
  /\ UNCHANGED <<file, current, src, refs, context, mail, admin, time, built, left>>

\* The callback blocks on QuotedMailer::send, which takes today's date and reads the quota.
register_mailer_native(e) == entry' = [entry EXCEPT ![e].pc = "reserve", ![e].day = day]

\* $app.mailer.send, after its before-send handlers.
MailerSend(e) ==
  /\ At(e, "js") /\ HasHandlers(entry[e].g)
  /\ register_mailer_native(e) /\ Spend("mails")
  /\ UNCHANGED <<file, current, src, refs, context, mail, admin, time, built>>

current_quota == quota
Charge(e) == count[entry[e].g][entry[e].day]

\* Reserve a slot of that day, or reject.
Reserve(e) ==
  LET g == entry[e].g  d == entry[e].day IN
  /\ At(e, "reserve")
  /\ IF current_quota # NoQuota /\ Charge(e) + 1 > current_quota
     THEN Step(e, "js") /\ UNCHANGED count
     ELSE Step(e, "send") /\ count' = [count EXCEPT ![g][d] = @ + 1]
  /\ UNCHANGED <<file, current, src, refs, context, sent, admin, time, built, left>>

\* Faulty variant: the slot is given back when the send is over, whatever came of it.
RefundAlways(e) ==
  LET g == entry[e].g  d == entry[e].day IN
  /\ At(e, "send") /\ Step(e, "js")
  /\ sent' = [sent EXCEPT ![g][d] = @ + 1]
  /\ count' = [count EXCEPT ![g][d] = @ - 1]
  /\ UNCHANGED <<file, current, src, refs, context, admin, time, built, left>>

\* The transport confirms that it took the mail,
Delivered(e) ==
  LET g == entry[e].g  d == entry[e].day IN
  /\ At(e, "send") /\ Step(e, "js")
  /\ sent' = [sent EXCEPT ![g][d] = @ + 1]
  /\ UNCHANGED <<file, current, src, refs, context, count, admin, time, built, left>>

\* or answers with an error, after which the mail may still be under way: the slot of the day
\* it was charged to is refunded.
SendFails(e) ==
  LET g == entry[e].g  d == entry[e].day IN
  /\ At(e, "send") /\ Step(e, "js")
  /\ count' = [count EXCEPT ![g][d] = IF @ > 0 THEN @ - 1 ELSE @]
  /\ UNCHANGED <<file, current, src, refs, context, sent, admin, time, built, left>>

-----------------------------------------------------------------------------
(* Loading and reloading. *)

IsFree(a) == admin[a].pc = "idle"
Go(a, pc, g) == admin' = [admin EXCEPT ![a] = [pc |-> pc, g |-> g]]

\* No separators, no dotfiles, .js or .ts.
Name == {"main.js", ".js", "../main.js", "main.txt"}
validate_filename(n) == n = "main.js"

\* PUT hooks/:filename writes the file in place, then reloads;
Put(a, n, s) ==
  /\ validate_filename(n)
  /\ IsFree(a) /\ Spend("loads") /\ file' = s /\ Go(a, "load", 0)
  /\ UNCHANGED <<current, src, refs, context, mail, entry, time, built>>

\* DELETE removes it, 404 without one, then reloads;
Delete(a, n) ==
  /\ validate_filename(n)
  /\ IsFree(a) /\ Spend("loads") /\ file # Absent /\ file' = Absent /\ Go(a, "load", 0)
  /\ UNCHANGED <<current, src, refs, context, mail, entry, time, built>>

\* POST reload, the start of the server and the creation of the app only load.
Reload(a) ==
  /\ IsFree(a) /\ Spend("loads") /\ Go(a, "load", 0)
  /\ UNCHANGED <<file, current, src, refs, context, mail, entry, time, built>>

\* A new generation, a mailer with no counts, and the file as it is now.
load_dir(a) ==
  LET g == built + 1 IN
  /\ admin[a].pc = "load" /\ built < MaxGen /\ built' = g
  /\ src' = [src EXCEPT ![g] = eval(file)]
  /\ Clone(g) /\ Go(a, "crons", g)
  /\ UNCHANGED <<file, current, context, mail, entry, time, left>>

\* Faulty variant: the task keeps the generation it serves alive.
StartCronsStrong(a) ==
  LET g == admin[a].g
      s == PendingCron(g) /\ ValidExpression(g) IN
  /\ admin[a].pc = "crons" /\ Go(a, "insert", g)
  /\ cron' = IF s THEN cron \cup {g} ELSE cron
  /\ strong' = IF s THEN [strong EXCEPT ![g] = @ + 1] ELSE strong
  /\ UNCHANGED <<file, current, src, context, mail, entry, time, built, left>>

\* One task per job with a valid expression, holding a weak reference.
start_cron_tasks(a) ==
  LET g == admin[a].g IN
  /\ admin[a].pc = "crons" /\ Go(a, "insert", g)
  /\ cron' = IF PendingCron(g) /\ ValidExpression(g) THEN cron \cup {g} ELSE cron
  /\ UNCHANGED <<file, current, src, strong, context, mail, entry, time, built, left>>

\* A schedule without another date ends its task, between two jobs.
ScheduleEnds(g) ==
  /\ g \in cron /\ ~\E x \in On(g) : entry[x].kind = "cron"
  /\ cron' = cron \ {g} /\ src' = [src EXCEPT ![g] = "over"]
  /\ UNCHANGED <<file, current, strong, context, mail, entry, admin, time, built, left>>

\* The load's reference moves into the map; the one it replaces is dropped.
load_app_with(a) ==
  /\ admin[a].pc = "insert" /\ current' = admin[a].g
  /\ Drop([g \in Gen |-> IF g = current THEN strong[g] - 1 ELSE strong[g]])
  /\ Go(a, "get", 0)
  /\ UNCHANGED <<file, src, context, mail, entry, time, built, left>>

\* reload_app then asks the map again, which may name another load's generation by now,
reload_app(a) ==
  /\ admin[a].pc = "get" /\ Clone(current) /\ Go(a, "drain", current)
  /\ UNCHANGED <<file, current, src, context, mail, entry, time, built, left>>

\* and drains the errors collected there, waiting for its context.
drain_errors(a) ==
  LET g == admin[a].g IN
  /\ admin[a].pc = "drain" /\ holder[g] = Nobody
  /\ Release(g) /\ Go(a, "idle", 0)
  /\ UNCHANGED <<file, current, src, context, mail, entry, time, built, left>>

-----------------------------------------------------------------------------
(* Time. *)

\* No tick passes while JavaScript that is over the armed deadline runs.
Tick ==
  /\ Spend("ticks") /\ now' = now + 1
  /\ \A e \in Entry : At(e, "js") => ~deadline_crossed(entry[e].g)
  /\ entry' = [e \in Entry |->
       IF At(e, "js") /\ now >= entry[e].armed + Budget THEN [entry[e] EXCEPT !.late = TRUE] ELSE entry[e]]
  /\ UNCHANGED <<file, current, src, refs, context, mail, admin, day, quota, built>>

\* Midnight, UTC.
NextDay ==
  /\ Spend("days") /\ day < MaxDay /\ day' = day + 1
  /\ UNCHANGED <<file, current, src, refs, context, mail, entry, admin, now, quota, built>>

HNext ==
  \/ \E e \in Entry :
       \/ dispatch(e) \/ run_before(e) \/ handle(e) \/ invoke_cron(e)
       \/ Lock(e) \/ Return(e) \/ Interrupt(e) \/ Leave(e)
       \/ CallRecords(e) \/ NativeReturns(e)
       \/ (\E arg \in Argument : CallAudit(e, arg) \/ \E h \in Host : CallFetch(e, arg, h))
       \/ MailerSend(e) \/ Reserve(e) \/ Delivered(e) \/ SendFails(e)
  \/ \E a \in Admin :
       \/ \E n \in Name : (\E s \in Source : Put(a, n, s)) \/ Delete(a, n)
       \/ Reload(a) \/ load_dir(a) \/ start_cron_tasks(a) \/ load_app_with(a)
       \/ reload_app(a) \/ drain_errors(a)
  \/ \E g \in Gen : ScheduleEnds(g)
  \/ Tick \/ NextDay

HSpec == HInit /\ [][HNext]_hVars

-----------------------------------------------------------------------------

\* What a handler finds in $app.request is the request of its own dispatch, whoever entered,
\* left or reloaded meanwhile.  A cron job or a custom route finds nothing there, unless an
\* interrupt has cut an earlier dispatch of the generation before its `finally`.
RequestIsOwn ==
  \A e \in Entry : Running(e) =>
    IF entry[e].kind \in {"before", "after"}
    THEN entry[e].seen = e /\ request[entry[e].g] = e
    ELSE entry[e].seen = Nobody \/ entry[e].g \in cut

\* sandbox.rs: a budget for one entry.  Native calls aside, an entry runs no JavaScript past
\* its budget, provided no other entry of the generation armed or disarmed the shared deadline
\* between its own arm and its end (when one does, the entry may run on unbounded).
CpuBounded == \A e \in Entry : entry[e].pc # "out" /\ entry[e].alone => ~entry[e].late

\* Reloads never leak a scheduler and never stop the wrong one: a job runs only in the
\* generation in the map, in one being loaded or in one that a request or a reload still
\* uses, and the generation in the map runs the jobs its file registered until their
\* schedules run out.
SchedulersFollowTheMap ==
  /\ \A g \in cron : \/ g = current
                     \/ \E a \in Admin : admin[a].g = g
                     \/ On(g) # {}
  /\ current # 0 => (current \in cron) = ValidExpression(current)

\* The daily quota over failures, refunds and midnight: a generation never has more mail
\* confirmed on the account of one day than the quota allows, and its counter is what was
\* confirmed plus what is being sent.  (Every reload starts a new generation, with counters at
\* zero, and a mail whose confirmation got lost is refunded though it may arrive.)
QuotaHolds ==
  \A g \in Gen, d \in Day :
    /\ quota # NoQuota => sent[g][d] <= quota
    /\ count[g][d] = sent[g][d]
         + Cardinality({e \in Entry : At(e, "send") /\ entry[e].g = g /\ entry[e].day = d})

=============================================================================
