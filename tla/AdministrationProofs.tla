------------------------ MODULE AdministrationProofs ------------------------
(***************************************************************************)
(* What administrators may change while requests run: the policies of the   *)
(* master, its workspaces and their apps, and the hooks of an app.  The two *)
(* share no state; Spec is PolicyCascade's and HSpec is Hooks'.             *)
(*                                                                         *)
(* Policies: what PolicySpec::allows and PolicySpec::clamp promise, and      *)
(* what the cascade makes of it, for any number of workspaces and apps.     *)
(* Hooks: for any number of entries, administrators, generations and days,  *)
(* dispatches see their own request, an entry alone with its deadline keeps *)
(* its budget, schedulers follow the map, and mail stays within the quota.  *)
(***************************************************************************)
EXTENDS PolicyCascade, Hooks, FiniteSetTheorems, TLAPS

(* Policies. *)

USE DEF AllowsRange, AllowsToggle, AllowsEnumSet, ClampToggle, ClampEnumSet

\* i64 bounds are only ever compared, so any integers will do.
RangeSpec == [kind : {"range"}, min : Int, max : Int]

AllowList == [kind : {"enum_set"}, allowed : SUBSET STRING]

Toggle == [kind : {"toggle"}, locked : BOOLEAN, value : BOOLEAN]

\* The knobs for which each level narrows the one above.
Narrowing(s) == s \in RangeSpec \/ s \in AllowList \/ s.kind = "free"

AnySpec(s) == Narrowing(s) \/ s \in Toggle

\* A bound is usable if it is not a range read from JSON with min > max.
Upright(s) == s.kind = "range" => s.min <= s.max

\* allows is transitive on narrowing knobs, so checking an app against the
\* nearest level above it (validate_chain's windows of two) holds it to every
\* level above; a toggle breaks this (TogglesAreNotTransitive).
THEOREM AllowsIsTransitive ==
  ASSUME NEW p, NEW c, NEW d, Narrowing(p), Narrowing(c), Narrowing(d),
         allows(p, c), allows(c, d)
  PROVE  allows(p, d)
<1>1. CASE p.kind = "range"
  <2>1. p \in RangeSpec /\ c \in RangeSpec /\ d \in RangeSpec
    BY <1>1 DEF Narrowing, allows, RangeSpec, AllowList
  <2>2. c.min >= p.min /\ c.max <= p.max /\ d.min >= c.min /\ d.max <= c.max /\ d.min <= d.max
    BY <1>1, <2>1 DEF allows, RangeSpec
  <2>3. d.min >= p.min /\ d.max <= p.max
    BY <2>1, <2>2 DEF RangeSpec
  <2> QED  BY <1>1, <2>1, <2>2, <2>3 DEF allows, RangeSpec
<1>2. CASE p.kind = "enum_set"
  <2>1. p \in AllowList /\ c \in AllowList /\ d \in AllowList
    BY <1>2 DEF Narrowing, allows, RangeSpec, AllowList
  <2>2. c.allowed \subseteq p.allowed /\ d.allowed \subseteq c.allowed
    BY <1>2, <2>1 DEF allows, AllowList
  <2> QED  BY <1>2, <2>1, <2>2 DEF allows, AllowList
<1>3. CASE p.kind = "free"
  BY <1>3 DEF Narrowing, allows, RangeSpec, AllowList
<1> QED  BY <1>1, <1>2, <1>3 DEF Narrowing, RangeSpec, AllowList

\* Toggles are not: below a master locked to some value an open workspace of that
\* value is allowed, and below the workspace an app with the other value, which the
\* master does not allow ("Locked: Children must use this value").
THEOREM TogglesAreNotTransitive ==
  \A v \in BOOLEAN : \E p, c, d \in Toggle :
    p.locked /\ p.value = v /\ allows(p, c) /\ allows(c, d) /\ ~allows(p, d)
<1> TAKE v \in BOOLEAN
<1> DEFINE p == TogglePolicy(TRUE, v)
           c == TogglePolicy(FALSE, v)
           d == TogglePolicy(FALSE, ~v)
<1>1. p \in Toggle /\ c \in Toggle /\ d \in Toggle
  BY DEF Toggle, TogglePolicy
<1>2. p.locked /\ p.value = v /\ allows(p, c) /\ allows(c, d) /\ ~allows(p, d)
  BY DEF allows, TogglePolicy
<1> QED  BY <1>1, <1>2

\* The contract in clamp's comment, "a refinement that satisfies
\* self.allows(...)": for two specs of one kind and a parent that is not an
\* inverted range, the cascade leaves the child within its parent.
THEOREM ClampFits ==
  ASSUME NEW p, NEW c, AnySpec(p), AnySpec(c), p.kind = c.kind, Upright(p)
  PROVE  allows(p, clamp(p, c))
<1>1. CASE p.kind = "range"
  <2>1. p \in RangeSpec /\ c \in RangeSpec
    BY <1>1 DEF AnySpec, Narrowing, RangeSpec, AllowList, Toggle
  <2>2. p.min \in Int /\ p.max \in Int /\ c.min \in Int /\ c.max \in Int /\ p.min <= p.max
    BY <1>1, <2>1 DEF RangeSpec, Upright
  <2>3. clamp(p, c) = ClampRange(p, c)
    BY <1>1 DEF clamp
  <2>4. PICK lo \in Int, hi \in Int :
          /\ ClampRange(p, c) = [kind |-> "range", min |-> lo, max |-> hi]
          /\ lo >= p.min /\ hi <= p.max /\ lo <= hi
    BY <2>2 DEF ClampRange, RangePolicy
  <2> QED  BY <1>1, <2>3, <2>4 DEF allows
<1>2. CASE p.kind = "enum_set"
  BY <1>2 DEF AnySpec, Narrowing, RangeSpec, AllowList, Toggle, allows, clamp, EnumSetPolicy
<1>3. CASE p.kind = "free"
  BY <1>3 DEF allows, clamp
<1>4. CASE p.kind = "toggle"
  <2>1. p \in Toggle /\ c \in Toggle
    BY <1>4 DEF AnySpec, Narrowing, RangeSpec, AllowList, Toggle
  <2>2. CASE p.locked
    BY <1>4, <2>1, <2>2 DEF allows, clamp, TogglePolicy, Toggle
  <2>3. CASE ~p.locked
    BY <1>4, <2>1, <2>3 DEF allows, clamp, Toggle
  <2> QED  BY <2>2, <2>3
<1> QED  BY <1>1, <1>2, <1>3, <1>4 DEF AnySpec, Narrowing, RangeSpec, AllowList, Toggle

\* "Both are idempotent: if a stored value already fits, nothing is changed"
\* (policy_engine.rs), in the form a retried cascade needs: clamping a clamped
\* narrowing spec once more gives it back.
THEOREM ClampIsIdempotent ==
  ASSUME NEW p, NEW c, AnySpec(p), AnySpec(c), p.kind = c.kind, Upright(p)
  PROVE  clamp(p, clamp(p, c)) = clamp(p, c)
<1>1. CASE p.kind = "range"
  <2>1. p \in RangeSpec /\ c \in RangeSpec
    BY <1>1 DEF AnySpec, Narrowing, RangeSpec, AllowList, Toggle
  <2>2. p.min \in Int /\ p.max \in Int /\ c.min \in Int /\ c.max \in Int /\ p.min <= p.max
    BY <1>1, <2>1 DEF RangeSpec, Upright
  <2>3. clamp(p, c) = ClampRange(p, c)
    BY <1>1 DEF clamp
  <2>4. PICK lo \in Int, hi \in Int :
          /\ ClampRange(p, c) = [kind |-> "range", min |-> lo, max |-> hi]
          /\ lo >= p.min /\ hi <= p.max /\ lo <= hi
    BY <2>2 DEF ClampRange, RangePolicy
  <2> DEFINE d == [kind |-> "range", min |-> lo, max |-> hi]
  <2>5. d.kind = "range" /\ d.min = lo /\ d.max = hi
    OBVIOUS
  <2>6. clamp(p, d) = ClampRange(p, d)
    BY <1>1, <2>5 DEF clamp
  <2> HIDE DEF d
  <2>7. ClampRange(p, d) = RangePolicy(lo, hi)
    BY <2>2, <2>4, <2>5 DEF ClampRange
  <2> QED  BY <2>3, <2>4, <2>6, <2>7 DEF RangePolicy, d
<1>2. CASE p.kind = "enum_set"
  <2>1. clamp(p, c) = EnumSetPolicy(c.allowed \cap p.allowed)
    BY <1>2 DEF clamp
  <2> DEFINE d == EnumSetPolicy(c.allowed \cap p.allowed)
  <2>2. d.kind = "enum_set" /\ d.allowed = c.allowed \cap p.allowed
    BY DEF EnumSetPolicy
  <2>3. d.allowed \cap p.allowed = d.allowed
    BY <2>2
  <2>4. clamp(p, d) = EnumSetPolicy(d.allowed \cap p.allowed)
    BY <1>2, <2>2 DEF clamp
  <2> QED  BY <2>1, <2>2, <2>3, <2>4 DEF EnumSetPolicy
<1>3. CASE p.kind = "free"
  BY <1>3 DEF clamp
<1>4. CASE p.kind = "toggle"
  BY <1>4 DEF clamp, TogglePolicy
<1> QED  BY <1>1, <1>2, <1>3, <1>4 DEF AnySpec, Narrowing, RangeSpec, AllowList, Toggle

-----------------------------------------------------------------------------
(* The chain over whole behaviours, for one knob and PUTs that do not overlap. *)

Knob(s) == Narrowing(s) /\ Upright(s)

\* The admins of one field send specs of one kind, and no toggles.
OneKnob(F) == (\A s \in F : Knob(s)) /\ \A s, t \in F : s.kind = t.kind

KindOf(F) == CHOOSE k : \A s \in F : s.kind = k

\* What may come to be stored: clamping can leave the family but not its kind.
Sort(F) == {s \in F \cup RangeSpec \cup AllowList : Knob(s) /\ s.kind = KindOf(F)}

\* All that the cascade needs to know of allows and clamp.
LEMMA SortFacts ==
  ASSUME NEW F
  PROVE  /\ NoPolicy \notin Sort(F)
         /\ \A p \in Sort(F) : allows(p, p)
         /\ \A p, c, d \in Sort(F) : allows(p, c) /\ allows(c, d) => allows(p, d)
         /\ \A p, c \in Sort(F) : clamp(p, c) \in Sort(F) /\ allows(p, clamp(p, c))
<1>1. NoPolicy \notin Sort(F)
  BY DEF Sort, Knob, Narrowing, NoPolicy, RangeSpec, AllowList
<1>2. ASSUME NEW p \in Sort(F) PROVE allows(p, p)
  BY <1>2 DEF Sort, Knob, Narrowing, Upright, RangeSpec, AllowList, allows
<1>3. ASSUME NEW p \in Sort(F), NEW c \in Sort(F), NEW d \in Sort(F), allows(p, c), allows(c, d)
      PROVE  allows(p, d)
  BY <1>3, AllowsIsTransitive DEF Sort, Knob
<1>4. ASSUME NEW p \in Sort(F), NEW c \in Sort(F) PROVE clamp(p, c) \in Sort(F) /\ allows(p, clamp(p, c))
  <2>1. p.kind = c.kind /\ p.kind = KindOf(F) /\ Knob(p) /\ Knob(c)
    BY <1>4 DEF Sort
  <2>2. allows(p, clamp(p, c))
    BY <2>1, ClampFits DEF Knob, AnySpec
  <2>3. CASE p.kind = "range"
    <3>1. p \in RangeSpec /\ c \in RangeSpec
      BY <2>1, <2>3 DEF Knob, Narrowing, RangeSpec, AllowList
    <3>2. p.min \in Int /\ p.max \in Int /\ c.min \in Int /\ c.max \in Int /\ p.min <= p.max
      BY <2>1, <2>3, <3>1 DEF RangeSpec, Knob, Upright
    <3>3. clamp(p, c) = ClampRange(p, c)
      BY <2>1, <2>3 DEF clamp
    <3>4. PICK lo \in Int, hi \in Int :
            ClampRange(p, c) = [kind |-> "range", min |-> lo, max |-> hi] /\ lo <= hi
      BY <3>2 DEF ClampRange, RangePolicy
    <3> DEFINE d == [kind |-> "range", min |-> lo, max |-> hi]
    <3>5. d \in RangeSpec /\ d.kind = "range" /\ Knob(d)
      BY <3>4 DEF RangeSpec, Knob, Narrowing, Upright
    <3> QED BY <2>1, <2>2, <2>3, <3>3, <3>4, <3>5 DEF Sort
  <2>4. CASE p.kind = "enum_set"
    <3>1. p \in AllowList /\ c \in AllowList
      BY <2>1, <2>4 DEF Knob, Narrowing, RangeSpec, AllowList
    <3> DEFINE d == [kind |-> "enum_set", allowed |-> c.allowed \cap p.allowed]
    <3>2. d \in AllowList /\ d.kind = "enum_set"
      BY <3>1 DEF AllowList
    <3>3. clamp(p, c) = d
      BY <2>1, <2>4 DEF clamp, EnumSetPolicy
    <3>4. Knob(d)
      BY <3>2 DEF Knob, Narrowing, Upright
    <3> QED BY <2>1, <2>2, <2>4, <3>2, <3>3, <3>4 DEF Sort
  <2>5. CASE p.kind = "free"
    BY <1>4, <2>1, <2>2, <2>5 DEF clamp
  <2> QED BY <2>1, <2>3, <2>4, <2>5 DEF Knob, Narrowing, RangeSpec, AllowList
<1> QED BY <1>1, <1>2, <1>3, <1>4

\* A field's specs are of its sort.
LEMMA FamilySort ==
  ASSUME NEW F, OneKnob(F)
  PROVE  F \subseteq Sort(F)
<1>1. \E k : \A s \in F : s.kind = k
  <2>1. CASE F = {}
    BY <2>1
  <2>2. CASE F # {}
    <3>1. PICK t : t \in F
      BY <2>2
    <3> QED BY <3>1 DEF OneKnob
  <2> QED BY <2>1, <2>2
<1>2. \A s \in F : s.kind = KindOf(F)
  BY <1>1 DEF KindOf
<1> QED BY <1>2 DEF OneKnob, Sort

\* Two levels agree unless one of them stores nothing.
Fits(p, c) == p = NoPolicy \/ c = NoPolicy \/ allows(p, c)

\* The levels a running cascade has not yet held to its bound.
Clamping(h, n) == h.pc = "clamp" /\ h.node = n
Loose(h) == {n \in Node : (h.pc \in {"sweep", "clamp"} /\ n \in h.apps) \/ Clamping(h, n)}

\* Every app is within both levels above it and every workspace within the master,
\* but for the apps in L, which may not fit their workspace.  Stronger than what
\* validate_chain asks: an app is held to the master across a workspace that is set.
Chained(L, P) ==
  /\ \A w \in Workspace : Fits(P[Master], P[w])
  /\ \A a \in App : Fits(P[Master], P[a]) /\ (a \notin L => Fits(P[Home[a]], P[a]))

\* What a PUT below the master knows, about the levels P it runs on: what it validated
\* still fits what is above it, since meanwhile a level can only have been deleted.
Partial(h, P, S) ==
  /\ h.wss = {}
  /\ h.pc = "idle" => h = Idle
  /\ h.pc = "chain" =>
       h.node \in App /\ h.apps = {} /\ h.spec \in S /\ h.after = h.spec /\ P[Master] \in {h.top, NoPolicy}
  /\ h.pc = "put" =>
       /\ h.after \in S /\ Fits(P[Master], h.after)
       /\ \/ h.node \in App /\ h.apps = {} /\ Fits(P[Home[h.node]], h.after)
          \/ h.node \in Workspace /\ h.apps = AppsOf(h.node) /\ h.bound = h.after
  /\ Loose(h) # {} => h.bound \in S /\ Fits(P[Master], h.bound)
  /\ \A n \in Loose(h) : n \in App /\ P[Home[n]] \in {h.bound, NoPolicy}
  /\ h.pc = "clamp" => h.after \in S /\ allows(h.bound, h.after)

\* What a master PUT knows, however the levels stood before it: those it has passed fit.
Whole(h, P, S) ==
  /\ h.pc \in {"sweep", "clamp"}
  /\ h.spec \in S /\ P[Master] \in {h.spec, NoPolicy}
  /\ Loose(h) # {} => h.bound \in S /\ allows(h.spec, h.bound)
  /\ h.pc = "clamp" => /\ h.after \in S /\ allows(h.bound, h.after)
                       /\ h.node \in (Workspace \ h.wss) \cup App
  /\ h.pc = "clamp" /\ h.node \in Workspace => h.apps = AppsOf(h.node) /\ h.after = h.bound
  /\ \A a \in Loose(h) \cap App :
       Home[a] \notin h.wss /\ (P[Home[a]] \in {h.bound, NoPolicy} \/ Clamping(h, Home[a]))
  /\ \A w \in Workspace \ h.wss : Clamping(h, w) \/ Fits(h.spec, P[w])
  /\ \A a \in App \ Loose(h) :
       Home[a] \notin h.wss => Fits(h.spec, P[a]) /\ Fits(P[Home[a]], P[a])

RequestInv(h, P, S, t) ==
  /\ P \in [Node -> S \cup {NoPolicy}]
  /\ h \in Request(S \cup {NoPolicy})
  /\ h.whole => Whole(h, P, S)
  /\ ~h.whole => Partial(h, P, S) /\ (~t => Chained(Loose(h), P))

IInv ==
  /\ family \subseteq Sort(family) /\ torn \in BOOLEAN
  /\ DOMAIN req = Req /\ req = [r \in Req |-> req[r]]
  /\ \A r \in Req : RequestInv(req[r], pol, Sort(family), torn)

-----------------------------------------------------------------------------

\* validate_chain on the two and three levels it is called with.
LEMMA ValidateTwo ==
  ASSUME NEW p, NEW c
  PROVE  validate_chain(<<p, c>>) <=> Fits(p, c)
<1> DEFINE s == <<p, c>>
<1>1. DOMAIN s = 1..2 /\ s[1] = p /\ s[2] = c
  OBVIOUS
<1> HIDE DEF s
<1>2. ASSUME validate_chain(s) PROVE Fits(p, c)
  <2>1. \A k \in (1 + 1)..(2 - 1) : s[k] = NoPolicy
    OBVIOUS
  <2>2. 1 \in DOMAIN s /\ 2 \in DOMAIN s /\ 1 < 2
    BY <1>1
  <2> QED BY <1>1, <1>2, <2>1, <2>2 DEF validate_chain, Fits
<1>3. ASSUME Fits(p, c) PROVE validate_chain(s)
  <2> SUFFICES ASSUME NEW i \in DOMAIN s, NEW j \in DOMAIN s, i < j,
                      s[i] # NoPolicy, s[j] # NoPolicy
               PROVE  allows(s[i], s[j])
    BY DEF validate_chain
  <2>1. i = 1 /\ j = 2
    BY <1>1
  <2> QED BY <1>1, <1>3, <2>1 DEF Fits
<1> QED BY <1>2, <1>3 DEF s

LEMMA ValidateThree ==
  ASSUME NEW p, NEW c, NEW d
  PROVE  validate_chain(<<p, c, d>>) <=> Fits(p, c) /\ Fits(c, d) /\ (c = NoPolicy => Fits(p, d))
<1> DEFINE s == <<p, c, d>>
<1>1. DOMAIN s = 1..3 /\ s[1] = p /\ s[2] = c /\ s[3] = d
  OBVIOUS
<1> HIDE DEF s
<1>2. ASSUME validate_chain(s) PROVE Fits(p, c) /\ Fits(c, d) /\ (c = NoPolicy => Fits(p, d))
  <2>1. /\ \A k \in (1 + 1)..(2 - 1) : s[k] = NoPolicy
        /\ \A k \in (2 + 1)..(3 - 1) : s[k] = NoPolicy
        /\ c = NoPolicy => \A k \in (1 + 1)..(3 - 1) : s[k] = NoPolicy
    BY <1>1
  <2>2. 1 \in DOMAIN s /\ 2 \in DOMAIN s /\ 3 \in DOMAIN s /\ 1 < 2 /\ 2 < 3 /\ 1 < 3
    BY <1>1
  <2>3. Fits(p, c)
    BY <1>1, <1>2, <2>1, <2>2 DEF validate_chain, Fits
  <2>4. Fits(c, d)
    BY <1>1, <1>2, <2>1, <2>2 DEF validate_chain, Fits
  <2>5. c = NoPolicy => Fits(p, d)
    BY <1>1, <1>2, <2>1, <2>2 DEF validate_chain, Fits
  <2> QED BY <2>3, <2>4, <2>5
<1>3. ASSUME Fits(p, c), Fits(c, d), c = NoPolicy => Fits(p, d) PROVE validate_chain(s)
  <2> SUFFICES ASSUME NEW i \in DOMAIN s, NEW j \in DOMAIN s, i < j,
                      s[i] # NoPolicy, s[j] # NoPolicy,
                      \A k \in (i + 1)..(j - 1) : s[k] = NoPolicy
               PROVE  allows(s[i], s[j])
    BY DEF validate_chain
  <2>1. (i = 1 /\ j = 2) \/ (i = 2 /\ j = 3) \/ (i = 1 /\ j = 3)
    BY <1>1
  <2>2. i = 1 /\ j = 3 => c = NoPolicy
    BY <1>1
  <2> QED BY <1>1, <1>3, <2>1, <2>2 DEF Fits
<1> QED BY <1>2, <1>3 DEF s

\* The request is replaced by one that knows as much.
LEMMA ReplaceInv ==
  ASSUME NEW r, Req = {r}, IInv, NEW h, req' = [req EXCEPT ![r] = h], UNCHANGED family, torn' \in BOOLEAN,
         RequestInv(h, pol', Sort(family), torn')
  PROVE  IInv'
<1>1. req'[r] = h /\ DOMAIN req' = Req /\ req' = [q \in Req |-> req'[q]]
  BY DEF IInv
<1> QED BY <1>1 DEF IInv

\* A request that has nothing left to do has put the levels back in order.
LEMMA ProceedInv ==
  ASSUME NEW r, Req = {r}, IInv, NEW h, Proceed(r, h), UNCHANGED family,
         RequestInv(h, pol', Sort(family), torn)
  PROVE  IInv' /\ (h.whole /\ req'[r] = Idle => Chained({}, pol') /\ \A n \in Workspace \cup App : Fits(h.spec, pol'[n]))
<1>1. Idle \in Request(Sort(family) \cup {NoPolicy}) /\ Idle.pc = "idle" /\ Idle.whole = FALSE /\ Idle.wss = {}
  BY DEF Idle, Request, Node
<1>2. Partial(Idle, pol', Sort(family)) /\ Loose(Idle) = {}
  BY <1>1 DEF Partial, Loose, Clamping
<1>3. h.whole \in BOOLEAN /\ torn \in BOOLEAN /\ DOMAIN req = Req /\ pol' \in [Node -> Sort(family) \cup {NoPolicy}]
  BY DEF RequestInv, Request, IInv
<1>4. CASE h.pc = "sweep" /\ h.wss = {} /\ h.apps = {}
  <2>1. req' = [req EXCEPT ![r] = Idle] /\ torn' = (torn /\ ~h.whole)
    BY <1>4 DEF Proceed
  <2>2. Loose(h) = {}
    BY <1>4 DEF Loose, Clamping
  <2>3. CASE h.whole
    <3>1. Whole(h, pol', Sort(family)) /\ torn' = FALSE
      BY <1>3, <2>1, <2>3 DEF RequestInv
    <3>2. \A w \in Workspace : Fits(h.spec, pol'[w])
      BY <1>4, <3>1 DEF Whole, Clamping
    <3>3. \A a \in App : Fits(h.spec, pol'[a]) /\ Fits(pol'[Home[a]], pol'[a])
      BY <1>4, <2>2, <3>1 DEF Whole
    <3>4. \A w \in Workspace \cup App : Fits(pol'[Master], pol'[w])
      BY <3>1, <3>2, <3>3 DEF Whole, Fits
    <3>5. Chained({}, pol')
      BY <3>2, <3>3, <3>4 DEF Chained
    <3>6. RequestInv(Idle, pol', Sort(family), torn')
      BY <1>1, <1>2, <1>3, <3>5 DEF RequestInv
    <3> QED BY <2>1, <3>1, <3>2, <3>3, <3>5, <3>6, ReplaceInv
  <2>4. CASE ~h.whole
    <3>1. torn' = torn
      BY <1>3, <2>1, <2>4
    <3>2. RequestInv(Idle, pol', Sort(family), torn')
      BY <1>1, <1>2, <1>3, <2>2, <2>4, <3>1 DEF RequestInv
    <3> QED BY <1>3, <2>1, <2>4, <3>1, <3>2, ReplaceInv
  <2> QED BY <1>3, <2>3, <2>4
<1>5. CASE ~(h.pc = "sweep" /\ h.wss = {} /\ h.apps = {})
  <2>1. req' = [req EXCEPT ![r] = h] /\ torn' = torn
    BY <1>5 DEF Proceed
  <2>2. h.whole => req'[r] # Idle
    BY <1>1, <1>3, <2>1 DEF RequestInv
  <2> QED BY <1>3, <2>1, <2>2, ReplaceInv
<1> QED BY <1>4, <1>5

-----------------------------------------------------------------------------
(* One lemma per action. *)

LEMMA SystemPutInv ==
  ASSUME NEW r, Req = {r}, IInv, NEW s \in family, system_put(r, s)
  PROVE  IInv'
<1> DEFINE S == Sort(family)
           h == [Idle EXCEPT !.pc = "sweep", !.whole = TRUE, !.spec = s, !.wss = Workspace]
<1>1. Proceed(r, h) /\ pol' = [pol EXCEPT ![Master] = s] /\ UNCHANGED family
  BY DEF system_put
<1>2. s \in S /\ pol \in [Node -> S \cup {NoPolicy}]
  BY DEF IInv, RequestInv
<1>3. /\ h.pc = "sweep" /\ h.whole = TRUE /\ h.spec = s /\ h.wss = Workspace /\ h.apps = {}
      /\ h \in Request(S \cup {NoPolicy})
  BY <1>2 DEF Idle, Request, Node
<1>4. pol' \in [Node -> S \cup {NoPolicy}] /\ pol'[Master] = s
  BY <1>1, <1>2 DEF Node
<1> HIDE DEF h
<1>5. Loose(h) = {}
  BY <1>3 DEF Loose, Clamping
<1>6. Whole(h, pol', S)
  BY <1>2, <1>3, <1>4, <1>5, PolicyAssumption DEF Whole
<1>7. RequestInv(h, pol', S, torn)
  BY <1>3, <1>4, <1>6 DEF RequestInv
<1> QED BY <1>1, <1>7, ProceedInv

LEMMA WorkspacePutInv ==
  ASSUME NEW r, Req = {r}, IInv, NEW s \in family, NEW w \in Workspace, workspace_put(r, w, s)
  PROVE  IInv'
<1> DEFINE S == Sort(family)
           h == [Idle EXCEPT !.pc = "put", !.spec = s, !.bound = s, !.apps = AppsOf(w), !.node = w, !.after = s]
<1>1. /\ req[r] = Idle /\ req' = [req EXCEPT ![r] = h] /\ UNCHANGED <<pol, family, torn>>
      /\ Fits(pol[Master], s)
  BY ValidateTwo DEF workspace_put
<1>2. s \in S /\ pol \in [Node -> S \cup {NoPolicy}] /\ torn \in BOOLEAN /\ RequestInv(Idle, pol, S, torn)
  BY <1>1 DEF IInv, RequestInv
<1>3. /\ h.pc = "put" /\ h.whole = FALSE /\ h.wss = {} /\ h.apps = AppsOf(w) /\ h.node = w
      /\ h.after = s /\ h.bound = s
      /\ h \in Request(S \cup {NoPolicy})
  BY <1>2 DEF Idle, Request, Node, AppsOf
<1>4. Idle.whole = FALSE /\ Loose(Idle) = {}
  BY DEF Idle, Loose, Clamping
<1> HIDE DEF h
<1>5. Loose(h) = {}
  BY <1>3 DEF Loose, Clamping
<1>6. Partial(h, pol, S)
  BY <1>1, <1>2, <1>3, <1>5 DEF Partial
<1>7. RequestInv(h, pol, S, torn)
  BY <1>2, <1>3, <1>4, <1>5, <1>6 DEF RequestInv
<1> QED BY <1>1, <1>2, <1>7, ReplaceInv

LEMMA AppPutInv ==
  ASSUME NEW r, Req = {r}, IInv, NEW s \in family, NEW a \in App, app_put(r, a, s)
  PROVE  IInv'
<1> DEFINE S == Sort(family)
           h == [Idle EXCEPT !.pc = "chain", !.spec = s, !.top = pol[Master], !.node = a, !.after = s]
<1>1. req[r] = Idle /\ req' = [req EXCEPT ![r] = h] /\ UNCHANGED <<pol, family, torn>>
  BY DEF app_put
<1>2. s \in S /\ pol \in [Node -> S \cup {NoPolicy}] /\ torn \in BOOLEAN /\ RequestInv(Idle, pol, S, torn)
  BY <1>1 DEF IInv, RequestInv
<1>3. /\ h.pc = "chain" /\ h.whole = FALSE /\ h.wss = {} /\ h.apps = {} /\ h.node = a
      /\ h.after = s /\ h.spec = s /\ h.top = pol[Master]
      /\ h \in Request(S \cup {NoPolicy})
  BY <1>2 DEF Idle, Request, Node
<1>4. Idle.whole = FALSE /\ Loose(Idle) = {}
  BY DEF Idle, Loose, Clamping
<1> HIDE DEF h
<1>5. Loose(h) = {}
  BY <1>3 DEF Loose, Clamping
<1>6. Partial(h, pol, S)
  BY <1>1, <1>2, <1>3, <1>5 DEF Partial
<1>7. RequestInv(h, pol, S, torn)
  BY <1>2, <1>3, <1>4, <1>5, <1>6 DEF RequestInv
<1> QED BY <1>1, <1>2, <1>7, ReplaceInv

\* The request gives up: nothing it knew is needed.
LEMMA IdleInv ==
  ASSUME NEW r, Req = {r}, IInv, req' = [req EXCEPT ![r] = Idle], UNCHANGED <<pol, family>>, torn' \in BOOLEAN,
         ~torn' => ~torn /\ ~req[r].whole /\ Loose(req[r]) = {}
  PROVE  IInv'
<1>1. Idle \in Request(Sort(family) \cup {NoPolicy}) /\ Idle.pc = "idle" /\ Idle.whole = FALSE /\ Idle.wss = {}
  BY DEF Idle, Request, Node
<1>2. Partial(Idle, pol, Sort(family)) /\ Loose(Idle) = {}
  BY <1>1 DEF Partial, Loose, Clamping
<1>3. RequestInv(req[r], pol, Sort(family), torn)
  BY DEF IInv
<1>4. RequestInv(Idle, pol', Sort(family), torn')
  BY <1>1, <1>2, <1>3 DEF RequestInv
<1> QED BY <1>4, ReplaceInv

LEMMA AppChainInv ==
  ASSUME NEW r, Req = {r}, IInv, AppChain(r)
  PROVE  IInv'
<1> DEFINE S == Sort(family)
           q == req[r]
           h == [q EXCEPT !.pc = "put"]
<1>1. q.pc = "chain" /\ UNCHANGED <<pol, family, torn>> /\ torn \in BOOLEAN /\ RequestInv(q, pol, S, torn)
  BY DEF AppChain, IInv
<1>2. ~q.whole /\ Loose(q) = {}
  <2>1. ~Whole(q, pol, S)
    BY <1>1 DEF Whole
  <2> QED BY <1>1, <2>1 DEF RequestInv, Loose, Clamping
<1>3. /\ q \in Request(S \cup {NoPolicy}) /\ pol \in [Node -> S \cup {NoPolicy}]
      /\ Partial(q, pol, S) /\ (~torn => Chained({}, pol))
  BY <1>1, <1>2 DEF RequestInv
<1>4. CASE validate_chain(<<q.top, pol[Home[q.node]], q.spec>>)
  <2>1. req' = [req EXCEPT ![r] = h]
    BY <1>4 DEF AppChain, IInv
  <2>2. /\ h.pc = "put" /\ h.whole = q.whole /\ h.wss = q.wss /\ h.apps = q.apps /\ h.node = q.node
        /\ h.after = q.after /\ h \in Request(S \cup {NoPolicy})
    BY <1>3 DEF Request
  <2>3. /\ q.node \in App /\ q.spec \in S /\ q.after = q.spec /\ q.apps = {} /\ q.wss = {}
        /\ pol[Master] \in {q.top, NoPolicy}
    BY <1>1, <1>3 DEF Partial
  <2>4. /\ Fits(q.top, pol[Home[q.node]]) /\ Fits(pol[Home[q.node]], q.spec)
        /\ (pol[Home[q.node]] = NoPolicy => Fits(q.top, q.spec))
    BY <1>4, ValidateThree
  <2>5. q.top \in S \cup {NoPolicy} /\ pol[Home[q.node]] \in S \cup {NoPolicy}
    BY <1>3, <2>3, PolicyAssumption DEF Request, Node
  <2>6. Fits(q.top, q.spec)
    BY <2>3, <2>4, <2>5, SortFacts DEF Fits
  <2> HIDE DEF h
  <2>7. Loose(h) = {}
    BY <2>2 DEF Loose, Clamping
  <2>8. Fits(pol[Master], h.after) /\ Fits(pol[Home[h.node]], h.after)
    BY <2>2, <2>3, <2>4, <2>6 DEF Fits
  <2>9. Partial(h, pol, S)
    BY <2>2, <2>3, <2>7, <2>8 DEF Partial
  <2>10. RequestInv(h, pol, S, torn)
    BY <1>2, <1>3, <2>2, <2>7, <2>9 DEF RequestInv
  <2> QED BY <1>1, <2>1, <2>10, ReplaceInv
<1>5. CASE ~validate_chain(<<q.top, pol[Home[q.node]], q.spec>>)
  <2>1. req' = [req EXCEPT ![r] = Idle]
    BY <1>5 DEF AppChain, IInv
  <2> QED BY <1>1, <1>2, <2>1, IdleInv
<1> QED BY <1>4, <1>5

LEMMA AbandonInv ==
  ASSUME NEW r, Req = {r}, IInv, Abandon(r)
  PROVE  IInv'
<1>1. /\ req' = [req EXCEPT ![r] = Idle] /\ UNCHANGED <<pol, family>> /\ torn \in BOOLEAN
      /\ torn' = (torn \/ req[r].pc \in {"sweep", "clamp"}) /\ RequestInv(req[r], pol, Sort(family), torn)
  BY DEF Abandon, IInv
<1>2. ~torn' => ~torn /\ ~(req[r].pc \in {"sweep", "clamp"})
  BY <1>1
<1>3. torn' \in BOOLEAN
  BY <1>1
<1>4. ~(req[r].pc \in {"sweep", "clamp"}) => ~req[r].whole /\ Loose(req[r]) = {}
  BY <1>1 DEF RequestInv, Whole, Loose, Clamping
<1> QED BY <1>1, <1>2, <1>3, <1>4, IdleInv

LEMMA DeleteInv ==
  ASSUME NEW r, Req = {r}, IInv, NEW n \in Node, delete_policy(n)
  PROVE  IInv'
<1> DEFINE S == Sort(family)
           h == req[r]
<1>1. pol' = [pol EXCEPT ![n] = NoPolicy] /\ UNCHANGED <<family, req, torn>> /\ RequestInv(h, pol, S, torn)
  BY DEF delete_policy, IInv
<1>2. pol \in [Node -> S \cup {NoPolicy}] /\ pol' \in [Node -> S \cup {NoPolicy}]
  BY <1>1 DEF RequestInv
<1>3. \A m \in Node : pol'[m] \in {pol[m], NoPolicy}
  BY <1>1, <1>2
<1>4. /\ \A s : \A m \in Node : Fits(pol[m], s) => Fits(pol'[m], s)
      /\ \A s : \A m \in Node : Fits(s, pol[m]) => Fits(s, pol'[m])
  BY <1>3 DEF Fits
<1>5. \A m, k \in Node : Fits(pol[m], pol[k]) => Fits(pol'[m], pol'[k])
  BY <1>4
<1>6. Master \in Node /\ Workspace \subseteq Node /\ App \subseteq Node /\ \A a \in App : Home[a] \in Node
  BY PolicyAssumption DEF Node
<1>7. ASSUME Whole(h, pol, S) PROVE Whole(h, pol', S)
  BY <1>3, <1>4, <1>5, <1>6, <1>7 DEF Whole
<1>8. ASSUME Partial(h, pol, S) PROVE Partial(h, pol', S)
  <2>1. \A m \in Loose(h) : m \in App /\ pol'[Home[m]] \in {h.bound, NoPolicy}
    BY <1>3, <1>6, <1>8 DEF Partial
  <2>2. h.pc = "put" => Fits(pol'[Master], h.after) /\ (h.node \in App /\ Fits(pol[Home[h.node]], h.after) => Fits(pol'[Home[h.node]], h.after))
    BY <1>4, <1>6, <1>8 DEF Partial
  <2>3. Loose(h) # {} => Fits(pol'[Master], h.bound)
    BY <1>4, <1>6, <1>8 DEF Partial
  <2>4. h.pc = "chain" => pol'[Master] \in {h.top, NoPolicy}
    BY <1>3, <1>6, <1>8 DEF Partial
  <2> QED BY <1>8, <2>1, <2>2, <2>3, <2>4 DEF Partial
<1>9. ASSUME Chained(Loose(h), pol) PROVE Chained(Loose(h), pol')
  BY <1>5, <1>6, <1>9 DEF Chained
<1>10. RequestInv(h, pol', S, torn)
  BY <1>1, <1>2, <1>7, <1>8, <1>9 DEF RequestInv
<1> QED BY <1>1, <1>10 DEF IInv

\* A completed master PUT leaves every level within its spec.
Settles(r) ==
  req[r].whole /\ req'[r] = Idle /\ ~torn' => \A n \in Workspace \cup App : Fits(req[r].spec, pol'[n])

LEMMA CascadeWorkspaceInv ==
  ASSUME NEW r, Req = {r}, IInv, NEW w \in Workspace, cascade_master_to_realms_and_apps(r, w)
  PROVE  IInv' /\ Settles(r)
<1> DEFINE S == Sort(family)
           q == req[r]
           h == [q EXCEPT !.wss = @ \ {w}, !.apps = AppsOf(w), !.node = w]
           after == clamp(h.spec, pol[w])
           g == IF pol[w] = NoPolicy THEN [h EXCEPT !.bound = h.spec]
                ELSE IF allows(h.spec, pol[w]) THEN [h EXCEPT !.bound = pol[w]]
                ELSE [h EXCEPT !.pc = "clamp", !.bound = after, !.after = after]
<1>1. /\ q.pc = "sweep" /\ q.apps = {} /\ w \in q.wss /\ Proceed(r, g) /\ UNCHANGED <<pol, family>>
      /\ RequestInv(q, pol, S, torn)
  BY DEF cascade_master_to_realms_and_apps, IInv
<1>2. q \in Request(S \cup {NoPolicy}) /\ pol \in [Node -> S \cup {NoPolicy}] /\ q.whole /\ Whole(q, pol, S)
  BY <1>1 DEF RequestInv, Partial
<1>3. Loose(q) = {} /\ \A n : ~Clamping(q, n)
  BY <1>1 DEF Loose, Clamping
<1>4. /\ h.pc = "sweep" /\ h.whole = q.whole /\ h.spec = q.spec /\ h.wss = q.wss \ {w} /\ h.apps = AppsOf(w)
      /\ h.node = w /\ h \in Request(S \cup {NoPolicy})
  BY <1>1, <1>2 DEF Request, AppsOf, Node
<1>5. /\ q.spec \in S /\ pol[Master] \in {q.spec, NoPolicy} /\ pol[w] \in S \cup {NoPolicy}
      /\ \A v \in Workspace \ q.wss : Fits(q.spec, pol[v])
      /\ \A a \in App : Home[a] \notin q.wss => Fits(q.spec, pol[a]) /\ Fits(pol[Home[a]], pol[a])
  BY <1>2, <1>3 DEF Whole, Node
<1> HIDE DEF h
<1>6. /\ g.whole = q.whole /\ g.spec = q.spec /\ g.wss = q.wss \ {w} /\ g.apps = AppsOf(w) /\ g.node = w
      /\ g \in Request(S \cup {NoPolicy}) /\ g.bound \in S /\ allows(q.spec, g.bound)
      /\ \/ g.pc = "sweep" /\ pol[w] \in {g.bound, NoPolicy}
         \/ g.pc = "clamp" /\ g.after = g.bound
  <2>1. CASE pol[w] = NoPolicy
    <3>1. g = [h EXCEPT !.bound = h.spec]
      BY <2>1
    <3> QED BY <1>4, <1>5, <2>1, <3>1, SortFacts DEF Request
  <2>2. CASE pol[w] # NoPolicy /\ allows(h.spec, pol[w])
    <3>1. g = [h EXCEPT !.bound = pol[w]]
      BY <2>2
    <3> QED BY <1>4, <1>5, <2>2, <3>1 DEF Request
  <2>3. CASE pol[w] # NoPolicy /\ ~allows(h.spec, pol[w])
    <3>1. g = [h EXCEPT !.pc = "clamp", !.bound = after, !.after = after]
      BY <2>3
    <3>2. after \in S /\ allows(q.spec, after)
      BY <1>4, <1>5, <2>3, SortFacts
    <3> HIDE DEF after
    <3> QED BY <1>4, <3>1, <3>2 DEF Request
  <2> QED BY <2>1, <2>2, <2>3
<1> HIDE DEF g
<1>7. /\ \A a \in App : a \in AppsOf(w) <=> Home[a] = w
      /\ \A a \in App : a \in Loose(g) <=> Home[a] = w
      /\ Loose(g) \cap Workspace \subseteq {w}
  BY <1>6, PolicyAssumption DEF Loose, Clamping, AppsOf, Node
<1>8. Whole(g, pol, S)
  <2>1. g.pc \in {"sweep", "clamp"} /\ g.spec \in S /\ pol[Master] \in {g.spec, NoPolicy}
    BY <1>5, <1>6
  <2>2. g.pc = "clamp" => g.after \in S /\ allows(g.bound, g.after)
    BY <1>6, SortFacts
  <2>3. \A v \in Workspace \ g.wss : Clamping(g, v) \/ Fits(g.spec, pol[v])
    BY <1>5, <1>6 DEF Clamping, Fits
  <2>4. \A a \in Loose(g) \cap App :
          Home[a] \notin g.wss /\ (pol[Home[a]] \in {g.bound, NoPolicy} \/ Clamping(g, Home[a]))
    BY <1>6, <1>7 DEF Clamping
  <2>5. \A a \in App \ Loose(g) :
          Home[a] \notin g.wss => Fits(g.spec, pol[a]) /\ Fits(pol[Home[a]], pol[a])
    BY <1>5, <1>6, <1>7
  <2> QED BY <1>6, <2>1, <2>2, <2>3, <2>4, <2>5 DEF Whole
<1>9. RequestInv(g, pol', S, torn)
  BY <1>1, <1>2, <1>6, <1>8 DEF RequestInv
<1> QED BY <1>1, <1>6, <1>9, ProceedInv DEF Settles

LEMMA CascadeAppInv ==
  ASSUME NEW r, Req = {r}, IInv, NEW a \in App, cascade_realm_to_apps(r, a)
  PROVE  IInv' /\ Settles(r)
<1> DEFINE S == Sort(family)
           q == req[r]
           h == [q EXCEPT !.apps = @ \ {a}, !.node = a]
           g == IF pol[a] = NoPolicy \/ allows(h.bound, pol[a]) THEN h
                ELSE [h EXCEPT !.pc = "clamp", !.after = clamp(h.bound, pol[a])]
<1>1. q.pc = "sweep" /\ a \in q.apps /\ Proceed(r, g) /\ UNCHANGED <<pol, family>> /\ RequestInv(q, pol, S, torn)
  BY DEF cascade_realm_to_apps, IInv
<1>2. /\ q \in Request(S \cup {NoPolicy}) /\ pol \in [Node -> S \cup {NoPolicy}] /\ q.whole \in BOOLEAN
      /\ pol[a] \in S \cup {NoPolicy}
  BY <1>1 DEF RequestInv, Request, Node
<1>3. a \in Loose(q) /\ Loose(q) = q.apps /\ \A n : ~Clamping(q, n)
  BY <1>1, <1>2 DEF Loose, Clamping, Request, Node
<1>4. q.bound \in S
  BY <1>1, <1>2, <1>3 DEF RequestInv, Partial, Whole
<1>5. /\ h.pc = "sweep" /\ h.whole = q.whole /\ h.spec = q.spec /\ h.wss = q.wss /\ h.apps = q.apps \ {a}
      /\ h.node = a /\ h.bound = q.bound /\ h \in Request(S \cup {NoPolicy})
  BY <1>1, <1>2 DEF Request, Node
<1> HIDE DEF h
<1>6. /\ g.whole = q.whole /\ g.spec = q.spec /\ g.wss = q.wss /\ g.apps = q.apps \ {a} /\ g.node = a
      /\ g.bound = q.bound /\ g \in Request(S \cup {NoPolicy})
      /\ \/ g.pc = "sweep" /\ Fits(q.bound, pol[a])
         \/ g.pc = "clamp" /\ g.after \in S /\ allows(g.bound, g.after)
  <2>1. CASE pol[a] = NoPolicy \/ allows(h.bound, pol[a])
    BY <1>5, <2>1 DEF Fits
  <2>2. CASE ~(pol[a] = NoPolicy \/ allows(h.bound, pol[a]))
    <3> DEFINE after == clamp(h.bound, pol[a])
    <3>1. g = [h EXCEPT !.pc = "clamp", !.after = after]
      BY <2>2
    <3>2. after \in S /\ allows(h.bound, after)
      BY <1>2, <1>4, <1>5, <2>2, SortFacts
    <3> HIDE DEF after
    <3> QED BY <1>5, <3>1, <3>2 DEF Request
  <2> QED BY <2>1, <2>2
<1> HIDE DEF g
<1>7. /\ Loose(g) = IF g.pc = "clamp" THEN q.apps ELSE q.apps \ {a}
      /\ \A n : Clamping(g, n) => n = a
  BY <1>1, <1>2, <1>6 DEF Loose, Clamping, Request, Node
<1>8. CASE q.whole
  <2>1. Whole(q, pol, S)
    BY <1>1, <1>8 DEF RequestInv
  <2>2. Home[a] \in Workspace \ q.wss /\ pol[Home[a]] \in {q.bound, NoPolicy}
    BY <1>3, <2>1, PolicyAssumption DEF Whole
  <2>3. g.pc = "sweep" => Fits(q.spec, pol[a]) /\ Fits(pol[Home[a]], pol[a])
    <3>1. allows(q.spec, q.bound) /\ q.spec \in S
      BY <1>3, <2>1 DEF Whole
    <3> QED BY <1>2, <1>4, <1>6, <2>2, <3>1, SortFacts DEF Fits
  <2>4. a \notin Workspace
    BY PolicyAssumption
  <2>5. g.pc \in {"sweep", "clamp"} /\ g.spec \in S /\ pol[Master] \in {g.spec, NoPolicy} /\ allows(g.spec, g.bound)
    BY <1>3, <1>6, <2>1 DEF Whole
  <2>6. \A b \in Loose(g) \cap App : Home[b] \notin g.wss /\ pol[Home[b]] \in {g.bound, NoPolicy}
    BY <1>3, <1>6, <1>7, <2>1 DEF Whole
  <2>7. \A w \in Workspace \ g.wss : Fits(g.spec, pol[w])
    BY <1>3, <1>6, <2>1 DEF Whole
  <2>8. \A b \in App \ Loose(g) : Home[b] \notin g.wss => Fits(g.spec, pol[b]) /\ Fits(pol[Home[b]], pol[b])
    BY <1>3, <1>6, <1>7, <2>1, <2>3 DEF Whole
  <2>9. Whole(g, pol, S)
    BY <1>4, <1>6, <2>4, <2>5, <2>6, <2>7, <2>8 DEF Whole
  <2>10. RequestInv(g, pol', S, torn)
    BY <1>1, <1>2, <1>6, <1>8, <2>9 DEF RequestInv
  <2> QED BY <1>1, <1>6, <2>10, ProceedInv DEF Settles
<1>9. CASE ~q.whole
  <2>1. Partial(q, pol, S) /\ (~torn => Chained(q.apps, pol))
    BY <1>1, <1>3, <1>9 DEF RequestInv
  <2>2. pol[Home[a]] \in {q.bound, NoPolicy} /\ Fits(pol[Master], q.bound)
    BY <1>3, <2>1 DEF Partial
  <2>3. g.pc = "sweep" => Fits(pol[Home[a]], pol[a])
    BY <1>6, <2>2 DEF Fits
  <2>4. Partial(g, pol, S)
    BY <1>3, <1>4, <1>6, <1>7, <2>1, <2>2 DEF Partial
  <2>5. ~torn => Chained(Loose(g), pol)
    BY <1>6, <1>7, <2>1, <2>3 DEF Chained
  <2>6. RequestInv(g, pol', S, torn)
    BY <1>1, <1>2, <1>6, <1>9, <2>4, <2>5 DEF RequestInv
  <2> QED BY <1>1, <1>9, <2>6, ProceedInv DEF Settles
<1> QED BY <1>2, <1>8, <1>9

LEMMA UpsertInv ==
  ASSUME NEW r, Req = {r}, IInv, upsert_policy(r)
  PROVE  IInv' /\ Settles(r)
<1> DEFINE S == Sort(family)
           q == req[r]
           h == [q EXCEPT !.pc = "sweep"]
           x == q.node
<1>1. /\ q.pc \in {"put", "clamp"} /\ pol' = [pol EXCEPT ![x] = q.after] /\ Proceed(r, h) /\ UNCHANGED family
      /\ RequestInv(q, pol, S, torn)
  BY DEF upsert_policy, IInv
<1>2. /\ q \in Request(S \cup {NoPolicy}) /\ pol \in [Node -> S \cup {NoPolicy}] /\ q.whole \in BOOLEAN
      /\ q.apps \subseteq App /\ x \in Node
  BY <1>1 DEF RequestInv, Request
<1>3. /\ h.pc = "sweep" /\ h.whole = q.whole /\ h.spec = q.spec /\ h.wss = q.wss /\ h.apps = q.apps
      /\ h.node = x /\ h.bound = q.bound /\ h \in Request(S \cup {NoPolicy})
  BY <1>2 DEF Request
<1> HIDE DEF h
<1>4. Loose(h) = q.apps /\ (\A n : ~Clamping(h, n))
  BY <1>2, <1>3 DEF Loose, Clamping, Node
<1>5. /\ pol'[x] = q.after /\ \A n \in Node \ {x} : pol'[n] = pol[n]
      /\ q.after \in S => pol' \in [Node -> S \cup {NoPolicy}]
  BY <1>1, <1>2
<1>6. /\ Master \in Node /\ Workspace \subseteq Node /\ App \subseteq Node /\ \A a \in App : Home[a] \in Workspace
      /\ Master \notin Workspace /\ Master \notin App /\ Workspace \cap App = {}
  BY PolicyAssumption DEF Node
<1>7. q.pc = "clamp" => Loose(q) = q.apps \cup {x}
  BY <1>2, <1>6 DEF Loose, Clamping
<1>8. CASE q.whole
  <2>1. Whole(q, pol, S) /\ q.pc = "clamp"
    BY <1>1, <1>8 DEF RequestInv, Whole
  <2>2. /\ q.after \in S /\ allows(q.bound, q.after) /\ q.bound \in S /\ allows(q.spec, q.bound) /\ q.spec \in S
        /\ x \in (Workspace \ q.wss) \cup App /\ pol[Master] \in {q.spec, NoPolicy}
    BY <1>7, <2>1 DEF Whole
  <2>3. Fits(q.spec, q.after)
    BY <2>2, SortFacts DEF Fits
  <2>4. pol'[Master] \in {q.spec, NoPolicy}
    BY <1>5, <1>6, <2>2
  <2>5. CASE x \in Workspace
    <3>1. q.apps = AppsOf(x) /\ q.after = q.bound
      BY <2>1, <2>5 DEF Whole
    <3>2. \A a \in q.apps : Home[a] = x /\ a \in App
      BY <3>1 DEF AppsOf
    <3>3. \A w \in Workspace \ q.wss : Fits(q.spec, pol'[w])
      BY <1>5, <1>6, <2>1, <2>3 DEF Whole, Clamping
    <3>4. \A a \in App \ q.apps : Home[a] # x /\ a # x
      BY <1>6, <2>5, <3>1 DEF AppsOf
    <3>5. \A a \in App \ q.apps : Home[a] \notin q.wss => Fits(q.spec, pol'[a]) /\ Fits(pol'[Home[a]], pol'[a])
      BY <1>5, <1>6, <1>7, <2>1, <2>5, <3>4 DEF Whole
    <3>6. Whole(h, pol', S)
      <4>1. h.pc = "sweep" /\ h.spec \in S /\ pol'[Master] \in {h.spec, NoPolicy}
        BY <1>3, <2>2, <2>4
      <4>2. h.bound \in S /\ allows(h.spec, h.bound)
        BY <1>3, <2>2
      <4>3. \A a \in Loose(h) \cap App : Home[a] \notin h.wss /\ pol'[Home[a]] \in {h.bound, NoPolicy}
        BY <1>3, <1>4, <1>5, <1>6, <2>2, <2>5, <3>1, <3>2
      <4>4. \A w \in Workspace \ h.wss : Fits(h.spec, pol'[w])
        BY <1>3, <3>3
      <4>5. \A a \in App \ Loose(h) :
              Home[a] \notin h.wss => Fits(h.spec, pol'[a]) /\ Fits(pol'[Home[a]], pol'[a])
        BY <1>3, <1>4, <3>5
      <4> QED BY <4>1, <4>2, <4>3, <4>4, <4>5 DEF Whole
    <3>7. RequestInv(h, pol', S, torn)
      BY <1>3, <1>5, <1>8, <2>2, <3>6 DEF RequestInv
    <3> QED BY <1>1, <1>3, <3>7, ProceedInv DEF Settles
  <2>6. CASE x \in App
    <3>1. Home[x] \notin q.wss /\ pol[Home[x]] \in {q.bound, NoPolicy} /\ Home[x] # x
      BY <1>6, <1>7, <2>1, <2>6 DEF Whole, Clamping
    <3>2. \A w \in Workspace : pol'[w] = pol[w]
      BY <1>5, <1>6, <2>6
    <3>3. \A w \in Workspace \ q.wss : Fits(q.spec, pol'[w])
      BY <1>6, <2>1, <2>6, <3>2 DEF Whole, Clamping
    <3>4. \A a \in q.apps : Home[a] \notin q.wss /\ pol'[Home[a]] \in {q.bound, NoPolicy}
      BY <1>2, <1>6, <1>7, <2>1, <2>6, <3>2 DEF Whole, Clamping
    <3>5. Fits(pol[Home[x]], q.after)
      BY <2>2, <3>1 DEF Fits
    <3>6. \A a \in App \ q.apps : Home[a] \notin q.wss => Fits(q.spec, pol'[a]) /\ Fits(pol'[Home[a]], pol'[a])
      <4> SUFFICES ASSUME NEW a \in App, a \notin q.apps, Home[a] \notin q.wss
                   PROVE  Fits(q.spec, pol'[a]) /\ Fits(pol'[Home[a]], pol'[a])
        OBVIOUS
      <4>1. CASE a = x
        BY <1>5, <1>6, <2>3, <3>2, <3>5, <4>1
      <4>2. CASE a # x
        BY <1>5, <1>6, <1>7, <2>1, <3>2, <4>2 DEF Whole
      <4> QED BY <4>1, <4>2
    <3>7. Whole(h, pol', S)
      BY <1>3, <1>4, <2>2, <2>4, <3>3, <3>4, <3>6 DEF Whole
    <3>8. RequestInv(h, pol', S, torn)
      BY <1>3, <1>5, <1>8, <2>2, <3>7 DEF RequestInv
    <3> QED BY <1>1, <1>3, <3>8, ProceedInv DEF Settles
  <2> QED BY <2>2, <2>5, <2>6
<1>9. CASE ~q.whole
  <2>1. Partial(q, pol, S) /\ (~torn => Chained(Loose(q), pol))
    BY <1>1, <1>9 DEF RequestInv
  <2>2. q.after \in S /\ q.wss = {}
    BY <1>1, <2>1 DEF Partial
  <2>3. CASE q.pc = "put" /\ x \in Workspace
    <3>1. q.apps = AppsOf(x) /\ q.bound = q.after /\ Fits(pol[Master], q.after)
      BY <1>6, <2>1, <2>3 DEF Partial
    <3>2. \A a \in q.apps : a \in App /\ Home[a] = x
      BY <3>1 DEF AppsOf
    <3>3. pol'[Master] = pol[Master] /\ \A a \in App : pol'[a] = pol[a]
      BY <1>5, <1>6, <2>3
    <3>4. Partial(h, pol', S)
      BY <1>3, <1>4, <1>5, <2>2, <3>1, <3>2, <3>3 DEF Partial
    <3>5. Loose(q) = {}
      BY <2>3 DEF Loose, Clamping
    <3>6. \A a \in App \ q.apps : pol'[Home[a]] = pol[Home[a]]
      BY <1>5, <1>6, <3>1 DEF AppsOf
    <3>7. \A w \in Workspace : Fits(pol[Master], pol[w]) => Fits(pol'[Master], pol'[w])
      BY <1>5, <1>6, <3>1, <3>3
    <3>8. ~torn => Chained(q.apps, pol')
      BY <2>1, <3>3, <3>5, <3>6, <3>7 DEF Chained
    <3>9. RequestInv(h, pol', S, torn)
      BY <1>3, <1>4, <1>5, <1>9, <2>2, <3>4, <3>8 DEF RequestInv
    <3> QED BY <1>1, <1>9, <3>9, ProceedInv DEF Settles
  <2>4. CASE x \in App /\ (q.pc = "put" \/ q.pc = "clamp")
    <3>1. Fits(pol[Master], q.after) /\ Fits(pol[Home[x]], q.after)
      <4>1. CASE q.pc = "put"
        BY <1>6, <2>1, <2>4, <4>1 DEF Partial
      <4>2. CASE q.pc = "clamp"
        <5>1. /\ q.bound \in S /\ Fits(pol[Master], q.bound) /\ allows(q.bound, q.after)
              /\ pol[Home[x]] \in {q.bound, NoPolicy}
          BY <1>7, <2>1, <4>2 DEF Partial
        <5>2. pol[Master] \in S \cup {NoPolicy}
          BY <1>2, <1>6
        <5> QED BY <2>2, <5>1, <5>2, SortFacts DEF Fits
      <4> QED BY <2>4, <4>1, <4>2
    <3>2. pol'[Master] = pol[Master] /\ \A w \in Workspace : pol'[w] = pol[w]
      BY <1>5, <1>6, <2>4
    <3>3. q.apps \subseteq Loose(q) /\ Loose(q) \subseteq q.apps \cup {x}
      <4>1. CASE q.pc = "put"
        <5>1. q.apps = {}
          BY <1>6, <2>1, <2>4, <4>1 DEF Partial
        <5>2. Loose(q) = {}
          BY <4>1 DEF Loose, Clamping
        <5> QED BY <5>1, <5>2
      <4>2. CASE q.pc = "clamp"
        BY <1>7, <4>2
      <4> QED BY <2>4, <4>1, <4>2
    <3>4. Partial(h, pol', S)
      <4>1. q.apps # {} => q.bound \in S /\ Fits(pol[Master], q.bound)
        BY <2>1, <3>3 DEF Partial
      <4>2. \A n \in q.apps : n \in App /\ pol[Home[n]] \in {q.bound, NoPolicy}
        BY <2>1, <3>3 DEF Partial
      <4> QED BY <1>3, <1>4, <1>6, <2>2, <3>2, <4>1, <4>2 DEF Partial
    <3>5. ~torn => Chained(q.apps, pol')
      <4> SUFFICES ASSUME Chained(Loose(q), pol) PROVE Chained(q.apps, pol')
        BY <2>1
      <4>1. \A w \in Workspace : Fits(pol'[Master], pol'[w])
        BY <3>2 DEF Chained
      <4>2. ASSUME NEW a \in App
            PROVE  Fits(pol'[Master], pol'[a]) /\ (a \notin q.apps => Fits(pol'[Home[a]], pol'[a]))
        <5>1. CASE a = x
          BY <1>5, <1>6, <3>1, <3>2, <5>1
        <5>2. CASE a # x
          BY <1>5, <1>6, <3>2, <3>3, <5>2 DEF Chained
        <5> QED BY <5>1, <5>2
      <4> QED BY <4>1, <4>2 DEF Chained
    <3>6. RequestInv(h, pol', S, torn)
      BY <1>3, <1>4, <1>5, <1>9, <2>2, <3>4, <3>5 DEF RequestInv
    <3> QED BY <1>1, <1>9, <3>6, ProceedInv DEF Settles
  <2>5. q.pc = "clamp" => x \in App
    BY <1>7, <2>1 DEF Partial
  <2>6. q.pc = "put" => x \in App \/ x \in Workspace
    BY <2>1 DEF Partial
  <2> QED BY <1>1, <2>3, <2>4, <2>5, <2>6
<1> QED BY <1>2, <1>8, <1>9

\* Init establishes the invariant and every step keeps it.
LEMMA InitIInv ==
  ASSUME NEW r, Req = {r}, \A F \in Families : OneKnob(F)
  PROVE  Init => IInv
<1> SUFFICES ASSUME Init PROVE IInv
  OBVIOUS
<1>1. family \subseteq Sort(family)
  BY FamilySort DEF Init
<1>2. pol \in [Node -> Sort(family) \cup {NoPolicy}] /\ \A n \in Node : pol[n] = NoPolicy
  BY DEF Init
<1>3. Idle \in Request(Sort(family) \cup {NoPolicy}) /\ Idle.pc = "idle" /\ Idle.whole = FALSE /\ Idle.wss = {}
  BY DEF Idle, Request, Node
<1>4. Partial(Idle, pol, Sort(family)) /\ Loose(Idle) = {}
  BY <1>3 DEF Partial, Loose, Clamping
<1>5. Chained({}, pol)
  BY <1>2, PolicyAssumption DEF Chained, Fits, Node
<1>6. RequestInv(Idle, pol, Sort(family), torn)
  BY <1>2, <1>3, <1>4, <1>5 DEF RequestInv
<1> QED BY <1>1, <1>6 DEF IInv, Init

LEMMA NextIInv ==
  ASSUME NEW r, Req = {r}, IInv, [Next]_vars
  PROVE  IInv' /\ Settles(r)
<1>1. CASE \E s \in family : system_put(r, s) \/ (\E w \in Workspace : workspace_put(r, w, s)) \/ (\E a \in App : app_put(r, a, s))
  <2>1. req[r] = Idle
    BY <1>1 DEF system_put, workspace_put, app_put
  <2>2. Settles(r)
    BY <2>1 DEF Settles, Idle
  <2> QED BY <1>1, <2>2, SystemPutInv, WorkspacePutInv, AppPutInv
<1>2. CASE AppChain(r)
  <2>1. ~req[r].whole
    BY <1>2 DEF AppChain, IInv, RequestInv, Whole
  <2> QED BY <1>2, <2>1, AppChainInv DEF Settles
<1>3. CASE Abandon(r)
  <2>1. req[r].whole => torn'
    BY <1>3 DEF Abandon, IInv, RequestInv, Whole
  <2> QED BY <1>3, <2>1, AbandonInv DEF Settles
<1>4. CASE \E n \in Node : delete_policy(n)
  <2>1. req[r].whole => req'[r] # Idle
    BY <1>4 DEF delete_policy, IInv, RequestInv, Whole, Idle
  <2> QED BY <1>4, <2>1, DeleteInv DEF Settles
<1>5. CASE UNCHANGED vars
  <2>1. IInv' /\ (req[r].whole => req'[r] # Idle)
    BY <1>5 DEF vars, IInv, RequestInv, Whole, Idle
  <2> QED BY <2>1 DEF Settles
<1> QED BY <1>1, <1>2, <1>3, <1>4, <1>5, UpsertInv, CascadeWorkspaceInv, CascadeAppInv DEF Next

\* For ranges, allow-lists and free values and any number of workspaces and apps: while PUTs
\* do not overlap, every stored value is within the nearest bound above it whenever no PUT
\* runs and none was cut short, deletes at any moment included (policy_engine.rs).
THEOREM ChainIsKept ==
  ASSUME NEW r, Req = {r}, \A F \in Families : OneKnob(F)
  PROVE  Spec => []ChainHolds
<1>1. IInv => ChainHolds
  <2> SUFFICES ASSUME IInv, AtRest, ~torn
               PROVE  /\ \A w \in Workspace : validate_chain(<<pol[Master], pol[w]>>)
                      /\ \A a \in App : validate_chain(<<pol[Master], pol[Home[a]], pol[a]>>)
    BY DEF ChainHolds
  <2>1. RequestInv(Idle, pol, Sort(family), torn) /\ Idle.whole = FALSE /\ Loose(Idle) = {}
    BY DEF IInv, AtRest, Idle, Loose, Clamping
  <2>2. Chained({}, pol)
    BY <2>1 DEF RequestInv
  <2> QED BY <2>2, ValidateTwo, ValidateThree, PolicyAssumption DEF Chained
<1>2. Init => IInv
  BY InitIInv
<1>3. IInv /\ [Next]_vars => IInv'
  BY NextIInv
<1> QED BY <1>1, <1>2, <1>3, PTL DEF Spec

\* Under the same conditions a master PUT that completes leaves every workspace and app
\* within the spec it put, however earlier cascades were cut short.
THEOREM MasterPutsSettle ==
  ASSUME NEW p, Req = {p}, \A F \in Families : OneKnob(F)
  PROVE  Spec => MasterPutSettles
<1> DEFINE Done == \A r \in Req :
                     (req[r].whole /\ req'[r] = Idle /\ ~torn')
                       => \A n \in Workspace \cup App : pol'[n] = NoPolicy \/ allows(req[r].spec, pol'[n])
<1>1. Init => IInv
  BY InitIInv
<1>2. IInv /\ [Next]_vars => IInv'
  BY NextIInv
<1>3. ASSUME IInv, [Next]_vars PROVE [Done]_vars
  <2> SUFFICES ASSUME req[p].whole, req'[p] = Idle, ~torn', NEW n \in Workspace \cup App
               PROVE  pol'[n] = NoPolicy \/ allows(req[p].spec, pol'[n])
    OBVIOUS
  <2>1. req[p].spec # NoPolicy
    BY <1>3, SortFacts DEF IInv, RequestInv, Whole
  <2>2. Fits(req[p].spec, pol'[n])
    BY <1>3, NextIInv DEF Settles
  <2> QED BY <2>1, <2>2 DEF Fits
<1> QED BY <1>1, <1>2, <1>3, PTL DEF Spec, MasterPutSettles

-----------------------------------------------------------------------------
(* Hooks. *)

HIDE DEF AllowsRange, AllowsToggle, AllowsEnumSet, ClampToggle, ClampEnumSet

Inside == {"js", "native", "reserve", "send"}
Visit == [pc : {"out", "wait", "leave"} \cup Inside, g : 0..MaxGen, kind : {"none", "before", "after", "route", "cron"},
          armed : Nat, alone : BOOLEAN, late : BOOLEAN, seen : Entry \cup {Nobody}, day : Day]
Work == [pc : {"idle", "load", "crons", "insert", "get", "drain"}, g : 0..MaxGen]

\* Whoever is inside names a generation that was built.
Shape ==
  /\ file \in Source \cup {Absent} /\ src \in [Gen -> Loaded]
  /\ built \in 0..MaxGen /\ current \in 0..built
  /\ strong \in [Gen -> Nat] /\ cron \subseteq 1..built
  /\ holder \in [Gen -> Entry \cup {Nobody}] /\ request \in [Gen -> Entry \cup {Nobody}]
  /\ deadline \in [Gen -> Nat] /\ cut \subseteq Gen
  /\ count \in [Gen -> [Day -> Nat]] /\ sent \in [Gen -> [Day -> Nat]]
  /\ now \in Nat /\ day \in Day /\ quota \in Nat \cup {NoQuota}
  /\ entry \in [Entry -> Visit] /\ admin \in [Admin -> Work]
  /\ \A e \in Entry : entry[e].pc # "out" => entry[e].g \in 1..built
  /\ \A a \in Admin : /\ admin[a].pc \in {"crons", "insert", "drain"} => admin[a].g \in 1..built
                      /\ admin[a].pc \in {"idle", "load", "get"} => admin[a].g = 0
                      /\ admin[a].pc = "get" => current # 0

\* The context has one holder, and what a cut dispatch left in $app.request is known.
Driver(e) == entry[e].kind \in {"before", "after"}
ContextInv ==
  /\ \A e \in Entry : Running(e) =>
       LET g == entry[e].g IN
       /\ holder[g] = e
       /\ Driver(e) => entry[e].seen = e /\ request[g] = e
       /\ ~Driver(e) => g \in cut \/ (entry[e].seen = Nobody /\ request[g] = Nobody)
  /\ \A g \in Gen : holder[g] = Nobody => request[g] = Nobody \/ g \in cut

\* An entry that nobody joined finds the deadline it armed.
ClockInv ==
  \A e \in Entry : entry[e].pc # "out" /\ entry[e].alone =>
    ~entry[e].late /\ deadline[entry[e].g] = entry[e].armed + Budget

\* The count of a generation is that of its users; its scheduler lives as long.
Keeping(g) == {a \in Admin : admin[a].g = g}
Mapped(g) == IF current = g THEN 1 ELSE 0
Loading(g) == \E a \in Admin : admin[a].pc = "crons" /\ admin[a].g = g
RefsInv ==
  \A g \in Gen :
    /\ strong[g] = Cardinality(On(g)) + Cardinality(Keeping(g)) + Mapped(g)
    /\ g \in cron => strong[g] > 0 /\ ValidExpression(g)
    /\ strong[g] > 0 /\ ~Loading(g) /\ ValidExpression(g) => g \in cron
    /\ Loading(g) => strong[g] = 1 /\ g \notin cron

\* The counter of a day is what was delivered and what is being sent.
Sending(g, d) == {e \in Entry : At(e, "send") /\ entry[e].g = g /\ entry[e].day = d}
MailInv ==
  \A g \in Gen, d \in Day :
    /\ count[g][d] = sent[g][d] + Cardinality(Sending(g, d))
    /\ quota # NoQuota => count[g][d] <= quota

HInv == Shape /\ ContextInv /\ ClockInv /\ RefsInv /\ MailInv

-----------------------------------------------------------------------------
(* What steps leave alone. *)

LEMMA FiniteSets ==
  ASSUME NEW g
  PROVE  /\ IsFiniteSet(On(g)) /\ Cardinality(On(g)) \in Nat
         /\ IsFiniteSet(Keeping(g)) /\ Cardinality(Keeping(g)) \in Nat
         /\ \A d : IsFiniteSet(Sending(g, d)) /\ Cardinality(Sending(g, d)) \in Nat
<1>1. /\ On(g) \subseteq Entry /\ Keeping(g) \subseteq Admin
      /\ \A d : Sending(g, d) \subseteq Entry
  BY DEF On, Keeping, Sending
<1> QED BY <1>1, HookConstants, FS_Subset, FS_CardinalityType

\* Nobody comes, goes or changes generation.
InPlace ==
  /\ entry' \in [Entry -> Visit]
  /\ \A x \in Entry : entry'[x].g = entry[x].g /\ (entry'[x].pc = "out" <=> entry[x].pc = "out")

\* Nor moves in or out of a send.
NoMail ==
  \A x \in Entry : entry'[x].day # entry[x].day \/ entry'[x].pc # entry[x].pc =>
                     entry[x].pc # "send" /\ entry'[x].pc # "send"

\* Entry e moves on inside the runtime.
Moves(e) ==
  /\ entry' \in [Entry -> Visit]
  /\ \A x \in Entry \ {e} : entry'[x] = entry[x]
  /\ entry[e].pc # "out" /\ entry'[e].pc # "out"
  /\ entry'[e].g = entry[e].g /\ entry'[e].kind = entry[e].kind /\ entry'[e].armed = entry[e].armed
  /\ entry'[e].alone = entry[e].alone /\ entry'[e].late = entry[e].late

LEMMA RefsStay ==
  ASSUME RefsInv, InPlace, UNCHANGED <<refs, current, src, admin>>
  PROVE  RefsInv'
<1>1. \A g : On(g)' = On(g) /\ Keeping(g)' = Keeping(g) /\ Mapped(g)' = Mapped(g) /\ (Loading(g)' <=> Loading(g))
  BY DEF InPlace, On, Keeping, Mapped, Loading
<1> QED BY <1>1 DEF RefsInv, refs, ValidExpression

LEMMA MailStays ==
  ASSUME MailInv, InPlace, NoMail, UNCHANGED <<mail, quota>>
  PROVE  MailInv'
<1>1. \A g, d : Sending(g, d)' = Sending(g, d)
  BY DEF InPlace, NoMail, Sending, At
<1> QED BY <1>1 DEF MailInv, mail

LEMMA ContextStays ==
  ASSUME ContextInv, InPlace, UNCHANGED context,
         \A x \in Entry : /\ entry'[x].kind = entry[x].kind /\ entry'[x].seen = entry[x].seen
                          /\ entry'[x].pc \in Inside <=> entry[x].pc \in Inside
  PROVE  ContextInv'
BY DEF ContextInv, InPlace, context, Running, Driver, Inside

\* A move spoils neither clocks nor counts.
LEMMA MoveInv ==
  ASSUME HInv, NEW e \in Entry, Moves(e),
         UNCHANGED <<file, current, src, refs, deadline, admin, time, built>>,
         holder' \in [Gen -> Entry \cup {Nobody}], request' \in [Gen -> Entry \cup {Nobody}], cut' \subseteq Gen,
         count' \in [Gen -> [Day -> Nat]], sent' \in [Gen -> [Day -> Nat]]
  PROVE  Shape' /\ ClockInv' /\ RefsInv' /\ InPlace
<1>1. InPlace
  BY DEF Moves, InPlace
<1>2. Shape'
  BY <1>1 DEF HInv, Shape, InPlace, refs, time
<1>3. ClockInv'
  BY DEF HInv, ClockInv, Moves
<1> QED BY <1>1, <1>2, <1>3, RefsStay DEF HInv

\* The generation of an entry inside.
LEMMA GenOf ==
  ASSUME Shape, NEW e \in Entry, entry[e].pc # "out"
  PROVE  entry[e] \in Visit /\ entry[e].g \in Gen /\ entry[e].g \in 1..built /\ entry[e].day \in Day
BY HookConstants DEF Shape, Visit, Gen

-----------------------------------------------------------------------------
(* Entries. *)

LEMMA LockInv ==
  ASSUME HInv, NEW e \in Entry, Lock(e)
  PROVE  HInv'
<1> DEFINE g == entry[e].g
           r == IF entry[e].kind \in {"before", "after"} THEN e ELSE request[g]
<1>1. entry[e] \in Visit /\ g \in Gen /\ entry[e].pc = "wait"
  BY GenOf DEF HInv, Lock, At
<1>2. r \in Entry \cup {Nobody}
  BY <1>1 DEF HInv, Shape
<1>3. /\ holder[g] = Nobody /\ holder' = [holder EXCEPT ![g] = e] /\ request' = [request EXCEPT ![g] = r]
      /\ entry' = [entry EXCEPT ![e].pc = "js", ![e].seen = r]
      /\ UNCHANGED <<file, current, src, refs, deadline, cut, mail, admin, time, built, left>>
  BY DEF Lock
<1> HIDE DEF r
<1>4. Moves(e) /\ entry'[e].pc = "js" /\ entry'[e].seen = r
  BY <1>1, <1>2, <1>3 DEF HInv, Shape, Moves, Visit, Inside
<1>5. Shape' /\ ClockInv' /\ RefsInv' /\ InPlace
  BY <1>2, <1>3, <1>4, MoveInv DEF HInv, Shape, mail
<1>6. NoMail
  BY <1>1, <1>4 DEF NoMail, Moves
<1>7. MailInv'
  BY <1>3, <1>5, <1>6, MailStays DEF HInv, time
<1>8. ContextInv'
  <2>1. \A x \in Entry \ {e} : Running(x)' => Running(x) /\ entry[x].g # g
    BY <1>3, <1>4, HookConstants DEF HInv, ContextInv, Moves, Running
  <2>2. ~Driver(e) => g \in cut \/ r = Nobody
    BY <1>1, <1>3 DEF HInv, ContextInv, Driver, r
  <2>3. Driver(e) => r = e
    BY DEF Driver, r
  <2>4. \A x \in Entry \ {e} : entry'[x] = entry[x]
    BY <1>4 DEF Moves
  <2>5. entry'[e].g = g /\ entry'[e].kind = entry[e].kind
    BY <1>4 DEF Moves
  <2>6. holder'[g] = e /\ request'[g] = r /\ \A k \in Gen \ {g} : holder'[k] = holder[k] /\ request'[k] = request[k]
    BY <1>1, <1>3 DEF HInv, Shape
  <2>7. \A x \in Entry : Running(x) => entry[x].g \in Gen
    BY GenOf DEF HInv, Running
  <2>8. cut' = cut /\ e # Nobody
    BY <1>3, HookConstants
  <2> QED BY <1>1, <1>4, <2>1, <2>2, <2>3, <2>4, <2>5, <2>6, <2>7, <2>8 DEF HInv, ContextInv, Driver
<1> QED BY <1>5, <1>7, <1>8 DEF HInv

\* Return and Interrupt: the context is given up.
LEMMA GiveUpInv ==
  ASSUME HInv, NEW e \in Entry, At(e, "js"), Step(e, "leave"),
         holder' = [holder EXCEPT ![entry[e].g] = Nobody],
         NEW q \in Entry \cup {Nobody}, request' = [request EXCEPT ![entry[e].g] = q],
         cut' \in {cut, cut \cup {entry[e].g}}, q = Nobody \/ entry[e].g \in cut',
         UNCHANGED <<file, current, src, refs, deadline, mail, admin, time, built>>
  PROVE  HInv'
<1> DEFINE g == entry[e].g
<1>1. entry[e] \in Visit /\ g \in Gen /\ entry[e].pc = "js"
  BY GenOf DEF HInv, At
<1>2. Moves(e) /\ entry'[e].pc = "leave"
  BY <1>1 DEF HInv, Shape, Moves, Visit, Inside, Step
<1>3. Shape' /\ ClockInv' /\ RefsInv' /\ InPlace
  BY <1>1, <1>2, MoveInv DEF HInv, Shape, mail
<1>4. NoMail
  BY <1>1, <1>2 DEF NoMail, Moves
<1>5. MailInv'
  BY <1>3, <1>4, MailStays DEF HInv, time
<1>6. ContextInv'
  <2>1. \A x \in Entry : Running(x)' => x # e /\ Running(x) /\ entry'[x] = entry[x]
    BY <1>2 DEF Moves, Running
  <2>2. holder[g] = e
    BY <1>1 DEF HInv, ContextInv, Running
  <2>3. \A x \in Entry : Running(x)' => entry[x].g # g /\ entry[x].g \in Gen
    BY <2>1, <2>2, GenOf DEF HInv, ContextInv, Running
  <2>4. holder'[g] = Nobody /\ request'[g] = q /\ \A k \in Gen \ {g} : holder'[k] = holder[k] /\ request'[k] = request[k]
    BY <1>1 DEF HInv, Shape
  <2> QED BY <1>1, <2>1, <2>3, <2>4 DEF HInv, ContextInv, Driver
<1> QED BY <1>3, <1>5, <1>6 DEF HInv

LEMMA ReturnInv ==
  ASSUME HInv, NEW e \in Entry, Return(e) \/ Interrupt(e)
  PROVE  HInv'
<1> DEFINE g == entry[e].g
<1>1. entry[e] \in Visit /\ g \in Gen /\ entry[e].pc = "js" /\ request[g] \in Entry \cup {Nobody}
  BY GenOf DEF HInv, Shape, Return, Interrupt, At
<1>2. ~Driver(e) => g \in cut \/ request[g] = Nobody
  BY <1>1 DEF HInv, ContextInv, Running
<1>3. CASE Return(e)
  <2>1. driver_finally(g, e) \in Entry \cup {Nobody} /\ (driver_finally(g, e) = Nobody \/ g \in cut)
    BY <1>1, <1>2 DEF driver_finally, Driver
  <2> QED BY <1>3, <2>1, GiveUpInv DEF Return
<1>4. CASE Interrupt(e)
  <2>1. request' = [request EXCEPT ![g] = request[g]]
    BY <1>4 DEF Interrupt, HInv, Shape
  <2>2. cut' \in {cut, cut \cup {g}} /\ (request[g] = Nobody \/ g \in cut')
    BY <1>2, <1>4 DEF Interrupt, Driver
  <2> QED BY <1>1, <1>4, <2>1, <2>2, GiveUpInv DEF Interrupt
<1> QED BY <1>3, <1>4

\* A call into the host and back, with the context held.
LEMMA HostInv ==
  ASSUME HInv, NEW e \in Entry, Moves(e), entry'[e].seen = entry[e].seen,
         entry[e].pc \in Inside, entry'[e].pc \in Inside,
         UNCHANGED <<file, current, src, refs, context, admin, time, built>>,
         count' \in [Gen -> [Day -> Nat]], sent' \in [Gen -> [Day -> Nat]]
  PROVE  Shape' /\ ContextInv' /\ ClockInv' /\ RefsInv' /\ InPlace
<1>1. Shape' /\ ClockInv' /\ RefsInv' /\ InPlace
  BY MoveInv DEF HInv, Shape, context
<1> QED BY <1>1, ContextStays DEF HInv, Moves

\* The program counter is all that changes.
LEMMA StepMoves ==
  ASSUME Shape, NEW e \in Entry, entry[e].pc # "out", NEW pc \in {"leave"} \cup Inside, Step(e, pc)
  PROVE  /\ Moves(e) /\ entry'[e].pc = pc /\ entry'[e].seen = entry[e].seen /\ entry'[e].day = entry[e].day
<1>1. entry[e] \in Visit
  BY DEF Shape
<1> DEFINE v == [entry[e] EXCEPT !.pc = pc]
<1>2. /\ v \in Visit /\ v.pc = pc /\ v.seen = entry[e].seen /\ v.day = entry[e].day /\ v.g = entry[e].g
      /\ v.kind = entry[e].kind /\ v.armed = entry[e].armed /\ v.alone = entry[e].alone /\ v.late = entry[e].late
  BY <1>1 DEF Visit
<1>3. entry' = [entry EXCEPT ![e] = v]
  BY DEF Step
<1> HIDE DEF v
<1>4. entry'[e] = v /\ entry' \in [Entry -> Visit] /\ \A x \in Entry \ {e} : entry'[x] = entry[x]
  BY <1>2, <1>3 DEF Shape
<1>5. pc # "out"
  BY DEF Inside
<1> QED BY <1>2, <1>4, <1>5 DEF Moves

LEMMA CallInv ==
  ASSUME HInv, NEW e \in Entry,
         Block(e) \/ NativeReturns(e) \/ MailerSend(e)
  PROVE  HInv'
<1>1. entry[e] \in Visit /\ day \in Day /\ entry[e].pc \in {"js", "native"}
  BY GenOf DEF HInv, Shape, Block, NativeReturns, MailerSend, At
<1>2. /\ Moves(e) /\ entry'[e].seen = entry[e].seen
      /\ entry'[e].pc \in {"js", "native", "reserve"}
  <2>1. CASE \E pc \in {"js", "native"} : Step(e, pc)
    <3>1. PICK pc \in {"js", "native"} : Step(e, pc)
      BY <2>1
    <3>2. pc \in {"leave"} \cup Inside
      BY DEF Inside
    <3> QED BY <1>1, <3>1, <3>2, StepMoves DEF HInv
  <2>2. CASE register_mailer_native(e)
    BY <1>1, <2>2 DEF HInv, Shape, Moves, Visit, Inside, register_mailer_native
  <2> QED BY <2>1, <2>2 DEF Block, NativeReturns, MailerSend
<1>3. UNCHANGED <<file, current, src, refs, context, mail, admin, time, built>>
  BY DEF Block, NativeReturns, MailerSend
<1>4. Shape' /\ ContextInv' /\ ClockInv' /\ RefsInv' /\ InPlace
  BY <1>1, <1>2, <1>3, HostInv DEF HInv, Shape, mail, Inside
<1>5. NoMail
  BY <1>1, <1>2 DEF NoMail, Moves
<1> QED BY <1>3, <1>4, <1>5, MailStays DEF HInv, time

\* Reserve, Delivered and SendFails: one slot of one generation and day.
\* One counter of one generation and day.
Bump(f, h, g, d) ==
  \/ h = f
  \/ h = [f EXCEPT ![g][d] = @ + 1]
  \/ h = [f EXCEPT ![g][d] = IF @ > 0 THEN @ - 1 ELSE @]
LEMMA Bumped ==
  ASSUME NEW f \in [Gen -> [Day -> Nat]], NEW g \in Gen, NEW d \in Day, NEW h, Bump(f, h, g, d)
  PROVE  /\ h \in [Gen -> [Day -> Nat]]
         /\ \A k \in Gen, c \in Day : k # g \/ c # d => h[k][c] = f[k][c]
<1>1. f[g] \in [Day -> Nat] /\ f[g][d] \in Nat
  OBVIOUS
<1>2. PICK n \in Nat : h = f \/ h = [f EXCEPT ![g][d] = n]
  BY <1>1 DEF Bump
<1> QED BY <1>1, <1>2

LEMMA MailerInv ==
  ASSUME HInv, NEW e \in Entry, Reserve(e) \/ Delivered(e) \/ SendFails(e)
  PROVE  HInv'
<1>0. entry[e].pc \in {"reserve", "send"}
  BY DEF Reserve, Delivered, SendFails, At
<1>g. PICK g \in Gen, d \in Day : g = entry[e].g /\ d = entry[e].day
  BY <1>0, GenOf DEF HInv
<1>1. entry[e] \in Visit /\ count[g][d] \in Nat /\ sent[g][d] \in Nat
  BY DEF HInv, Shape
<1>2. /\ Moves(e) /\ entry'[e].seen = entry[e].seen /\ entry'[e].day = d
      /\ entry'[e].pc \in {"js", "send"}
  <2>1. Step(e, "js") \/ Step(e, "send")
    BY DEF Reserve, Delivered, SendFails
  <2>2. {"js", "send"} \subseteq {"leave"} \cup Inside
    BY DEF Inside
  <2> QED BY <1>0, <1>g, <2>1, <2>2, StepMoves DEF HInv
<1>3. UNCHANGED <<file, current, src, refs, context, admin, time, built>>
  BY DEF Reserve, Delivered, SendFails
<1>4. /\ count' \in [Gen -> [Day -> Nat]] /\ sent' \in [Gen -> [Day -> Nat]]
      /\ \A k \in Gen, c \in Day : k # g \/ c # d => count'[k][c] = count[k][c] /\ sent'[k][c] = sent[k][c]
  <2>1. count \in [Gen -> [Day -> Nat]] /\ sent \in [Gen -> [Day -> Nat]]
    BY DEF HInv, Shape
  <2>2. /\ Bump(count, count', g, d) /\ Bump(sent, sent', g, d)
    BY <1>g DEF Reserve, Delivered, SendFails, mail, Bump
  <2>3. /\ count' \in [Gen -> [Day -> Nat]]
        /\ \A k \in Gen, c \in Day : k # g \/ c # d => count'[k][c] = count[k][c]
    BY <2>1, <2>2, Bumped
  <2>4. /\ sent' \in [Gen -> [Day -> Nat]]
        /\ \A k \in Gen, c \in Day : k # g \/ c # d => sent'[k][c] = sent[k][c]
    BY <2>1, <2>2, Bumped
  <2> QED BY <2>3, <2>4
<1>5. Shape' /\ ContextInv' /\ ClockInv' /\ RefsInv' /\ InPlace
  BY <1>0, <1>2, <1>3, <1>4, HostInv DEF Inside
<1>6. \A k \in Gen, c \in Day : k # g \/ c # d => Sending(k, c)' = Sending(k, c)
  BY <1>2, <1>g DEF Moves, Sending, At
<1>7. /\ count[g][d] = sent[g][d] + Cardinality(Sending(g, d))
      /\ quota # NoQuota => count[g][d] <= quota
  BY <1>1 DEF HInv, MailInv
<1>8. /\ count'[g][d] = sent'[g][d] + Cardinality(Sending(g, d)')
      /\ quota # NoQuota => count'[g][d] <= quota
  <2>1. CASE Reserve(e) /\ entry'[e].pc = "send"
    <3>1. Sending(g, d)' = Sending(g, d) \cup {e} /\ e \notin Sending(g, d)
      BY <1>2, <1>g, <2>1 DEF Moves, Sending, At, Reserve
    <3>2. Cardinality(Sending(g, d)') = Cardinality(Sending(g, d)) + 1
      BY <3>1, FiniteSets, FS_AddElement
    <3>3. /\ count'[g][d] = count[g][d] + 1 /\ sent'[g][d] = sent[g][d]
          /\ ~(quota # NoQuota /\ count[g][d] + 1 > quota)
      BY <1>1, <1>g, <2>1 DEF HInv, Shape, Visit, Reserve, Step, At, Charge, current_quota
    <3>4. quota # NoQuota => quota \in Nat
      BY DEF HInv, Shape
    <3> QED BY <1>1, <1>7, <3>2, <3>3, <3>4, FiniteSets
  <2>2. CASE Reserve(e) /\ entry'[e].pc = "js"
    <3>1. Sending(g, d)' = Sending(g, d)
      BY <1>2, <1>g, <2>2 DEF Moves, Sending, At, Reserve
    <3>2. count'[g][d] = count[g][d] /\ sent'[g][d] = sent[g][d]
      BY <1>1, <1>g, <2>2 DEF HInv, Shape, Visit, Reserve, Step, At
    <3> QED BY <1>7, <3>1, <3>2
  <2>3. CASE Delivered(e) \/ SendFails(e)
    <3>0. entry[e].pc = "send" /\ entry'[e].pc = "js"
      BY <1>1, <2>3 DEF At, Delivered, SendFails, Step, HInv, Shape, Visit
    <3>1. Sending(g, d)' = Sending(g, d) \ {e} /\ e \in Sending(g, d)
      BY <1>2, <1>g, <3>0 DEF Moves, Sending, At
    <3>2. Cardinality(Sending(g, d)') = Cardinality(Sending(g, d)) - 1 /\ Cardinality(Sending(g, d)) # 0
      <4>1. IsFiniteSet(Sending(g, d))
        BY FiniteSets
      <4> QED BY <3>1, <4>1, FS_RemoveElement, FS_EmptySet
    <3>3. \/ count'[g][d] = count[g][d] /\ sent'[g][d] = sent[g][d] + 1
          \/ count'[g][d] = (IF count[g][d] > 0 THEN count[g][d] - 1 ELSE count[g][d]) /\ sent'[g][d] = sent[g][d]
      BY <1>1, <1>g, <2>3 DEF HInv, Shape, Delivered, SendFails
    <3>4. quota # NoQuota => quota \in Nat
      BY DEF HInv, Shape
    <3>5. Cardinality(Sending(g, d)) \in Nat
      BY FiniteSets
    <3>6. count[g][d] > 0
      BY <1>1, <1>7, <3>2, <3>5
    <3> QED BY <1>1, <1>7, <3>2, <3>3, <3>4, <3>5, <3>6
  <2> QED BY <1>2, <2>1, <2>2, <2>3
<1>9. MailInv'
  <2> SUFFICES ASSUME NEW k \in Gen, NEW c \in Day
               PROVE  /\ count'[k][c] = sent'[k][c] + Cardinality(Sending(k, c)')
                      /\ quota # NoQuota => count'[k][c] <= quota
    BY <1>3 DEF MailInv, time
  <2>1. CASE k # g \/ c # d
    BY <2>1, <1>4, <1>6 DEF HInv, MailInv
  <2>2. CASE k = g /\ c = d
    BY <2>2, <1>8
  <2> QED BY <2>1, <2>2
<1> QED BY <1>5, <1>9 DEF HInv

-----------------------------------------------------------------------------
(* Coming and going. *)

\* Others on the generation keep everything but `alone`.
LEMMA CrowdFacts ==
  ASSUME Shape, NEW g, NEW e \in Entry
  PROVE  /\ Crowd(g, e) \in [Entry -> Visit]
         /\ \A x \in Entry : LET y == Crowd(g, e)[x] IN
              /\ y.pc = entry[x].pc /\ y.g = entry[x].g /\ y.kind = entry[x].kind
              /\ y.armed = entry[x].armed /\ y.late = entry[x].late /\ y.seen = entry[x].seen /\ y.day = entry[x].day
              /\ y.alone => entry[x].alone
              /\ x \in On(g) \ {e} => ~y.alone
<1> SUFFICES ASSUME NEW x \in Entry
             PROVE  LET y == Crowd(g, e)[x] IN
              /\ y \in Visit
              /\ y.pc = entry[x].pc /\ y.g = entry[x].g /\ y.kind = entry[x].kind
              /\ y.armed = entry[x].armed /\ y.late = entry[x].late /\ y.seen = entry[x].seen /\ y.day = entry[x].day
              /\ y.alone => entry[x].alone
              /\ x \in On(g) \ {e} => ~y.alone
  BY DEF Crowd
<1>1. entry[x] \in Visit
  BY DEF Shape
<1>2. CASE x \in On(g) \ {e}
  <2>1. Crowd(g, e)[x] = [entry[x] EXCEPT !.alone = FALSE]
    BY <1>2 DEF Crowd
  <2> QED BY <1>1, <2>1 DEF Visit
<1>3. CASE x \notin On(g) \ {e}
  <2>1. Crowd(g, e)[x] = entry[x]
    BY <1>3 DEF Crowd
  <2> QED BY <1>1, <1>3, <2>1
<1> QED BY <1>2, <1>3

One(p) == IF p THEN 1 ELSE 0

\* What the count of a generation says.
LEMMA CountFacts ==
  ASSUME HInv, NEW x \in Gen
  PROVE  /\ strong[x] \in Nat /\ Cardinality(On(x)) \in Nat /\ Cardinality(Keeping(x)) \in Nat
         /\ Mapped(x) = One(current = x) /\ strong[x] = Cardinality(On(x)) + Cardinality(Keeping(x)) + One(current = x)
         /\ \A a \in Admin : admin[a].g = x => strong[x] > 0
         /\ current = x => strong[x] > 0
         /\ Loading(x) => Cardinality(Keeping(x)) = 1 /\ current # x /\ On(x) = {}
<1>1. strong[x] \in Nat /\ Cardinality(On(x)) \in Nat /\ Cardinality(Keeping(x)) \in Nat /\ IsFiniteSet(On(x))
  BY FiniteSets DEF HInv, Shape
<1>2. Mapped(x) = One(current = x) /\ strong[x] = Cardinality(On(x)) + Cardinality(Keeping(x)) + One(current = x)
  BY DEF HInv, RefsInv, Mapped, One
<1>3. ASSUME NEW a \in Admin, admin[a].g = x PROVE Cardinality(Keeping(x)) # 0
  <2>1. IsFiniteSet(Keeping(x)) /\ a \in Keeping(x)
    BY <1>3, FiniteSets DEF Keeping
  <2> QED BY <2>1, FS_EmptySet
<1>4. ASSUME Loading(x) PROVE Cardinality(Keeping(x)) = 1 /\ current # x /\ On(x) = {}
  <2>1. strong[x] = 1 /\ Cardinality(Keeping(x)) # 0
    BY <1>3, <1>4 DEF HInv, RefsInv, Loading
  <2>2. Cardinality(Keeping(x)) = 1 /\ current # x /\ Cardinality(On(x)) = 0
    BY <1>1, <1>2, <2>1 DEF One
  <2> QED BY <1>1, <2>2, FS_EmptySet
<1> QED BY <1>1, <1>2, <1>3, <1>4 DEF One

\* A reference more, held by an entry or an administrator, changes no scheduler.
LEMMA RefsStep ==
  ASSUME HInv, Shape', UNCHANGED src, cron' = {g \in cron : strong'[g] > 0},
         \A g \in Gen : strong'[g] = (Cardinality(On(g)) + Cardinality(Keeping(g)) + Mapped(g))',
         \A g \in Gen : strong'[g] > 0 /\ ~Loading(g)' => strong[g] > 0 /\ ~Loading(g),
         \A g \in Gen : Loading(g)' => Loading(g) /\ strong'[g] = strong[g]
  PROVE  RefsInv'
<1> SUFFICES ASSUME NEW g \in Gen
             PROVE  /\ g \in cron' => strong'[g] > 0 /\ ValidExpression(g)'
                    /\ strong'[g] > 0 /\ ~Loading(g)' /\ ValidExpression(g)' => g \in cron'
                    /\ Loading(g)' => strong'[g] = 1 /\ g \notin cron'
  BY DEF RefsInv
<1>1. ValidExpression(g)' <=> ValidExpression(g)
  BY DEF ValidExpression
<1> QED BY <1>1 DEF HInv, RefsInv

LEMMA EnterInv ==
  ASSUME HInv, NEW e \in Entry, NEW g \in 1..built, strong[g] > 0, ~Loading(g),
         NEW kind \in {"before", "after", "route", "cron"}, Enter(e, g, kind)
  PROVE  HInv'
<1>1. g \in Gen /\ now \in Nat /\ entry[e].pc = "out" /\ now + Budget \in Nat
  BY HookConstants DEF HInv, Shape, Gen, Enter, At
<1> DEFINE v == [Out EXCEPT !.pc = "wait", !.g = g, !.kind = kind, !.armed = now, !.alone = On(g) = {}]
<1>2. /\ v \in Visit /\ v.pc = "wait" /\ v.g = g /\ v.armed = now /\ ~v.late
      /\ v.alone => On(g) = {}
  <2>1. PICK b \in BOOLEAN : b = (On(g) = {})
    OBVIOUS
  <2>3. v = [Out EXCEPT !.pc = "wait", !.g = g, !.kind = kind, !.armed = now, !.alone = b]
    BY <2>1
  <2>4. b => On(g) = {}
    BY <2>1
  <2> HIDE DEF v
  <2>2. g \in 0..MaxGen /\ 0 \in Day
    BY <1>1, HookConstants DEF Gen, Day
  <2> QED BY <1>1, <2>2, <2>3, <2>4 DEF Visit, Out
<1>3. /\ entry' = [Crowd(g, e) EXCEPT ![e] = v]
      /\ strong' = [strong EXCEPT ![g] = @ + 1] /\ cron' = cron
      /\ deadline' = [deadline EXCEPT ![g] = now + Budget]
      /\ UNCHANGED <<file, current, src, holder, request, cut, mail, admin, time, built>>
  BY DEF Enter, Clone, arm
<1> HIDE DEF v
<1>4. /\ entry' \in [Entry -> Visit] /\ entry'[e] = v
      /\ \A x \in Entry \ {e} : entry'[x] = Crowd(g, e)[x]
  BY <1>2, <1>3, CrowdFacts DEF HInv
<1>5. Shape'
  BY <1>1, <1>2, <1>3, <1>4, CrowdFacts DEF HInv, Shape, mail, time
<1>6. ContextInv'
  <2>1. \A x \in Entry : Running(x)' => /\ Running(x) /\ entry'[x].g = entry[x].g
                                        /\ entry'[x].kind = entry[x].kind /\ entry'[x].seen = entry[x].seen
    BY <1>2, <1>4, CrowdFacts DEF HInv, Running
  <2> QED BY <1>3, <2>1 DEF HInv, ContextInv, Driver
<1>7. ClockInv'
  <2> SUFFICES ASSUME NEW x \in Entry, entry'[x].pc # "out", entry'[x].alone
               PROVE  ~entry'[x].late /\ deadline'[entry'[x].g] = entry'[x].armed + Budget
    BY DEF ClockInv
  <2>1. CASE x = e
    BY <1>1, <1>2, <1>3, <1>4, <2>1 DEF HInv, Shape
  <2>2. CASE x # e
    <3>1. /\ entry[x].pc # "out" /\ entry[x].alone /\ x \notin On(g) /\ entry'[x].g = entry[x].g
          /\ entry'[x].late = entry[x].late /\ entry'[x].armed = entry[x].armed
      BY <1>4, <2>2, CrowdFacts DEF HInv
    <3>2. entry[x].g # g /\ entry[x].g \in Gen
      BY <3>1, GenOf DEF On, HInv
    <3> QED BY <1>3, <3>1, <3>2 DEF HInv, ClockInv, Shape
  <2> QED BY <2>1, <2>2
<1>8. RefsInv'
  <2>1. On(g)' = On(g) \cup {e} /\ e \notin On(g) /\ \A k \in Gen \ {g} : On(k)' = On(k)
    BY <1>1, <1>2, <1>4, CrowdFacts DEF HInv, On
  <2>2. Cardinality(On(g)') = Cardinality(On(g)) + 1
    <3>1. IsFiniteSet(On(g))
      BY FiniteSets
    <3>2. Cardinality(On(g) \cup {e}) = Cardinality(On(g)) + 1
      BY <2>1, <3>1, FS_AddElement
    <3> QED BY <2>1, <3>2
  <2>3. \A k : Keeping(k)' = Keeping(k) /\ Mapped(k)' = Mapped(k) /\ (Loading(k)' <=> Loading(k))
    BY <1>3 DEF Keeping, Mapped, Loading
  <2>4. \A k \in Gen : strong'[k] = IF k = g THEN strong[k] + 1 ELSE strong[k]
    BY <1>3 DEF HInv, Shape
  <2>5. \A k \in Gen : strong'[k] = (Cardinality(On(k)) + Cardinality(Keeping(k)) + Mapped(k))'
    <3> SUFFICES ASSUME NEW k \in Gen
                 PROVE  strong'[k] = Cardinality(On(k)') + Cardinality(Keeping(k)) + Mapped(k)
      BY <2>3
    <3>1. strong[k] = Cardinality(On(k)) + Cardinality(Keeping(k)) + Mapped(k) /\ Mapped(k) \in Nat
      BY DEF HInv, RefsInv, Mapped
    <3> QED BY <2>1, <2>2, <2>4, <3>1, FiniteSets
  <2>6. \A k \in Gen : strong'[k] > 0 => strong[k] > 0
    BY <2>4
  <2>7. cron' = {k \in cron : strong'[k] > 0}
    <3>1. \A k \in cron : k \in Gen /\ strong[k] \in Nat /\ strong[k] > 0
      <4>1. \A k \in cron : k \in Gen
        BY HookConstants DEF HInv, Shape, Gen
      <4>2. \A k \in Gen : strong[k] \in Nat
        BY DEF HInv, Shape
      <4>3. \A k \in Gen : k \in cron => strong[k] > 0
        BY DEF HInv, RefsInv
      <4> QED BY <4>1, <4>2, <4>3
    <3>2. \A k \in cron : strong'[k] > 0
      BY <2>4, <3>1
    <3>3. cron' = cron
      BY <1>3
    <3> QED BY <3>2, <3>3
  <2>8. \A k \in Gen : Loading(k)' => Loading(k) /\ strong'[k] = strong[k]
    BY <2>3, <2>4
  <2> QED BY <1>3, <1>5, <2>3, <2>5, <2>6, <2>7, <2>8, RefsStep
<1>9. MailInv'
  <2>1. \A k, d : Sending(k, d)' = Sending(k, d)
    BY <1>1, <1>2, <1>4, CrowdFacts DEF HInv, Sending, At
  <2> QED BY <1>3, <2>1 DEF HInv, MailInv, mail, time
<1> QED BY <1>5, <1>6, <1>7, <1>8, <1>9 DEF HInv

LEMMA LeaveInv ==
  ASSUME HInv, NEW e \in Entry, Leave(e)
  PROVE  HInv'
<1>0. entry[e].pc = "leave"
  BY DEF Leave, At
<1>1. PICK g \in Gen : g = entry[e].g
  BY <1>0, GenOf DEF HInv
<1>2. Out \in Visit /\ Out.pc = "out"
  BY HookConstants DEF Out, Visit, Day
<1>3. /\ entry' = [Crowd(g, e) EXCEPT ![e] = Out]
      /\ strong' = [strong EXCEPT ![g] = @ - 1] /\ cron' = {k \in cron : strong'[k] > 0}
      /\ deadline' = [deadline EXCEPT ![g] = 0]
      /\ UNCHANGED <<file, current, src, holder, request, cut, mail, admin, time, built>>
  BY <1>1 DEF Leave, Release, Drop, disarm
<1>4. /\ entry' \in [Entry -> Visit] /\ entry'[e] = Out
      /\ \A x \in Entry \ {e} : entry'[x] = Crowd(g, e)[x]
  BY <1>2, <1>3, CrowdFacts DEF HInv
<1>5. On(g)' = On(g) \ {e} /\ e \in On(g) /\ \A k \in Gen \ {g} : On(k)' = On(k)
  <2>1. \A x \in Entry \ {e} : entry'[x].pc = entry[x].pc /\ entry'[x].g = entry[x].g
    BY <1>4, CrowdFacts DEF HInv
  <2> QED BY <1>0, <1>1, <1>2, <1>4, <2>1 DEF On
<1>6. Cardinality(On(g)') = Cardinality(On(g)) - 1 /\ Cardinality(On(g)) > 0
  <2>1. IsFiniteSet(On(g)) /\ Cardinality(On(g)) \in Nat
    BY FiniteSets
  <2> QED BY <1>5, <2>1, FS_RemoveElement, FS_EmptySet
<1>7. \A k \in Gen : strong[k] = Cardinality(On(k)) + Cardinality(Keeping(k)) + Mapped(k) /\ Mapped(k) \in Nat
  BY DEF HInv, RefsInv, Mapped
<1>8. strong' \in [Gen -> Nat] /\ \A k \in Gen : strong'[k] = IF k = g THEN strong[k] - 1 ELSE strong[k]
  <2>1. strong[g] \in Nat /\ strong[g] > 0
    BY <1>1, <1>6, <1>7, FiniteSets DEF HInv, Shape
  <2>2. strong \in [Gen -> Nat] /\ strong[g] - 1 \in Nat
    BY <2>1 DEF HInv, Shape
  <2> QED BY <1>1, <1>3, <2>2
<1>9. Shape'
  <2>1. \A x \in Entry : entry'[x].pc # "out" => entry'[x].g \in 1..built
    <3>1. \A x \in Entry \ {e} : entry'[x].pc = entry[x].pc /\ entry'[x].g = entry[x].g
      BY <1>4, CrowdFacts DEF HInv
    <3> QED BY <1>2, <1>4, <3>1 DEF HInv, Shape
  <2>2. cron' \subseteq cron /\ deadline' \in [Gen -> Nat]
    BY <1>3 DEF HInv, Shape
  <2> QED BY <1>3, <1>4, <1>8, <2>1, <2>2 DEF HInv, Shape, mail, time
<1>10. ContextInv'
  <2>1. \A x \in Entry : Running(x)' => /\ Running(x) /\ entry'[x].g = entry[x].g
                                        /\ entry'[x].kind = entry[x].kind /\ entry'[x].seen = entry[x].seen
    BY <1>2, <1>4, CrowdFacts DEF HInv, Running
  <2> QED BY <1>3, <2>1 DEF HInv, ContextInv, Driver
<1>11. ClockInv'
  <2> SUFFICES ASSUME NEW x \in Entry, entry'[x].pc # "out", entry'[x].alone
               PROVE  ~entry'[x].late /\ deadline'[entry'[x].g] = entry'[x].armed + Budget
    BY DEF ClockInv
  <2>1. x # e
    BY <1>2, <1>4
  <2>2. /\ entry[x].pc # "out" /\ entry[x].alone /\ x \notin On(g) /\ entry'[x].g = entry[x].g
        /\ entry'[x].late = entry[x].late /\ entry'[x].armed = entry[x].armed
    BY <1>4, <2>1, CrowdFacts DEF HInv
  <2>3. entry[x].g # g /\ entry[x].g \in Gen
    BY <2>2, GenOf DEF On, HInv
  <2> QED BY <1>3, <2>2, <2>3 DEF HInv, ClockInv, Shape
<1>12. RefsInv'
  <2>1. \A k : Keeping(k)' = Keeping(k) /\ Mapped(k)' = Mapped(k) /\ (Loading(k)' <=> Loading(k))
    BY <1>3 DEF Keeping, Mapped, Loading
  <2>2. \A k \in Gen : strong'[k] = (Cardinality(On(k)) + Cardinality(Keeping(k)) + Mapped(k))'
    <3> SUFFICES ASSUME NEW k \in Gen
                 PROVE  strong'[k] = Cardinality(On(k)') + Cardinality(Keeping(k)) + Mapped(k)
      BY <2>1
    <3>1. CASE k = g
      BY <1>6, <1>7, <1>8, <3>1, FiniteSets
    <3>2. CASE k # g
      BY <1>5, <1>7, <1>8, <3>2
    <3> QED BY <3>1, <3>2
  <2>3. \A k \in Gen : strong'[k] > 0 => strong[k] > 0
    <3>1. \A k \in Gen : strong[k] \in Nat
      BY DEF HInv, Shape
    <3> QED BY <1>8, <3>1
  <2>4. \A k \in Gen : Loading(k)' => Loading(k) /\ strong'[k] = strong[k]
    BY <1>5, <1>8, <2>1, CountFacts
  <2> QED BY <1>3, <1>9, <2>1, <2>2, <2>3, <2>4, RefsStep
<1>13. MailInv'
  <2>1. \A k, d : Sending(k, d)' = Sending(k, d)
    BY <1>0, <1>2, <1>4, CrowdFacts DEF HInv, Sending, At
  <2> QED BY <1>3, <2>1 DEF HInv, MailInv, mail, time
<1> QED BY <1>9, <1>10, <1>11, <1>12, <1>13 DEF HInv

-----------------------------------------------------------------------------
(* Loads and reloads. *)

\* An administrator's request moves its reference from one generation to another, 0 for none.
LEMMA GoFacts ==
  ASSUME HInv, NEW a \in Admin, NEW pc \in {"idle", "load", "crons", "insert", "get", "drain"},
         NEW k \in 0..MaxGen, Go(a, pc, k)
  PROVE  /\ admin' \in [Admin -> Work] /\ admin'[a].pc = pc /\ admin'[a].g = k
         /\ \A b \in Admin \ {a} : admin'[b] = admin[b]
         /\ \A x \in Gen :
              Cardinality(Keeping(x)') = Cardinality(Keeping(x)) - One(admin[a].g = x) + One(k = x)
<1>1. /\ admin' \in [Admin -> Work] /\ admin'[a].pc = pc /\ admin'[a].g = k
      /\ \A b \in Admin \ {a} : admin'[b] = admin[b]
  BY DEF Go, HInv, Shape, Work
<1>2. ASSUME NEW x \in Gen
      PROVE  Cardinality(Keeping(x)') = Cardinality(Keeping(x)) - One(admin[a].g = x) + One(k = x)
  <2> DEFINE R == Keeping(x) \ {a}
  <2>1. IsFiniteSet(Keeping(x)) /\ Cardinality(Keeping(x)) \in Nat /\ (a \in Keeping(x) <=> admin[a].g = x)
    BY FiniteSets DEF Keeping
  <2>2. IsFiniteSet(R) /\ Cardinality(R) = Cardinality(Keeping(x)) - One(admin[a].g = x)
    BY <2>1, FS_RemoveElement DEF One
  <2>3. Keeping(x)' = IF k = x THEN R \cup {a} ELSE R
    BY <1>1 DEF Keeping
  <2>4. Cardinality(R \cup {a}) = Cardinality(R) + 1 /\ Cardinality(R) \in Nat
    BY <2>2, FS_AddElement, FS_CardinalityType
  <2> QED BY <2>2, <2>3, <2>4 DEF One
<1> QED BY <1>1, <1>2

LEMMA Bounds ==
  ASSUME HInv
  PROVE  /\ built \in 0..MaxGen /\ built <= built /\ current \in 0..built /\ 0 \in 0..MaxGen
         /\ Gen \subseteq 0..MaxGen /\ 0 \notin Gen /\ 1..built \subseteq Gen
         /\ current # 0 => current \in 1..built
         /\ file \in Source \cup {Absent} /\ src \in [Gen -> Loaded]
         /\ strong \in [Gen -> Nat] /\ cron \subseteq 1..built
<1>1. MaxGen \in Nat /\ built \in 0..MaxGen /\ current \in 0..built
  BY HookConstants DEF HInv, Shape
<1>2. /\ built <= built /\ 0 \in 0..MaxGen /\ Gen \subseteq 0..MaxGen /\ 0 \notin Gen /\ 1..built \subseteq Gen
      /\ current # 0 => current \in 1..built
  BY <1>1 DEF Gen
<1> QED BY <1>1, <1>2 DEF HInv, Shape

\* What such a step can only disturb by its references.
LEMMA AdminInv ==
  ASSUME HInv, NEW a \in Admin, NEW pc \in {"idle", "load", "crons", "insert", "get", "drain"},
         NEW k \in 0..MaxGen, Go(a, pc, k),
         UNCHANGED <<context, mail, entry, time>>,
         file' \in Source \cup {Absent}, src' \in [Gen -> Loaded],
         built' \in 0..MaxGen, built <= built', current' \in 0..built', current # 0 => current' # 0,
         strong' \in [Gen -> Nat], cron' \subseteq 1..built',
         pc \in {"crons", "insert", "drain"} => k \in 1..built',
         pc \in {"idle", "load", "get"} => k = 0,
         pc = "get" => current' # 0
  PROVE  Shape' /\ ContextInv' /\ ClockInv' /\ MailInv'
<1>1. /\ admin' \in [Admin -> Work] /\ admin'[a].pc = pc /\ admin'[a].g = k
      /\ \A b \in Admin \ {a} : admin'[b] = admin[b]
  BY GoFacts
<1>2. built \in 0..MaxGen /\ 1..built \subseteq 1..built'
  BY DEF HInv, Shape
<1>3. \A b \in Admin : /\ admin'[b].pc \in {"crons", "insert", "drain"} => admin'[b].g \in 1..built'
                       /\ admin'[b].pc \in {"idle", "load", "get"} => admin'[b].g = 0
                       /\ admin'[b].pc = "get" => current' # 0
  BY <1>1, <1>2 DEF HInv, Shape
<1>4. \A e \in Entry : entry'[e].pc # "out" => entry'[e].g \in 1..built'
  BY <1>2 DEF HInv, Shape
<1>5. Shape'
  BY <1>1, <1>3, <1>4 DEF HInv, Shape, context, mail, time
<1>6. InPlace /\ NoMail
  BY DEF HInv, Shape, InPlace, NoMail
<1>7. ContextInv'
  BY <1>6, ContextStays DEF HInv
<1>8. MailInv'
  BY <1>6, MailStays DEF HInv, time
<1>9. ClockInv'
  BY DEF HInv, ClockInv, context
<1> QED BY <1>5, <1>7, <1>8, <1>9

LEMMA CommandInv ==
  ASSUME HInv, NEW a \in Admin,
         \/ \E n \in Name : (\E s \in Source : Put(a, n, s)) \/ Delete(a, n)
         \/ Reload(a)
  PROVE  HInv'
<1>1. /\ admin[a].pc = "idle" /\ Go(a, "load", 0) /\ file' \in Source \cup {Absent}
      /\ UNCHANGED <<current, src, refs, context, mail, entry, time, built>>
  BY DEF Put, Delete, Reload, IsFree, HInv, Shape
<1>2. /\ strong' = strong /\ cron' = cron /\ current' = current /\ src' = src /\ built' = built
      /\ 0 \in 0..MaxGen /\ admin[a].g = 0 /\ built \in Nat
  BY <1>1, HookConstants DEF refs, HInv, Shape
<1>3. Shape' /\ ContextInv' /\ ClockInv' /\ MailInv'
  BY <1>1, <1>2, Bounds, AdminInv
<1>4. /\ admin'[a].pc = "load" /\ \A b \in Admin \ {a} : admin'[b] = admin[b]
      /\ \A x \in Gen : Cardinality(Keeping(x)') = Cardinality(Keeping(x)) - One(admin[a].g = x) + One(0 = x)
  <2>1. "load" \in {"idle", "load", "crons", "insert", "get", "drain"}
    OBVIOUS
  <2>2. Go(a, "load", 0) /\ 0 \in 0..MaxGen
    BY <1>1, <1>2
  <2> QED BY <2>1, <2>2, GoFacts
<1>5. \A x \in Gen : x # 0
  BY DEF Gen
<1>6. RefsInv'
  <2> SUFFICES ASSUME NEW x \in Gen
               PROVE  /\ strong[x] = Cardinality(On(x)') + Cardinality(Keeping(x)') + Mapped(x)'
                      /\ x \in cron => strong[x] > 0 /\ ValidExpression(x)'
                      /\ strong[x] > 0 /\ ~Loading(x)' /\ ValidExpression(x)' => x \in cron
                      /\ Loading(x)' => strong[x] = 1 /\ x \notin cron
    BY <1>2 DEF RefsInv
  <2>1. Cardinality(Keeping(x)') = Cardinality(Keeping(x))
    BY <1>2, <1>4, <1>5, CountFacts DEF One
  <2>2. On(x)' = On(x) /\ Mapped(x)' = Mapped(x) /\ (ValidExpression(x)' <=> ValidExpression(x))
    BY <1>1, <1>2 DEF On, Mapped, ValidExpression
  <2>3. Loading(x) <=> Loading(x)'
    BY <1>1, <1>4 DEF Loading
  <2> QED BY <2>1, <2>2, <2>3 DEF HInv, RefsInv
<1> QED BY <1>3, <1>6 DEF HInv

LEMMA LoadInv ==
  ASSUME HInv, NEW a \in Admin, load_dir(a)
  PROVE  HInv'
<1>1. PICK g \in Gen : g = built + 1
  BY HookConstants DEF HInv, Shape, load_dir, Gen
<1>2. /\ admin[a].pc = "load" /\ built' = g
      /\ src' = [src EXCEPT ![g] = eval(file)]
      /\ strong' = [strong EXCEPT ![g] = @ + 1] /\ cron' = cron /\ Go(a, "crons", g)
      /\ UNCHANGED <<file, current, context, mail, entry, time>>
  BY <1>1 DEF load_dir, Clone
<1>3. /\ built \in Nat /\ g \in 0..MaxGen /\ g \in 1..built' /\ built' \in 0..MaxGen /\ built <= built'
      /\ current \in 0..built' /\ cron \subseteq 1..built' /\ g \notin cron
  BY <1>1, <1>2, HookConstants DEF HInv, Shape, Gen
<1>4. /\ src' \in [Gen -> Loaded] /\ \A x \in Gen \ {g} : src'[x] = src[x]
      /\ strong' \in [Gen -> Nat] /\ \A x \in Gen : strong'[x] = strong[x] + One(x = g)
  BY <1>2 DEF HInv, Shape, eval, One, Loaded
<1>5. Shape' /\ ContextInv' /\ ClockInv' /\ MailInv'
  BY <1>2, <1>3, <1>4, AdminInv DEF HInv, Shape
<1>6. /\ admin'[a].pc = "crons" /\ admin'[a].g = g /\ \A b \in Admin \ {a} : admin'[b] = admin[b]
      /\ \A x \in Gen : Cardinality(Keeping(x)') = Cardinality(Keeping(x)) - One(admin[a].g = x) + One(g = x)
  <2>1. Go(a, "crons", g) /\ g \in 0..MaxGen
    BY <1>2, <1>3
  <2> QED BY <2>1, GoFacts
<1>7. \A x \in Gen : admin[a].g # x
  BY <1>2 DEF HInv, Shape, Gen
<1>8. RefsInv'
  <2> SUFFICES ASSUME NEW x \in Gen
               PROVE  /\ strong'[x] = Cardinality(On(x)') + Cardinality(Keeping(x)') + Mapped(x)'
                      /\ x \in cron => strong'[x] > 0 /\ ValidExpression(x)'
                      /\ strong'[x] > 0 /\ ~Loading(x)' /\ ValidExpression(x)' => x \in cron
                      /\ Loading(x)' => strong'[x] = 1 /\ x \notin cron
    BY <1>2 DEF RefsInv
  <2>1. On(x)' = On(x) /\ Mapped(x)' = Mapped(x)
    BY <1>2 DEF On, Mapped
  <2>2. strong'[x] = Cardinality(On(x)') + Cardinality(Keeping(x)') + Mapped(x)'
    BY <1>4, <1>6, <1>7, <2>1, CountFacts DEF One
  <2>3. CASE x = g
    <3>1. On(g) = {} /\ Keeping(g) = {} /\ current # g
      <4>1. \A y \in 0..built : y # g
        BY <1>1, <1>3
      <4>2. \A b \in Admin : admin[b].g \in 0..built
        <5>1. \A b \in Admin : admin[b].pc \in {"crons", "insert", "drain"} \/ admin[b].pc \in {"idle", "load", "get"}
          BY DEF HInv, Shape, Work
        <5>2. \A b \in Admin : admin[b].g = 0 \/ admin[b].g \in 1..built
          BY <5>1 DEF HInv, Shape
        <5> QED BY <1>3, <5>2
      <4>3. \A e \in Entry : entry[e].pc # "out" => entry[e].g \in 0..built
        BY <1>3 DEF HInv, Shape
      <4> QED BY <4>1, <4>2, <4>3, Bounds DEF On, Keeping
    <3>2. strong[g] = 0
      <4>1. strong[g] = Cardinality({}) + Cardinality({}) + 0
        BY <3>1, CountFacts DEF One
      <4> QED BY <4>1, FS_EmptySet
    <3> QED BY <1>3, <1>4, <1>6, <2>2, <2>3, <3>2 DEF Loading, One
  <2>4. CASE x # g
    <3>1. strong'[x] = strong[x] /\ (ValidExpression(x)' <=> ValidExpression(x))
      BY <1>4, <2>4, CountFacts DEF One, ValidExpression
    <3>2. Loading(x) <=> Loading(x)'
      BY <1>2, <1>6, <2>4 DEF Loading
    <3> QED BY <2>2, <3>1, <3>2 DEF HInv, RefsInv
  <2> QED BY <2>3, <2>4
<1> QED BY <1>5, <1>8 DEF HInv

\* The only user of a generation.
LEMMA NoPair ==
  ASSUME NEW x, Cardinality(Keeping(x)) = 1, NEW a \in Keeping(x), NEW b \in Keeping(x)
  PROVE  a = b
BY FiniteSets, FS_Singleton

LEMMA StartInv ==
  ASSUME HInv, NEW a \in Admin, start_cron_tasks(a)
  PROVE  HInv'
<1>1. PICK g \in 1..built : g = admin[a].g
  BY DEF HInv, Shape, start_cron_tasks
<1>2. /\ admin[a].pc = "crons" /\ Go(a, "insert", g)
      /\ cron' = IF ValidExpression(g) THEN cron \cup {g} ELSE cron
      /\ strong' = strong /\ current' = current /\ src' = src /\ built' = built /\ file' = file
      /\ UNCHANGED <<context, mail, entry, time>>
  BY <1>1 DEF start_cron_tasks, PendingCron, ValidExpression
<1>3. built \in 0..MaxGen /\ g \in Gen /\ g \in 0..MaxGen /\ cron' \subseteq 1..built
  BY <1>1, <1>2, Bounds
<1>4. Shape' /\ ContextInv' /\ ClockInv' /\ MailInv'
  BY <1>1, <1>2, <1>3, Bounds, AdminInv
<1>5. /\ admin'[a].pc = "insert" /\ admin'[a].g = g /\ \A b \in Admin \ {a} : admin'[b] = admin[b]
      /\ \A x \in Gen : Cardinality(Keeping(x)') = Cardinality(Keeping(x)) - One(admin[a].g = x) + One(g = x)
  <2>1. "insert" \in {"idle", "load", "crons", "insert", "get", "drain"}
    OBVIOUS
  <2>2. Go(a, "insert", g) /\ g \in 0..MaxGen
    BY <1>2, <1>3
  <2> QED BY <2>1, <2>2, GoFacts
<1>6. RefsInv'
  <2> SUFFICES ASSUME NEW x \in Gen
               PROVE  /\ strong[x] = Cardinality(On(x)') + Cardinality(Keeping(x)') + Mapped(x)'
                      /\ x \in cron' => strong[x] > 0 /\ ValidExpression(x)'
                      /\ strong[x] > 0 /\ ~Loading(x)' /\ ValidExpression(x)' => x \in cron'
                      /\ Loading(x)' => strong[x] = 1 /\ x \notin cron'
    BY <1>2 DEF RefsInv
  <2>1. On(x)' = On(x) /\ Mapped(x)' = Mapped(x) /\ (ValidExpression(x)' <=> ValidExpression(x))
    BY <1>2 DEF On, Mapped, ValidExpression
  <2>2. strong[x] = Cardinality(On(x)') + Cardinality(Keeping(x)') + Mapped(x)'
    BY <1>1, <1>5, <2>1, CountFacts DEF One
  <2>3. CASE x = g
    <3>1. Loading(g) /\ strong[g] = 1 /\ Cardinality(Keeping(g)) = 1
      BY <1>1, <1>2, <1>3, CountFacts DEF Loading, HInv, RefsInv
    <3>2. ~Loading(g)'
      <4> SUFFICES ASSUME NEW b \in Admin, admin'[b].pc = "crons", admin'[b].g = g PROVE FALSE
        BY DEF Loading
      <4>1. b # a /\ {a, b} \subseteq Keeping(g)
        BY <1>1, <1>5 DEF Keeping
      <4> QED BY <3>1, <4>1, NoPair
    <3> QED BY <1>2, <2>1, <2>2, <2>3, <3>1, <3>2 DEF HInv, RefsInv
  <2>4. CASE x # g
    <3>1. Loading(x) <=> Loading(x)'
      BY <1>1, <1>5, <2>4 DEF Loading
    <3> QED BY <1>2, <2>1, <2>2, <2>4, <3>1 DEF HInv, RefsInv
  <2> QED BY <2>3, <2>4
<1> QED BY <1>4, <1>6 DEF HInv

\* A schedule that has run out belongs to a generation that is past its load.
LEMMA ScheduleInv ==
  ASSUME HInv, NEW g \in Gen, ScheduleEnds(g)
  PROVE  HInv'
<1>1. /\ g \in cron /\ cron' = cron \ {g} /\ src' = [src EXCEPT ![g] = "over"]
      /\ UNCHANGED <<file, current, strong, context, mail, entry, admin, time, built>>
  BY DEF ScheduleEnds
<1>2. src' \in [Gen -> Loaded] /\ \A x \in Gen : src'[x] = IF x = g THEN "over" ELSE src[x]
  BY <1>1 DEF HInv, Shape, Loaded
<1>3. Shape' /\ InPlace /\ NoMail
  BY <1>1, <1>2 DEF HInv, Shape, InPlace, NoMail, context, mail, time
<1>4. ContextInv' /\ ClockInv' /\ MailInv'
  <2>1. ClockInv'
    BY <1>1 DEF HInv, ClockInv, context
  <2> QED BY <1>1, <1>3, <2>1, ContextStays, MailStays DEF HInv, time
<1>5. RefsInv'
  <2> SUFFICES ASSUME NEW x \in Gen
               PROVE  /\ strong[x] = Cardinality(On(x)') + Cardinality(Keeping(x)') + Mapped(x)'
                      /\ x \in cron' => strong[x] > 0 /\ ValidExpression(x)'
                      /\ strong[x] > 0 /\ ~Loading(x)' /\ ValidExpression(x)' => x \in cron'
                      /\ Loading(x)' => strong[x] = 1 /\ x \notin cron'
    BY <1>1 DEF RefsInv
  <2>1. On(x)' = On(x) /\ Keeping(x)' = Keeping(x) /\ Mapped(x)' = Mapped(x) /\ (Loading(x)' <=> Loading(x))
    BY <1>1 DEF On, Keeping, Mapped, Loading
  <2>2. ValidExpression(x)' <=> ValidExpression(x) /\ x # g
    BY <1>2 DEF ValidExpression
  <2> QED BY <1>1, <2>1, <2>2 DEF HInv, RefsInv
<1> QED BY <1>3, <1>4, <1>5 DEF HInv

LEMMA InsertInv ==
  ASSUME HInv, NEW a \in Admin, load_app_with(a)
  PROVE  HInv'
<1>1. PICK g \in 1..built : g = admin[a].g
  BY DEF HInv, Shape, load_app_with
<1>2. /\ admin[a].pc = "insert" /\ Go(a, "get", 0) /\ current' = g
      /\ strong' = [x \in Gen |-> IF x = current THEN strong[x] - 1 ELSE strong[x]]
      /\ cron' = {x \in cron : strong'[x] > 0}
      /\ src' = src /\ built' = built /\ file' = file
      /\ UNCHANGED <<context, mail, entry, time>>
  BY <1>1 DEF load_app_with, Drop
<1>3. built \in 0..MaxGen /\ g \in Gen /\ 0 \in 0..MaxGen /\ cron' \subseteq 1..built
  BY <1>1, <1>2, Bounds
<1>4. strong' \in [Gen -> Nat] /\ \A x \in Gen : strong'[x] = strong[x] - One(current = x)
  BY <1>2, CountFacts DEF One
<1>5. Shape' /\ ContextInv' /\ ClockInv' /\ MailInv'
  <2>1. current' \in 0..built' /\ current' # 0 /\ built' \in 0..MaxGen /\ built <= built' /\ cron' \subseteq 1..built'
    BY <1>1, <1>2, <1>3, Bounds
  <2>2. Go(a, "get", 0) /\ UNCHANGED <<context, mail, entry, time>>
    BY <1>2
  <2>3. file' \in Source \cup {Absent} /\ src' \in [Gen -> Loaded]
    BY <1>2, Bounds
  <2> QED BY <1>3, <1>4, <2>1, <2>2, <2>3, AdminInv
<1>6. /\ admin'[a].pc = "get" /\ \A b \in Admin \ {a} : admin'[b] = admin[b]
      /\ \A x \in Gen : Cardinality(Keeping(x)') = Cardinality(Keeping(x)) - One(admin[a].g = x) + One(0 = x)
  <2>1. "get" \in {"idle", "load", "crons", "insert", "get", "drain"}
    OBVIOUS
  <2>2. Go(a, "get", 0) /\ 0 \in 0..MaxGen
    BY <1>2, <1>3
  <2> QED BY <2>1, <2>2, GoFacts
<1>7. \A x \in Gen : strong'[x] = (Cardinality(On(x)) + Cardinality(Keeping(x)) + Mapped(x))'
  <2> SUFFICES ASSUME NEW x \in Gen
               PROVE  strong'[x] = Cardinality(On(x)') + Cardinality(Keeping(x)') + Mapped(x)'
    OBVIOUS
  <2>1. On(x)' = On(x) /\ Mapped(x)' = One(g = x) /\ 0 # x
    BY <1>2 DEF On, Mapped, One, Gen
  <2> QED BY <1>1, <1>4, <1>6, <2>1, CountFacts DEF One
<1>8. \A x \in Gen : strong'[x] > 0 /\ ~Loading(x)' => strong[x] > 0 /\ ~Loading(x)
  <2>1. \A x \in Gen : Loading(x) <=> Loading(x)'
    BY <1>2, <1>6 DEF Loading
  <2> QED BY <1>4, <2>1, CountFacts DEF One
<1>9. \A x \in Gen : Loading(x)' => Loading(x) /\ strong'[x] = strong[x]
  <2>1. \A x \in Gen : Loading(x) <=> Loading(x)'
    BY <1>2, <1>6 DEF Loading
  <2> QED BY <1>4, <2>1, CountFacts DEF One
<1> QED BY <1>2, <1>5, <1>7, <1>8, <1>9, RefsStep DEF HInv

LEMMA ReloadInv ==
  ASSUME HInv, NEW a \in Admin, reload_app(a)
  PROVE  HInv'
<1>1. PICK g \in 1..built : g = current
  BY DEF HInv, Shape, reload_app
<1>2. /\ admin[a].pc = "get" /\ Go(a, "drain", g) /\ current' = current
      /\ strong' = [strong EXCEPT ![g] = @ + 1] /\ cron' = cron
      /\ src' = src /\ built' = built /\ file' = file
      /\ UNCHANGED <<context, mail, entry, time>>
  BY <1>1 DEF reload_app, Clone
<1>3. built \in 0..MaxGen /\ g \in Gen /\ g \in 0..MaxGen /\ admin[a].g = 0
  <2>1. admin[a].g = 0
    BY <1>2 DEF HInv, Shape
  <2> QED BY <1>1, <2>1, Bounds
<1>4. strong' \in [Gen -> Nat] /\ \A x \in Gen : strong'[x] = strong[x] + One(g = x)
  BY <1>2, <1>3, CountFacts DEF HInv, Shape, One
<1>5. Shape' /\ ContextInv' /\ ClockInv' /\ MailInv'
  BY <1>1, <1>2, <1>3, <1>4, Bounds, AdminInv
<1>6. /\ admin'[a].pc = "drain" /\ \A b \in Admin \ {a} : admin'[b] = admin[b]
      /\ \A x \in Gen : Cardinality(Keeping(x)') = Cardinality(Keeping(x)) - One(admin[a].g = x) + One(g = x)
  <2>1. "drain" \in {"idle", "load", "crons", "insert", "get", "drain"}
    OBVIOUS
  <2>2. Go(a, "drain", g) /\ g \in 0..MaxGen
    BY <1>2, <1>3
  <2> QED BY <2>1, <2>2, GoFacts
<1>7. \A x \in Gen : strong'[x] = (Cardinality(On(x)) + Cardinality(Keeping(x)) + Mapped(x))'
  <2> SUFFICES ASSUME NEW x \in Gen
               PROVE  strong'[x] = Cardinality(On(x)') + Cardinality(Keeping(x)') + Mapped(x)'
    OBVIOUS
  <2>1. On(x)' = On(x) /\ Mapped(x)' = Mapped(x) /\ admin[a].g # x
    BY <1>2, <1>3 DEF On, Mapped, Gen
  <2>2. Cardinality(Keeping(x)') = Cardinality(Keeping(x)) + One(g = x)
    BY <1>6, <2>1, CountFacts DEF One
  <2> QED BY <1>4, <2>1, <2>2, CountFacts DEF One
<1>8. \A x \in Gen : strong'[x] > 0 /\ ~Loading(x)' => strong[x] > 0 /\ ~Loading(x)
  <2>1. \A x \in Gen : Loading(x) => Loading(x)'
    BY <1>2, <1>6 DEF Loading
  <2> QED BY <1>1, <1>4, <2>1, CountFacts DEF One
<1>9. cron' = {x \in cron : strong'[x] > 0}
  <2>1. \A x \in cron : x \in Gen /\ strong[x] > 0
    BY HookConstants DEF HInv, RefsInv, Shape, Gen
  <2> QED BY <1>2, <1>4, <2>1, CountFacts DEF One
<1>10. \A x \in Gen : Loading(x)' => Loading(x) /\ strong'[x] = strong[x]
  <2>1. \A x \in Gen : Loading(x) <=> Loading(x)'
    BY <1>2, <1>6 DEF Loading
  <2> QED BY <1>1, <1>4, <2>1, CountFacts DEF One
<1> QED BY <1>2, <1>5, <1>7, <1>8, <1>9, <1>10, RefsStep DEF HInv

LEMMA DrainInv ==
  ASSUME HInv, NEW a \in Admin, drain_errors(a)
  PROVE  HInv'
<1>1. PICK g \in 1..built : g = admin[a].g
  BY DEF HInv, Shape, drain_errors
<1>2. /\ admin[a].pc = "drain" /\ Go(a, "idle", 0) /\ current' = current
      /\ strong' = [strong EXCEPT ![g] = @ - 1] /\ cron' = {x \in cron : strong'[x] > 0}
      /\ src' = src /\ built' = built /\ file' = file
      /\ UNCHANGED <<context, mail, entry, time>>
  BY <1>1 DEF drain_errors, Release, Drop
<1>3. built \in 0..MaxGen /\ g \in Gen /\ 0 \in 0..MaxGen /\ cron' \subseteq 1..built
  BY <1>1, <1>2, Bounds
<1>4. strong' \in [Gen -> Nat] /\ \A x \in Gen : strong'[x] = strong[x] - One(g = x)
  <2>1. strong \in [Gen -> Nat] /\ strong[g] \in Nat /\ strong[g] > 0
    BY <1>1, <1>3, CountFacts, Bounds
  <2>2. strong[g] - 1 \in Nat
    BY <2>1
  <2>3. \A x \in Gen : strong[x] \in Nat
    BY <2>1
  <2> QED BY <1>2, <1>3, <2>1, <2>2, <2>3 DEF One
<1>5. Shape' /\ ContextInv' /\ ClockInv' /\ MailInv'
  BY <1>1, <1>2, <1>3, <1>4, Bounds, AdminInv
<1>6. /\ admin'[a].pc = "idle" /\ \A b \in Admin \ {a} : admin'[b] = admin[b]
      /\ \A x \in Gen : Cardinality(Keeping(x)') = Cardinality(Keeping(x)) - One(admin[a].g = x) + One(0 = x)
  <2>1. "idle" \in {"idle", "load", "crons", "insert", "get", "drain"}
    OBVIOUS
  <2>2. Go(a, "idle", 0) /\ 0 \in 0..MaxGen
    BY <1>2, <1>3
  <2> QED BY <2>1, <2>2, GoFacts
<1>7. \A x \in Gen : strong'[x] = (Cardinality(On(x)) + Cardinality(Keeping(x)) + Mapped(x))'
  <2> SUFFICES ASSUME NEW x \in Gen
               PROVE  strong'[x] = Cardinality(On(x)') + Cardinality(Keeping(x)') + Mapped(x)'
    OBVIOUS
  <2>1. On(x)' = On(x) /\ Mapped(x)' = Mapped(x) /\ 0 # x
    BY <1>2 DEF On, Mapped, Gen
  <2> QED BY <1>1, <1>4, <1>6, <2>1, CountFacts DEF One
<1>8. \A x \in Gen : strong'[x] > 0 /\ ~Loading(x)' => strong[x] > 0 /\ ~Loading(x)
  <2>1. \A x \in Gen : Loading(x) => Loading(x)'
    BY <1>2, <1>6 DEF Loading
  <2> QED BY <1>4, <2>1, CountFacts DEF One
<1>9. \A x \in Gen : Loading(x)' => Loading(x) /\ strong'[x] = strong[x]
  <2> SUFFICES ASSUME NEW x \in Gen, Loading(x)' PROVE Loading(x) /\ strong'[x] = strong[x]
    OBVIOUS
  <2>1. PICK b \in Admin : b # a /\ admin[b] = admin'[b] /\ admin[b].pc = "crons" /\ admin[b].g = x
    BY <1>6 DEF Loading
  <2>2. Loading(x) /\ Cardinality(Keeping(x)) = 1
    BY <2>1, CountFacts DEF Loading
  <2>3. g # x
    <3> SUFFICES ASSUME g = x PROVE FALSE
      OBVIOUS
    <3>1. {a, b} \subseteq Keeping(x)
      BY <1>1, <2>1 DEF Keeping
    <3> QED BY <2>1, <2>2, <3>1, NoPair
  <2> QED BY <1>4, <2>2, <2>3, CountFacts DEF One
<1> QED BY <1>2, <1>5, <1>7, <1>8, <1>9, RefsStep DEF HInv

-----------------------------------------------------------------------------
(* Time, and the whole. *)

LEMMA TimeInv ==
  ASSUME HInv, Tick \/ NextDay
  PROVE  HInv'
<1>1. CASE Tick
  <2> DEFINE Over(e) == At(e, "js") /\ now >= entry[e].armed + Budget
  <2>1. /\ now' = now + 1 /\ entry' = [e \in Entry |-> IF Over(e) THEN [entry[e] EXCEPT !.late = TRUE] ELSE entry[e]]
        /\ UNCHANGED <<file, current, src, refs, context, mail, admin, day, quota, built>>
        /\ \A e \in Entry : At(e, "js") => ~deadline_crossed(entry[e].g)
    BY <1>1 DEF Tick
  <2>2. ASSUME NEW e \in Entry
        PROVE  /\ entry'[e] \in Visit /\ entry'[e].pc = entry[e].pc /\ entry'[e].g = entry[e].g
               /\ entry'[e].kind = entry[e].kind /\ entry'[e].armed = entry[e].armed /\ entry'[e].alone = entry[e].alone
               /\ entry'[e].seen = entry[e].seen /\ entry'[e].day = entry[e].day
               /\ ~Over(e) => entry'[e].late = entry[e].late
    <3>1. entry[e] \in Visit /\ entry'[e] = IF Over(e) THEN [entry[e] EXCEPT !.late = TRUE] ELSE entry[e]
      BY <2>1 DEF HInv, Shape
    <3> HIDE DEF Over
    <3>2. CASE Over(e)
      <4>1. entry'[e] = [entry[e] EXCEPT !.late = TRUE]
        BY <3>1, <3>2
      <4> QED BY <3>1, <3>2, <4>1 DEF Visit
    <3>3. CASE ~Over(e)
      BY <3>1, <3>3
    <3> QED BY <3>2, <3>3
  <2>3. InPlace /\ NoMail
    <3>1. entry' \in [Entry -> Visit]
      BY <2>1, <2>2
    <3> QED BY <2>2, <3>1 DEF InPlace, NoMail
  <2>4. Shape'
    BY <2>1, <2>2, <2>3 DEF HInv, Shape, InPlace, refs, context, mail
  <2>5. ContextInv'
    BY <2>1, <2>2, <2>3, ContextStays DEF HInv
  <2>6. ClockInv'
    <3> SUFFICES ASSUME NEW e \in Entry, entry'[e].pc # "out", entry'[e].alone
                 PROVE  ~entry'[e].late /\ deadline'[entry'[e].g] = entry'[e].armed + Budget
      BY DEF ClockInv
    <3>1. entry[e].pc # "out" /\ entry[e].alone /\ deadline' = deadline
      BY <2>1, <2>2 DEF context
    <3>2. ~entry[e].late /\ deadline[entry[e].g] = entry[e].armed + Budget
      BY <3>1 DEF HInv, ClockInv
    <3>3. entry[e].armed \in Nat /\ entry[e].armed + Budget # 0 /\ now \in Nat
      BY HookConstants DEF HInv, Shape, Visit
    <3>4. ~Over(e)
      BY <2>1, <3>2, <3>3 DEF deadline_crossed
    <3> QED BY <2>2, <3>1, <3>2, <3>4
  <2>7. RefsInv' /\ MailInv'
    BY <2>1, <2>3, RefsStay, MailStays DEF HInv
  <2> QED BY <2>4, <2>5, <2>6, <2>7 DEF HInv
<1>2. CASE NextDay
  <2>1. /\ day' \in Day
        /\ UNCHANGED <<file, current, src, refs, context, mail, entry, admin, now, quota, built>>
    BY <1>2, HookConstants DEF NextDay, HInv, Shape, Day
  <2>2. InPlace /\ NoMail
    BY <2>1 DEF HInv, Shape, InPlace, NoMail
  <2>3. Shape'
    BY <2>1 DEF HInv, Shape, refs, context, mail
  <2>4. ClockInv'
    BY <2>1 DEF HInv, ClockInv, context
  <2>5. ContextInv' /\ RefsInv' /\ MailInv'
    BY <2>1, <2>2, ContextStays, RefsStay, MailStays DEF HInv
  <2> QED BY <2>3, <2>4, <2>5 DEF HInv
<1> QED BY <1>1, <1>2

LEMMA InitHInv == HInit => HInv
<1> SUFFICES ASSUME HInit PROVE HInv
  OBVIOUS
<1>1. Out \in Visit /\ Out.pc = "out" /\ NoWork \in Work /\ NoWork.pc = "idle" /\ NoWork.g = 0
  BY HookConstants DEF Out, Visit, NoWork, Work, Day
<1>2. quota \in Nat \cup {NoQuota}
  BY HookConstants DEF HInit
<1>3. /\ entry = [e \in Entry |-> Out] /\ admin = [a \in Admin |-> NoWork]
      /\ \A e \in Entry : entry[e].pc = "out"
      /\ \A a \in Admin : admin[a].pc = "idle" /\ admin[a].g = 0
  BY <1>1 DEF HInit
<1>4. Shape
  BY <1>1, <1>2, <1>3, HookConstants DEF HInit, Shape, CpuClock, QuotedMailer, Day, Loaded
<1>5. ContextInv /\ ClockInv
  BY <1>3 DEF HInit, ContextInv, ClockInv, Running
<1>6. \A g \in Gen : On(g) = {} /\ Keeping(g) = {} /\ Mapped(g) = 0 /\ \A d : Sending(g, d) = {}
  BY <1>3 DEF HInit, On, Keeping, Mapped, Gen, Sending, At
<1>7. RefsInv /\ MailInv
  <2>1. Cardinality({}) = 0
    BY FS_EmptySet
  <2>2. quota # NoQuota => 0 <= quota
    BY <1>2
  <2>3. \A g \in Gen, d \in Day : count[g][d] = 0 /\ sent[g][d] = 0 /\ strong[g] = 0 /\ g \notin cron
    BY DEF HInit, QuotedMailer
  <2>4. 0 \in Day
    BY HookConstants DEF Day
  <2>5. RefsInv
    <3>1. \A g \in Gen : ~Loading(g) /\ strong[g] = 0 /\ g \notin cron
      BY <1>3, <2>3, <2>4 DEF Loading
    <3> QED BY <1>6, <2>1, <3>1 DEF RefsInv
  <2>6. MailInv
    BY <1>6, <2>1, <2>2, <2>3 DEF MailInv
  <2> QED BY <2>5, <2>6
<1> QED BY <1>4, <1>5, <1>7 DEF HInv

LEMMA NextHInv == HInv /\ [HNext]_hVars => HInv'
<1> SUFFICES ASSUME HInv, [HNext]_hVars PROVE HInv'
  OBVIOUS
<1>1. CASE UNCHANGED hVars
  <2>1. UNCHANGED <<file, current, src, refs, context, mail, entry, admin, time, built>>
    BY <1>1 DEF hVars
  <2>2. InPlace /\ NoMail
    BY <2>1 DEF HInv, Shape, InPlace, NoMail
  <2>3. Shape' /\ ClockInv'
    BY <2>1 DEF HInv, Shape, ClockInv, refs, context, mail, time
  <2> QED BY <2>1, <2>2, <2>3, ContextStays, RefsStay, MailStays DEF HInv, time
<1>2. ASSUME NEW e \in Entry, dispatch(e) \/ run_before(e) \/ handle(e) \/ invoke_cron(e) PROVE HInv'
  <2>1. ASSUME current # 0 PROVE current \in 1..built /\ strong[current] > 0 /\ ~Loading(current)
    BY <2>1, CountFacts, Bounds
  <2>2. CASE invoke_cron(e)
    <3>1. PICK g \in cron : strong[g] > 0 /\ Enter(e, g, "cron")
      BY <2>2 DEF invoke_cron
    <3>2. g \in 1..built /\ g \in Gen
      BY Bounds
    <3>3. ~Loading(g)
      BY <3>2 DEF HInv, RefsInv
    <3> QED BY <3>1, <3>2, <3>3, EnterInv
  <2> QED BY <1>2, <2>1, <2>2, EnterInv DEF dispatch, run_before, handle, invoke_custom_route, get
<1>3. ASSUME NEW e \in Entry,
             \/ CallRecords(e) \/ NativeReturns(e) \/ MailerSend(e)
             \/ (\E arg \in Argument : CallAudit(e, arg) \/ \E h \in Host : CallFetch(e, arg, h))
      PROVE  HInv'
  BY <1>3, CallInv DEF CallRecords, CallAudit, CallFetch
<1>4. CASE HNext
  BY <1>2, <1>3, <1>4, LockInv, ReturnInv, LeaveInv, MailerInv, CommandInv, LoadInv, StartInv, ScheduleInv, InsertInv,
     ReloadInv, DrainInv, TimeInv DEF HNext
<1> QED BY <1>1, <1>4

LEMMA HooksInvariance == HSpec => []HInv
BY InitHInv, NextHInv, PTL DEF HSpec

\* A handler finds its own request in $app.request, whatever enters, leaves or reloads
\* meanwhile: the context lock and the drivers' `finally` (lib.rs).
THEOREM RequestsAreOwn == HSpec => []RequestIsOwn
<1>1. HInv => RequestIsOwn
  BY DEF HInv, ContextInv, RequestIsOwn, Driver
<1> QED BY <1>1, HooksInvariance, PTL

\* An entry whose deadline nobody else touched runs no JavaScript past its budget.
THEOREM BudgetsHold == HSpec => []CpuBounded
<1>1. HInv => CpuBounded
  BY DEF HInv, ClockInv, CpuBounded
<1> QED BY <1>1, HooksInvariance, PTL

\* No reload leaks a scheduler or stops the wrong one, for any number of loads in flight.
THEOREM SchedulersAreRight == HSpec => []SchedulersFollowTheMap
<1>1. ASSUME HInv PROVE SchedulersFollowTheMap
  <2>1. ASSUME NEW g \in cron, g # current, On(g) = {}, Keeping(g) = {} PROVE FALSE
    <3>1. g \in Gen
      BY <1>1, HookConstants DEF HInv, Shape, Gen
    <3>2. strong[g] > 0 /\ strong[g] = Cardinality(On(g)) + Cardinality(Keeping(g)) + 0
      BY <1>1, <2>1, <3>1 DEF HInv, RefsInv, Mapped
    <3> QED BY <2>1, <3>2, FS_EmptySet
  <2>2. ASSUME current # 0 PROVE (current \in cron) = ValidExpression(current)
    <3>1. current \in Gen /\ strong[current] > 0
      BY <1>1, <2>2, CountFacts, Bounds
    <3>2. ~Loading(current)
      BY <1>1, <3>1, CountFacts
    <3> QED BY <1>1, <3>1, <3>2 DEF HInv, RefsInv, ValidExpression
  <2> QED BY <2>1, <2>2 DEF SchedulersFollowTheMap, Keeping
<1> QED BY <1>1, HooksInvariance, PTL

\* No day's mail of a generation exceeds the quota, and counters account for every send.
THEOREM QuotaIsKept == HSpec => []QuotaHolds
<1>1. ASSUME HInv PROVE QuotaHolds
  <2> SUFFICES ASSUME NEW g \in Gen, NEW d \in Day
               PROVE  /\ quota # NoQuota => sent[g][d] <= quota
                      /\ count[g][d] = sent[g][d] + Cardinality(Sending(g, d))
    BY DEF QuotaHolds, Sending
  <2>1. Cardinality(Sending(g, d)) \in Nat /\ sent[g][d] \in Nat /\ count[g][d] \in Nat
    BY <1>1, FiniteSets DEF HInv, Shape
  <2>2. quota # NoQuota => quota \in Nat
    BY <1>1 DEF HInv, Shape
  <2> QED BY <1>1, <2>1, <2>2 DEF HInv, MailInv
<1> QED BY <1>1, HooksInvariance, PTL
=============================================================================
