----------------------------- MODULE PolicySpec -----------------------------
(***************************************************************************)
(* The policy primitives of rustbase-core/config.rs: what a parent level    *)
(* allows below it, and how a child that no longer fits is clamped.         *)
(***************************************************************************)
EXTENDS Integers, Sequences

RangePolicy(min, max) == [kind |-> "range", min |-> min, max |-> max]

\* Open { default } and Locked { value }.
TogglePolicy(locked, value) == [kind |-> "toggle", locked |-> locked, value |-> value]

EnumSetPolicy(allowed) == [kind |-> "enum_set", allowed |-> allowed]

Free(value) == [kind |-> "free", value |-> value]

\* A level that stores nothing for the field.
NoPolicy == [kind |-> "none"]

\* A child range is never inverted.
AllowsRange(p, c) == c.min >= p.min /\ c.max <= p.max /\ c.min <= c.max

\* A Locked toggle wants its value below, locked or not.
AllowsToggle(p, c) == p.locked => p.value = c.value

AllowsEnumSet(p, c) == c.allowed \subseteq p.allowed

\* PolicySpec::allows: specs of one kind, by that kind's rule.
allows(p, c) ==
  \/ p.kind = "range" /\ c.kind = "range" /\ AllowsRange(p, c)
  \/ p.kind = "toggle" /\ c.kind = "toggle" /\ AllowsToggle(p, c)
  \/ p.kind = "enum_set" /\ c.kind = "enum_set" /\ AllowsEnumSet(p, c)
  \/ p.kind = "free" /\ c.kind = "free"

\* RangePolicy::clamp: the intersection, or the parent's bounds if it is empty.
ClampRange(p, c) ==
  LET lo == IF c.min >= p.min THEN c.min ELSE p.min
      hi == IF c.max <= p.max THEN c.max ELSE p.max
  IN IF lo > hi THEN RangePolicy(p.min, p.max) ELSE RangePolicy(lo, hi)

ClampToggle(p, c) == IF p.locked THEN TogglePolicy(TRUE, p.value) ELSE c

ClampEnumSet(p, c) == EnumSetPolicy(c.allowed \cap p.allowed)

\* PolicySpec::clamp.  Two kinds that differ, and Free, leave the child as it is.
clamp(p, c) ==
  IF p.kind = "range" /\ c.kind = "range" THEN ClampRange(p, c)
  ELSE IF p.kind = "toggle" /\ c.kind = "toggle" THEN ClampToggle(p, c)
  ELSE IF p.kind = "enum_set" /\ c.kind = "enum_set" THEN ClampEnumSet(p, c)
  ELSE c

\* validate_chain over the levels that are set: each is checked against the
\* nearest one above it, and against no other.
validate_chain(levels) ==
  \A i, j \in DOMAIN levels :
    (/\ i < j
     /\ levels[i] # NoPolicy
     /\ levels[j] # NoPolicy
     /\ \A k \in (i + 1)..(j - 1) : levels[k] = NoPolicy)
      => allows(levels[i], levels[j])
=============================================================================
