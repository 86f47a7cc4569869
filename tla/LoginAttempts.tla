---------------------------- MODULE LoginAttempts ----------------------------
(***************************************************************************)
(* The per-subject failed-login tracker (rustbase-api/security.rs), as      *)
(* operators on one subject's AttemptState.  Each operator is one access to *)
(* the DashMap entry and so one atomic step of the handler that calls it.   *)
(* The policy is enabled: a disabled one makes check and note_failure       *)
(* answer Ok and touch nothing.                                             *)
(***************************************************************************)
EXTENDS Naturals, Sequences, FiniteSets

CONSTANTS
  MaxFailures,  \* LockoutPolicy.max_failures
  Window,       \* LockoutPolicy.window, in clock ticks
  Lockout       \* LockoutPolicy.lockout, in clock ticks

ASSUME LockoutAssumption ==
  MaxFailures \in Nat /\ Window \in Nat /\ Lockout \in Nat

\* locked /\ until is Option<DateTime>: locked_until.
AttemptState == [failures : Seq(Nat), locked : BOOLEAN, until : Nat]

\* AttemptState::new, and what a missing entry means.
NewAttempts == [failures |-> <<>>, locked |-> FALSE, until |-> 0]

Locked(e, now) == e.locked /\ e.until > now

\* Consulted before the credential store.
check(e, now) == ~Locked(e, now)

\* How many positions in I are not after i.
Rank(I, i) == Cardinality({j \in I : j <= i})

\* The entries of s at the positions in I, in their order.
Retain(s, I) == [n \in 1..Cardinality(I) |-> s[CHOOSE i \in I : Rank(I, i) = n]]

\* The failures that are still inside the window.
Recent(e, now) == Retain(e.failures, {i \in DOMAIN e.failures : e.failures[i] + Window > now})

\* Faulty variant: an expired lockout leaves the old failures in the window.
NoteFailureKeepingOld(e, now) ==
  IF Locked(e, now) THEN e
  ELSE LET fs == Append(Recent(e, now), now)
           full == Len(fs) >= MaxFailures
       IN [failures |-> fs, locked |-> full, until |-> IF full THEN now + Lockout ELSE 0]

\* A running lockout is left alone, an expired one starts a new series, and
\* reaching max_failures (or the first failure, if that is 0) starts a lockout.
note_failure(e, now) ==
  IF Locked(e, now) THEN e
  ELSE LET fs == Append(IF e.locked THEN <<>> ELSE Recent(e, now), now)
           full == Len(fs) >= MaxFailures
       IN [failures |-> fs, locked |-> full, until |-> IF full THEN now + Lockout ELSE 0]

\* The entry is removed, locked or not.
note_success == NewAttempts

\* A lockout is in force exactly when a full series has been recorded, and a
\* series never grows past the budget, so an expired lockout really gives the
\* subject max_failures new attempts.
BudgetKept(e) ==
  /\ e.locked <=> Len(e.failures) >= MaxFailures /\ Len(e.failures) > 0
  /\ Len(e.failures) <= MaxFailures \/ Len(e.failures) = 1
=============================================================================
