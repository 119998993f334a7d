------------------------------- MODULE Decide -------------------------------
(***************************************************************************)
(* decide() of core/decide.py: from an action, a snapshot of the session   *)
(* and the policy, a verdict.  The policy engine (Cedar) is external: what *)
(* it says of an action in a context is given by three constant operators, *)
(* any one of which may be true.  How the engine combines them, and how    *)
(* the gate reads its answer, is modelled.                                 *)
(***************************************************************************)
EXTENDS Ledger

CONSTANTS
  Malformed,     \* actions whose arguments canonicalize() rejects
  MaxCounter,    \* the manifest's maximum for a counter
  Cap,           \* the most the policy lets each counter reach
  Permits(_, _), \* a permit policy matches action a in context ctx
  Forbids(_, _), \* a forbid policy matches
  Errs(_, _)     \* evaluating some policy raises an error

\* build_context(): the approval is present only if it is bound to this hash.
Context ==
  [counters : [Counters -> 0 .. MaxCounter], labels : SUBSET Labels,
   facts : Facts, approved : BOOLEAN]

BuildContext(snapshot, approved) ==
  [counters |-> snapshot.counters, labels |-> snapshot.labels,
   facts |-> snapshot.facts, approved |-> approved]

----------------------------------------------------------------------------
(* The engine's answer: a forbid overrides every permit, an error         *)
(* overrides both (the engine itself would skip the erroring policy).      *)

\* Mutant: the gate takes the engine's word for it.
AllowedSkippingErrors(a, ctx) == Permits(a, ctx) /\ ~Forbids(a, ctx)

Allowed(a, ctx) == Permits(a, ctx) /\ ~Forbids(a, ctx) /\ ~Errs(a, ctx)

\* Denied, but by no policy: nothing errs, forbids or permits.
DeniedByDefault(a, ctx) == ~Permits(a, ctx) /\ ~Forbids(a, ctx) /\ ~Errs(a, ctx)

\* check_snapshot() and canonicalize() both accept.
ValidInput(a, snapshot) ==
  /\ \A c \in Counters : snapshot.counters[c] <= MaxCounter
  /\ a \notin Malformed

\* Mutants: whatever nothing permits is put to a human; an approval of one
\* action is taken for any.
VerdictAlwaysAsks(a, snapshot) ==
  LET ctx == BuildContext(snapshot, a \in snapshot.approvals)
  IN  IF ValidInput(a, snapshot) /\ Allowed(a, ctx) THEN "ALLOW"
      ELSE IF ValidInput(a, snapshot) /\ DeniedByDefault(a, ctx)
      THEN "REQUIRE_APPROVAL" ELSE "DENY"

VerdictAnyApproval(a, snapshot) ==
  LET ctx == BuildContext(snapshot, snapshot.approvals # {})
  IN  IF ValidInput(a, snapshot) /\ Allowed(a, ctx) THEN "ALLOW"
      ELSE IF ValidInput(a, snapshot) /\ DeniedByDefault(a, ctx)
              /\ Allowed(a, BuildContext(snapshot, TRUE))
      THEN "REQUIRE_APPROVAL" ELSE "DENY"

Verdict(a, snapshot) ==
  LET approved == a \in snapshot.approvals
      first    == BuildContext(snapshot, approved)
      second   == BuildContext(snapshot, TRUE)
      allow    == ValidInput(a, snapshot) /\ Allowed(a, first)
      escalate == /\ ValidInput(a, snapshot)
                  /\ DeniedByDefault(a, first)
                  /\ ~approved
                  /\ Allowed(a, second)
  IN  IF allow THEN "ALLOW" ELSE IF escalate THEN "REQUIRE_APPROVAL" ELSE "DENY"

----------------------------------------------------------------------------
\* What the gate needs of a policy for the budget to hold: it allows an
\* action only in a context whose counters leave room for its cost.
PolicyKeepsCaps ==
  \A a \in Acts, ctx \in Context :
    Allowed(a, ctx) =>
      \A c \in Counters :
        Cost[a][c] = 0 \/ ctx.counters[c] + Cost[a][c] <= Cap[c]

ASSUME DecideAssumption ==
  /\ MaxCounter \in Nat
  /\ Cap \in [Counters -> Nat]
  /\ Malformed \subseteq Acts
  /\ \A a \in Acts, ctx \in Context :
       /\ Permits(a, ctx) \in BOOLEAN
       /\ Forbids(a, ctx) \in BOOLEAN
       /\ Errs(a, ctx) \in BOOLEAN

ASSUME PolicyAssumption == PolicyKeepsCaps
=============================================================================
