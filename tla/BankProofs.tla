----------------------------- MODULE BankProofs -----------------------------
(***************************************************************************)
(* What the verdicts of decide() are worth: for any policy, what a verdict *)
(* says about the engine's answers; for the bank-servicing bundle, any     *)
(* actions and any limits, the guardrails, the caps and what an approval   *)
(* does and does not change.                                               *)
(***************************************************************************)
EXTENDS Resubmit, LedgerProofs

(* Contexts and verdicts, for any policy.                                  *)

\* A snapshot check_snapshot() accepts makes a context, with or without an
\* approval.
LEMMA ContextTyped ==
  ASSUME NEW a, NEW s \in SnapshotType, ValidInput(a, s), NEW approved \in BOOLEAN
  PROVE  BuildContext(s, approved) \in Context
<1>1. s.counters \in [Counters -> Nat] /\ s.labels \in SUBSET Labels /\ s.facts \in Facts
  BY DEF SnapshotType, Deltas
<1>2. \A c \in Counters : s.counters[c] \in 0 .. MaxCounter
  BY <1>1, DecideAssumption DEF ValidInput
<1>3. s.counters \in [Counters -> 0 .. MaxCounter]
  BY <1>1, <1>2
<1> QED  BY <1>1, <1>3 DEF BuildContext, Context

\* A verdict, for an action whose approval is there and for one whose is not.
LEMMA VerdictSays ==
  ASSUME NEW a, NEW s
  PROVE  /\ a \in s.approvals =>
              Verdict(a, s) =
                IF ValidInput(a, s) /\ Allowed(a, BuildContext(s, TRUE))
                THEN "ALLOW" ELSE "DENY"
         /\ a \notin s.approvals =>
              Verdict(a, s) =
                IF ValidInput(a, s) /\ Allowed(a, BuildContext(s, FALSE)) THEN "ALLOW"
                ELSE IF /\ ValidInput(a, s)
                        /\ DeniedByDefault(a, BuildContext(s, FALSE))
                        /\ Allowed(a, BuildContext(s, TRUE))
                     THEN "REQUIRE_APPROVAL" ELSE "DENY"
<1>1. CASE a \in s.approvals
  <2>1. (a \in s.approvals) = TRUE  BY <1>1
  <2> QED  BY <1>1, <2>1 DEF Verdict
<1>2. CASE a \notin s.approvals
  <2>1. (a \in s.approvals) = FALSE  BY <1>2
  <2> QED  BY <1>2, <2>1 DEF Verdict
<1> QED  BY <1>1, <1>2

\* A verdict looks at no approval but the action's own.
LEMMA OwnApprovalOnly ==
  ASSUME NEW a, NEW s \in SnapshotType, NEW approvals,
         a \in approvals <=> a \in s.approvals
  PROVE  Verdict(a, [s EXCEPT !.approvals = approvals]) = Verdict(a, s)
<1> DEFINE t == [s EXCEPT !.approvals = approvals]
<1>1. /\ t.counters = s.counters /\ t.labels = s.labels /\ t.facts = s.facts
      /\ t.approvals = approvals
  BY DEF SnapshotType
<1> HIDE DEF t
<1>2. /\ BuildContext(t, TRUE) = BuildContext(s, TRUE)
      /\ BuildContext(t, FALSE) = BuildContext(s, FALSE)
  BY <1>1 DEF BuildContext
<1>3. ValidInput(a, t) <=> ValidInput(a, s)
  BY <1>1 DEF ValidInput
<1>4. a \in t.approvals <=> a \in s.approvals  BY <1>1
<1>5. Verdict(a, t) = Verdict(a, s)
  <2>1. CASE a \in s.approvals
    <3>1. Verdict(a, t) = IF ValidInput(a, s) /\ Allowed(a, BuildContext(s, TRUE))
                          THEN "ALLOW" ELSE "DENY"
      BY <2>1, <1>2, <1>3, <1>4, VerdictSays, Zenon
    <3> QED  BY <2>1, <3>1, VerdictSays, Zenon
  <2>2. CASE a \notin s.approvals
    <3>1. Verdict(a, t) =
            IF ValidInput(a, s) /\ Allowed(a, BuildContext(s, FALSE)) THEN "ALLOW"
            ELSE IF /\ ValidInput(a, s)
                    /\ DeniedByDefault(a, BuildContext(s, FALSE))
                    /\ Allowed(a, BuildContext(s, TRUE))
                 THEN "REQUIRE_APPROVAL" ELSE "DENY"
      BY <2>2, <1>2, <1>3, <1>4, VerdictSays, Zenon
    <3> QED  BY <2>2, <3>1, VerdictSays, Zenon
  <2> QED  BY <2>1, <2>2
<1> QED  BY <1>5 DEF t

----------------------------------------------------------------------------
(* The policies of the bundle.                                             *)

\* In a context decide() builds, the policies in force are the bundle's.
LEMMA BundleInForce ==
  ASSUME NEW a \in Acts, NEW ctx \in Context
  PROVE  /\ Permits(a, ctx) <=> BankPermits(a, ctx)
         /\ Forbids(a, ctx) <=> BankForbids(a, ctx)
         /\ Errs(a, ctx) <=> BankErrs(a, ctx)
BY BundleAssumption

\* An approval only ever adds a permit: what is permitted without it still is,
\* and no forbid and no error looks at it.
LEMMA ApprovalOnlyPermits ==
  ASSUME NEW a \in Acts, NEW s \in SnapshotType, ValidInput(a, s)
  PROVE  LET without == BuildContext(s, FALSE)
             with    == BuildContext(s, TRUE)
         IN  /\ Permits(a, without) => Permits(a, with)
             /\ Forbids(a, without) <=> Forbids(a, with)
             /\ Errs(a, without) <=> Errs(a, with)
<1> DEFINE without == BuildContext(s, FALSE)
           with    == BuildContext(s, TRUE)
<1>1. without \in Context /\ with \in Context
  BY ContextTyped
<1>2. /\ without.counters = with.counters /\ without.labels = with.labels
      /\ without.facts = with.facts /\ with.approved /\ ~without.approved
  BY DEF BuildContext
<1> HIDE DEF without, with
<1>3. BankPermits(a, without) => BankPermits(a, with)
  BY <1>2 DEF BankPermits, RoomFor
<1>4. BankForbids(a, without) <=> BankForbids(a, with)
  BY <1>2 DEF BankForbids
<1>5. BankErrs(a, without) <=> BankErrs(a, with)
  BY <1>2 DEF BankErrs
<1>6. /\ Permits(a, without) => Permits(a, with)
      /\ Forbids(a, without) <=> Forbids(a, with)
      /\ Errs(a, without) <=> Errs(a, with)
  BY <1>1, <1>3, <1>4, <1>5, BundleInForce
<1> QED  BY <1>6 DEF without, with

\* The bundle keeps the caps, whatever its limits, as long as what refunds
\* reach without a human is no more than what they reach with one: it is one
\* of the policies the budget theorem of the gate is about.
THEOREM BankKeepsCaps == PolicyKeepsCaps
<1>1. SUFFICES ASSUME NEW a \in Acts, NEW ctx \in Context, Allowed(a, ctx),
                      NEW c \in Counters
               PROVE  Cost[a][c] = 0 \/ ctx.counters[c] + Cost[a][c] <= Cap[c]
  BY DEF PolicyKeepsCaps
<1>2. /\ Cost[a][c] = (IF Refund(a) THEN Amount(a) ELSE 0)
      /\ Cap[c] = ApprovedCap
  BY BundleAssumption DEF BankCost, BankCap
<1>3. BankPermits(a, ctx)
  BY <1>1, BundleInForce DEF Allowed
<1>4. CASE Refund(a)
  <2>1. /\ Tool(a) = "payments.refund" /\ Amount(a) \in Nat
        /\ ctx.counters[c] \in Nat
    BY <1>4, BankAssumption, DecideAssumption DEF Refund, Context
  <2>2. RoomFor(a, ctx, AutoCap) \/ RoomFor(a, ctx, ApprovedCap)
    BY <1>3, <2>1 DEF BankPermits, Egress, Read
  <2>3. ctx.counters[c] + Amount(a) <= ApprovedCap
    BY <2>1, <2>2, BankAssumption DEF RoomFor
  <2> QED  BY <1>2, <1>4, <2>3
<1>5. CASE ~Refund(a)  BY <1>2, <1>5
<1> QED  BY <1>4, <1>5

----------------------------------------------------------------------------
(* One action, resubmitted.                                                *)

SnapshotTyped == act \in Acts /\ snapshot \in SnapshotType

LEMMA StaysTyped == ResubmitSpec => []SnapshotTyped
<1>1. ResubmitInit => SnapshotTyped
  <2> SUFFICES ASSUME ResubmitInit PROVE SnapshotTyped  OBVIOUS
  <2>1. PICK facts \in Facts : snapshot = Snapshot(InitialState, facts)
    BY DEF ResubmitInit
  <2>2. WellFormed(InitialState)  BY InitialWellFormed
  <2>3. Used(InitialState) \in Deltas  BY <2>2, UsedType
  <2>4. /\ InitialState.seq = 0 /\ InitialState.labels = {} /\ InitialState.approvals = {}
    BY DEF InitialState
  <2>5. snapshot \in SnapshotType
    BY <2>1, <2>3, <2>4 DEF Snapshot, SnapshotType
  <2> QED  BY <2>5 DEF SnapshotTyped, ResubmitInit
<1>2. SnapshotTyped /\ [ResubmitNext]_resubmitVars => SnapshotTyped'
  <2> SUFFICES ASSUME SnapshotTyped, [ResubmitNext]_resubmitVars
               PROVE  SnapshotTyped'
    OBVIOUS
  <2>1. snapshot \in SnapshotType /\ act \in Acts  BY DEF SnapshotTyped
  <2>2. act' = act  BY DEF ResubmitNext, resubmitVars
  <2>3. ASSUME NEW a \in Acts, Granted(a) \/ Consumed(a)
        PROVE  snapshot' \in SnapshotType
    BY <2>1, <2>3 DEF Granted, Consumed, SnapshotType
  <2>4. ASSUME NEW c \in Counters, Spent(c)
        PROVE  snapshot' \in SnapshotType
    BY <2>1, <2>4 DEF Spent, SnapshotType, Deltas
  <2>5. ASSUME NEW c \in Counters, Returned(c)
        PROVE  snapshot' \in SnapshotType
    BY <2>1, <2>5 DEF Returned, SnapshotType, Deltas
  <2>6. ASSUME NEW l \in Labels, Labelled(l)
        PROVE  snapshot' \in SnapshotType
    BY <2>1, <2>6 DEF Labelled, SnapshotType
  <2>7. ASSUME NEW facts \in Facts, Loaded(facts)
        PROVE  snapshot' \in SnapshotType
    BY <2>1, <2>7 DEF Loaded, SnapshotType
  <2>8. CASE UNCHANGED resubmitVars  BY <2>1, <2>8 DEF resubmitVars, SnapshotTyped
  <2> QED
    BY <2>1, <2>2, <2>3, <2>4, <2>5, <2>6, <2>7, <2>8 DEF ResubmitNext, SnapshotTyped
<1> QED  BY <1>1, <1>2, PTL DEF ResubmitSpec

\* No permit and no approval brings a tainted session's mail or fetch, or a
\* refund to an account frozen or not loaded, anything but DENY: for any
\* actions, amounts, allowlists and limits.
THEOREM GuardrailsStand == ResubmitSpec => []GuardrailsHold
<1>1. SnapshotTyped => GuardrailsHold
  <2> SUFFICES ASSUME SnapshotTyped,
                      \/ Tool(act) \in Egress /\ Tainted(snapshot.labels)
                      \/ Refund(act) /\ snapshot.facts \in {"frozen", "unloaded"}
               PROVE  Verdict(act, snapshot) = "DENY"
    BY DEF GuardrailsHold
  <2>1. SUFFICES ASSUME ValidInput(act, snapshot), NEW approved \in BOOLEAN
                 PROVE  ~Allowed(act, BuildContext(snapshot, approved))
    BY VerdictSays
  <2> DEFINE ctx == BuildContext(snapshot, approved)
  <2>2. ctx \in Context /\ act \in Acts
    BY <2>1, ContextTyped DEF SnapshotTyped
  <2>3. ctx.labels = snapshot.labels /\ ctx.facts = snapshot.facts
    BY DEF BuildContext
  <2> HIDE DEF ctx
  <2>4. BankForbids(act, ctx) \/ BankErrs(act, ctx)
    BY <2>3 DEF BankForbids, BankErrs
  <2>5. Forbids(act, ctx) \/ Errs(act, ctx)
    BY <2>2, <2>4, BundleInForce
  <2>6. ~Allowed(act, ctx)  BY <2>5 DEF Allowed
  <2> QED  BY <2>6 DEF ctx
<1> QED  BY <1>1, StaysTyped, PTL

\* A human is asked exactly where the approval is all that is missing: once it
\* is granted the action is allowed, and an approval changes no DENY.
THEOREM ApprovalSuffices == ResubmitSpec => ApprovalIsAllThatWasMissing
<1>1. SnapshotTyped /\ snapshot' = [snapshot EXCEPT !.approvals = @ \cup {act}]
        => (Verdict(act, snapshot') = "ALLOW"
              <=> Verdict(act, snapshot) \in {"ALLOW", "REQUIRE_APPROVAL"})
  <2> SUFFICES ASSUME SnapshotTyped, NEW s, NEW t, NEW a, s = snapshot, a = act,
                      t = [s EXCEPT !.approvals = @ \cup {a}]
               PROVE  Verdict(a, t) = "ALLOW"
                        <=> Verdict(a, s) \in {"ALLOW", "REQUIRE_APPROVAL"}
    OBVIOUS
  <2>1. s \in SnapshotType /\ a \in Acts  BY DEF SnapshotTyped
  <2>2. /\ t.counters = s.counters /\ t.labels = s.labels /\ t.facts = s.facts
        /\ a \in t.approvals
    BY <2>1 DEF SnapshotType
  <2>3. \A approved : BuildContext(t, approved) = BuildContext(s, approved)
    BY <2>2 DEF BuildContext
  <2>4. ValidInput(a, t) <=> ValidInput(a, s)  BY <2>2 DEF ValidInput
  <2>5. Verdict(a, t) = "ALLOW" <=>
          ValidInput(a, s) /\ Allowed(a, BuildContext(s, TRUE))
    BY <2>2, <2>3, <2>4, VerdictSays
  <2>6. CASE a \in s.approvals
    BY <2>5, <2>6, VerdictSays
  <2>7. CASE a \notin s.approvals
    <3>1. /\ Verdict(a, s) = "ALLOW" <=>
               ValidInput(a, s) /\ Allowed(a, BuildContext(s, FALSE))
          /\ Verdict(a, s) = "REQUIRE_APPROVAL" <=>
               /\ ValidInput(a, s) /\ ~Allowed(a, BuildContext(s, FALSE))
               /\ DeniedByDefault(a, BuildContext(s, FALSE))
               /\ Allowed(a, BuildContext(s, TRUE))
      BY <2>7, VerdictSays
    <3>2. ASSUME ValidInput(a, s)
          PROVE  Allowed(a, BuildContext(s, TRUE)) <=>
                   \/ Allowed(a, BuildContext(s, FALSE))
                   \/ /\ DeniedByDefault(a, BuildContext(s, FALSE))
                      /\ Allowed(a, BuildContext(s, TRUE))
      BY <2>1, <3>2, ApprovalOnlyPermits DEF Allowed, DeniedByDefault
    <3> QED  BY <2>5, <3>1, <3>2
  <2> QED  BY <2>6, <2>7
<1>2. SnapshotTyped =>
        [snapshot' = [snapshot EXCEPT !.approvals = @ \cup {act}]
           => (Verdict(act, snapshot') = "ALLOW"
                 <=> Verdict(act, snapshot) \in {"ALLOW", "REQUIRE_APPROVAL"})]_resubmitVars
  BY <1>1
<1> QED  BY <1>2, StaysTyped, PTL DEF ApprovalIsAllThatWasMissing

\* An approval is of one action: granting or spending it changes the verdict
\* on no other, under any policy.
THEOREM ApprovalsBind == ResubmitSpec => ApprovalsAreBound
<1>1. ASSUME SnapshotTyped, NEW a \in Acts \ {act},
             snapshot' \in {[snapshot EXCEPT !.approvals = @ \cup {a}],
                           [snapshot EXCEPT !.approvals = @ \ {a}]}
      PROVE  Verdict(act, snapshot') = Verdict(act, snapshot)
  <2>1. PICK approvals \in {snapshot.approvals \cup {a}, snapshot.approvals \ {a}} :
          snapshot' = [snapshot EXCEPT !.approvals = approvals]
    BY <1>1
  <2>2. act \in approvals <=> act \in snapshot.approvals
    BY <2>1, <1>1
  <2>3. snapshot \in SnapshotType  BY <1>1 DEF SnapshotTyped
  <2> QED  BY <2>1, <2>2, <2>3, OwnApprovalOnly
<1>2. SnapshotTyped =>
        [\A a \in Acts \ {act} :
           snapshot' \in {[snapshot EXCEPT !.approvals = @ \cup {a}],
                          [snapshot EXCEPT !.approvals = @ \ {a}]} =>
             Verdict(act, snapshot') = Verdict(act, snapshot)]_resubmitVars
  BY <1>1
<1> QED  BY <1>2, StaysTyped, PTL DEF ApprovalsAreBound

----------------------------------------------------------------------------
(* A tighter bundle.                                                       *)

\* The bundle with the limit of refund-auto at zero.
Tightened == INSTANCE BankPolicy WITH AutoMax <- 0

\* With refund-auto at zero the bundle asks a human for every refund and permits
\* all else as before, and an approval takes nothing away: it is a candidate
\* HistoryIsNamed (module LogProofs) speaks of.  A refund is of one minor unit at
\* least (manifest.json).
THEOREM TighteningAsks ==
  ASSUME \A a \in Acts : Refund(a) => Amount(a) > 0
  PROVE  \A a \in Acts, ctx \in Context :
           /\ Tightened!BankPermits(a, ctx)
                <=> BankPermits(a, ctx) /\ (a \in {b \in Acts : Refund(b)} => ctx.approved)
           /\ Allowed(a, ctx) => Allowed(a, BuildContext(ctx, TRUE))
<1> SUFFICES ASSUME NEW a \in Acts, NEW ctx \in Context
             PROVE  /\ Tightened!BankPermits(a, ctx)
                         <=> BankPermits(a, ctx) /\ (Refund(a) => ctx.approved)
                    /\ Allowed(a, ctx) => Allowed(a, BuildContext(ctx, TRUE))
  OBVIOUS
<1>1. \A x : /\ Tightened!Refund(x) <=> Refund(x)
             /\ \A limit : Tightened!RoomFor(x, ctx, limit) <=> RoomFor(x, ctx, limit)
  BY DEF Tightened!Refund, Refund, Tightened!RoomFor, RoomFor
<1>2. Tightened!BankPermits(a, ctx) <=> BankPermits(a, ctx) /\ (Refund(a) => ctx.approved)
  <2>1. CASE Refund(a)
    <3>1. Amount(a) \in Nat /\ ~(Amount(a) <= 0)
      BY <2>1, BankAssumption DEF Refund
    <3>2. RoomFor(a, ctx, AutoCap) => RoomFor(a, ctx, ApprovedCap)
      <4>1. \A c \in Counters : ctx.counters[c] \in Nat
        BY DecideAssumption DEF Context
      <4> QED BY <3>1, <4>1, BankAssumption DEF RoomFor
    <3>3. Tool(a) \notin Egress \cup {"db.report"} \cup Read
      BY <2>1 DEF Refund, Egress, Read
    <3>4. /\ Tightened!BankPermits(a, ctx) <=> ctx.approved /\ RoomFor(a, ctx, ApprovedCap)
          /\ BankPermits(a, ctx) <=>
               \/ a \in Euros /\ Amount(a) <= AutoMax /\ RoomFor(a, ctx, AutoCap)
               \/ ctx.approved /\ RoomFor(a, ctx, ApprovedCap)
      BY <1>1, <2>1, <3>1, <3>3
         DEF Tightened!BankPermits, BankPermits, Tightened!Egress, Tightened!Read, Egress, Read
    <3> QED BY <2>1, <3>2, <3>4
  <2>2. CASE ~Refund(a)
    BY <1>1, <2>2 DEF Tightened!BankPermits, BankPermits, Tightened!Egress, Tightened!Read,
                      Egress, Read
  <2> QED BY <2>1, <2>2
<1>3. Allowed(a, ctx) => Allowed(a, BuildContext(ctx, TRUE))
  <2>1. PICK with : with = BuildContext(ctx, TRUE)
    OBVIOUS
  <2>2. /\ with \in Context /\ with.approved
        /\ with.counters = ctx.counters /\ with.labels = ctx.labels /\ with.facts = ctx.facts
    BY <2>1 DEF BuildContext, Context
  <2>3. /\ BankPermits(a, ctx) => BankPermits(a, with)
        /\ BankForbids(a, with) => BankForbids(a, ctx)
        /\ BankErrs(a, with) => BankErrs(a, ctx)
    BY <2>2 DEF BankPermits, BankForbids, BankErrs, RoomFor
  <2> QED BY <2>1, <2>2, <2>3, BundleInForce DEF Allowed
<1> QED BY <1>2, <1>3
=============================================================================
