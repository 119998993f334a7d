------------------------------ MODULE Resubmit ------------------------------
(***************************************************************************)
(* One action submitted again and again while its session goes on: between *)
(* two submits approvals come and go, spend is reserved and returned,      *)
(* labels are earned and the account is loaded, frozen or not.  What the   *)
(* verdicts of decide() on the way have to do with one another, under the  *)
(* bank-servicing policies.                                                *)
(***************************************************************************)
EXTENDS BankPolicy

CONSTANT MaxUsed   \* bound on what the counters reach, above MaxCounter

\* The bundle in force is the bank's.
ASSUME BundleAssumption ==
  /\ Cost = BankCost /\ Cap = BankCap
  /\ \A a \in Acts, ctx \in Context :
       /\ Permits(a, ctx) = BankPermits(a, ctx)
       /\ Forbids(a, ctx) = BankForbids(a, ctx)
       /\ Errs(a, ctx) = BankErrs(a, ctx)

VARIABLES act, snapshot

resubmitVars == <<act, snapshot>>

ResubmitInit ==
  /\ act \in Acts
  /\ \E facts \in Facts : snapshot = Snapshot(InitialState, facts)

Granted(a) ==
  snapshot' = [snapshot EXCEPT !.approvals = @ \cup {a}]

Consumed(a) ==
  snapshot' = [snapshot EXCEPT !.approvals = @ \ {a}]

Spent(c) ==
  /\ snapshot.counters[c] < MaxUsed
  /\ snapshot' = [snapshot EXCEPT !.counters[c] = @ + 1]

Returned(c) ==
  /\ snapshot.counters[c] > 0
  /\ snapshot' = [snapshot EXCEPT !.counters[c] = @ - 1]

Labelled(l) ==
  snapshot' = [snapshot EXCEPT !.labels = @ \cup {l}]

Loaded(facts) ==
  snapshot' = [snapshot EXCEPT !.facts = facts]

ResubmitNext ==
  /\ UNCHANGED act
  /\ \/ \E a \in Acts : Granted(a) \/ Consumed(a)
     \/ \E c \in Counters : Spent(c) \/ Returned(c)
     \/ \E l \in Labels : Labelled(l)
     \/ \E facts \in Facts : Loaded(facts)

ResubmitSpec == ResubmitInit /\ [][ResubmitNext]_resubmitVars

----------------------------------------------------------------------------
\* REQUIRE_APPROVAL means that the approval is all that is missing: granting
\* it brings an ALLOW where it was asked for, and nowhere else.
ApprovalIsAllThatWasMissing ==
  [][snapshot' = [snapshot EXCEPT !.approvals = @ \cup {act}] =>
       (Verdict(act, snapshot') = "ALLOW"
          <=> Verdict(act, snapshot) \in {"ALLOW", "REQUIRE_APPROVAL"})]_resubmitVars

\* An approval is bound to one action: granting or spending the approval of
\* another never changes the verdict.
ApprovalsAreBound ==
  [][\A a \in Acts \ {act} :
       snapshot' \in {[snapshot EXCEPT !.approvals = @ \cup {a}],
                      [snapshot EXCEPT !.approvals = @ \ {a}]} =>
         Verdict(act, snapshot') = Verdict(act, snapshot)]_resubmitVars

\* The guardrails: no permit and no approval lets out a mail or a fetch of a
\* tainted session, or a refund to an account frozen or not loaded; nobody is
\* even asked.
GuardrailsHold ==
  \/ Tool(act) \in Egress /\ Tainted(snapshot.labels)
  \/ Refund(act) /\ snapshot.facts \in {"frozen", "unloaded"}
  => Verdict(act, snapshot) = "DENY"
=============================================================================
