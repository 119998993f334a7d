----------------------------- MODULE BankPolicy -----------------------------
(***************************************************************************)
(* The bank-servicing bundle of policies/: its Cedar policies and the part *)
(* of its manifest the ledger reads, for any set of actions.  What the     *)
(* policies ask of an action's arguments (the currency, an allowlisted     *)
(* domain, a named report) is a set the action is in.                      *)
(***************************************************************************)
EXTENDS Decide

CONSTANTS
  Tool(_),     \* the tool an action calls
  Amount(_),   \* a refund's amount in minor units
  Euros,       \* refunds in EUR
  Listed,      \* mails and fetches of allowlisted domains, named reports
  AutoMax,     \* the largest refund that needs no human
  AutoCap,     \* what refunds without a human may bring the counter to
  ApprovedCap  \* what refunds with one may bring it to

ASSUME BankAssumption ==
  /\ AutoCap \in Nat /\ ApprovedCap \in Nat /\ AutoCap <= ApprovedCap
  /\ \A a \in Acts : Tool(a) = "payments.refund" => Amount(a) \in Nat

Egress == {"email.send", "web.fetch"}
Read   == {"crm.lookup", "inbox.read"}
Refund(a) == Tool(a) = "payments.refund"

BankCost == [a \in Acts |-> [c \in Counters |-> IF Refund(a) THEN Amount(a) ELSE 0]]

BankLabels == [a \in Acts |->
  {l \in {"private_data"} : Tool(a) \in {"crm.lookup", "db.report"}}
    \cup {l \in {"untrusted_input"} : Tool(a) \in {"inbox.read", "web.fetch"}}]

\* The tools with a URL argument.
BankPinned == {a \in Acts : Tool(a) = "web.fetch"}

BankCap == [c \in Counters |-> ApprovedCap]

RoomFor(a, ctx, limit) ==
  \A c \in Counters : ctx.counters[c] + Amount(a) <= limit

\* refund-auto, refund-approved, the three allowlist policies, egress-approved
\* and reads-allowed.
BankPermits(a, ctx) ==
  \/ Refund(a) /\ a \in Euros /\ Amount(a) <= AutoMax /\ RoomFor(a, ctx, AutoCap)
  \/ Refund(a) /\ ctx.approved /\ RoomFor(a, ctx, ApprovedCap)
  \/ Tool(a) \in Egress \cup {"db.report"} /\ a \in Listed
  \/ Tool(a) \in Egress /\ ctx.approved
  \/ Tool(a) \in Read

\* Both labels at once: nothing may leave the session any more.
Tainted(labels) == {"private_data", "untrusted_input"} \subseteq labels

\* no-egress-after-untrusted-with-private and no-refund-to-frozen-account.
BankForbids(a, ctx) ==
  \/ Tool(a) \in Egress /\ Tainted(ctx.labels)
  \/ Refund(a) /\ ctx.facts = "frozen"

\* no-refund-to-frozen-account errs when the account's entity is not loaded.
BankErrs(a, ctx) == Refund(a) /\ ctx.facts = "unloaded"
=============================================================================
