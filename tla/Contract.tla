------------------------------ MODULE Contract ------------------------------
(***************************************************************************)
(* What a session promises, with no threads, files or faults: spend is     *)
(* reserved against the cap in one step and then either committed or       *)
(* returned, once; labels are earned by commits and never lost; an         *)
(* approval is granted, and taken at most once per grant.                  *)
(***************************************************************************)
EXTENDS Ledger

CONSTANTS Cap, ResultLabels

VARIABLES
  spent,      \* committed spend on each counter
  held,       \* open reservations: [reservation, act, deltas, expires]
  issued,     \* every reservation number ever used
  earned,     \* the labels of the session
  approvals   \* approvals granted and not taken

contractVars == <<spent, held, issued, earned, approvals>>

\* Committed and held together.
Total(c) == spent[c] + Held(held, c)

ContractInit ==
  /\ spent = [c \in Counters |-> 0]
  /\ held = {}
  /\ issued = {}
  /\ earned = {}
  /\ approvals = {}

\* The cost of a fits under the cap beside all that is spent or held now.
HoldSpend(r) ==
  /\ r \in Reservation
  /\ r.reservation \notin issued
  /\ r.deltas = Cost[r.act]
  /\ \A c \in Counters : r.deltas[c] = 0 \/ Total(c) + r.deltas[c] <= Cap[c]
  /\ held' = held \cup {r}
  /\ issued' = issued \cup {r.reservation}
  /\ UNCHANGED <<spent, earned, approvals>>

\* The tool ran: its spend stays and its labels stick.
CommitSpend(r) ==
  /\ held' = held \ {r}
  /\ spent' = [c \in Counters |-> spent[c] + r.deltas[c]]
  /\ earned' = earned \cup ResultLabels[r.act]
  /\ UNCHANGED <<issued, approvals>>

ReturnSpend(r) ==
  /\ held' = held \ {r}
  /\ UNCHANGED <<spent, issued, earned, approvals>>

Grant(a) ==
  /\ approvals' = approvals \cup {a}
  /\ UNCHANGED <<spent, held, issued, earned>>

Take(a) ==
  /\ a \in approvals
  /\ approvals' = approvals \ {a}
  /\ UNCHANGED <<spent, held, issued, earned>>

ContractNext ==
  \/ \E r \in held' \ held : HoldSpend(r)
  \/ \E r \in held : CommitSpend(r) \/ ReturnSpend(r)
  \/ \E a \in Acts : Grant(a) \/ Take(a)

ContractSpec == ContractInit /\ [][ContractNext]_contractVars
=============================================================================
