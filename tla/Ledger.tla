------------------------------- MODULE Ledger -------------------------------
(***************************************************************************)
(* The session ledger (core/ledger.py): the state a session's events fold  *)
(* to, which events the fold refuses, and what each accepted event does.   *)
(* Everything here is a pure function of a state and an event, as in the   *)
(* source; locks, files and threads belong to module Gate.                 *)
(*                                                                         *)
(* A canonical action is identified with its action hash.  Body fields the *)
(* fold does not read (the decision's reasons, the approver's name) and    *)
(* the checks of their syntax are left out: the gate writes no event that  *)
(* fails one.                                                              *)
(***************************************************************************)
EXTENDS Integers, Sequences, FiniteSets

CONSTANTS
  Acts,        \* canonical actions, standing for their hashes
  Counters,    \* the counters the manifest declares
  Labels,      \* the labels the manifest declares
  Facts,       \* what the shell may have loaded about a resource
  Principals,  \* who may open a session
  Nobody       \* the principal of a session nobody has opened

ASSUME LedgerAssumption ==
  /\ Nobody \notin Principals
  /\ IsFiniteSet(Counters)

----------------------------------------------------------------------------
(* States and events. *)

Deltas == [Counters -> Nat]

Reservation == [reservation : Nat, act : Acts, deltas : Deltas, expires : Nat]

LedgerState ==
  [principal : Principals \cup {Nobody}, seq : Nat, labels : SUBSET Labels,
   committed : Deltas, reserved : SUBSET Reservation, approvals : SUBSET Acts]

InitialState ==
  [principal |-> Nobody, seq |-> 0, labels |-> {},
   committed |-> [c \in Counters |-> 0], reserved |-> {}, approvals |-> {}]

Verdicts == {"ALLOW", "DENY", "REQUIRE_APPROVAL"}
Outcomes == {"committed", "released"}

\* What a decision sees; its hash is part of the decision recorded.
SnapshotType ==
  [seq : Nat, counters : Deltas, labels : SUBSET Labels,
   approvals : SUBSET Acts, facts : Facts]

Event ==
  [kind : {"session_opened"}, seq : Nat, principal : Principals]
    \cup [kind : {"decided"}, seq : Nat, act : Acts,
          snapshot : SnapshotType, verdict : Verdicts]
    \cup [kind : {"reserved"}, seq : Nat, reservation : Nat, act : Acts,
          deltas : Deltas, expires : Nat]
    \cup [kind : {"settled"}, seq : Nat, reservation : Nat,
          outcome : Outcomes, labels : SUBSET Labels]
    \cup [kind : {"approval_granted", "approval_consumed"}, seq : Nat,
          act : Acts]

\* The places of the decisions in a session's records.
Decisions(records) == {i \in DOMAIN records : records[i].kind = "decided"}

----------------------------------------------------------------------------
(* What a cap is measured against.                                         *)

\* Each reservation holds one unit per unit of its delta: the held total is
\* the number of units.
UnitsHeld(reserved, c) == UNION {{r} \X (1 .. r.deltas[c]) : r \in reserved}

Held(reserved, c) == Cardinality(UnitsHeld(reserved, c))

\* LedgerState.counters(): committed spend plus everything reserved.
Used(s) == [c \in Counters |-> s.committed[c] + Held(s.reserved, c)]

\* LedgerState.snapshot(): what decide() is given of the session.
Snapshot(s, facts) ==
  [seq |-> s.seq, counters |-> Used(s), labels |-> s.labels,
   approvals |-> s.approvals, facts |-> facts]

\* A state the fold can be in: typed, with finitely many units held, and at
\* most one open reservation of a number.
WellFormed(s) ==
  /\ s \in LedgerState
  /\ \A c \in Counters : IsFiniteSet(UnitsHeld(s.reserved, c))
  /\ \A q, r \in s.reserved : q.reservation = r.reservation => q = r

----------------------------------------------------------------------------
(* The fold's step: Accepts is the negation of apply()'s LedgerErrors,     *)
(* Apply the state it returns.                                             *)

Reserved(s, id) == {r \in s.reserved : r.reservation = id}

\* Mutant: the ledger does not look at the sequence.
AnySequence(s, e) == TRUE

\* sequence_gap otherwise.
InSequence(s, e) == e.seq = s.seq

Accepts(s, e) ==
  /\ InSequence(s, e)
  /\ e.kind = "session_opened" => s.principal = Nobody /\ s.seq = 0
  /\ e.kind # "session_opened" => s.principal # Nobody
  /\ e.kind = "reserved" => Reserved(s, e.reservation) = {}
  /\ e.kind = "settled" =>
       /\ Reserved(s, e.reservation) # {}
       /\ e.outcome = "released" => e.labels = {}
  /\ e.kind = "approval_consumed" => e.act \in s.approvals

Reserve(s, e) ==
  [s EXCEPT !.reserved = @ \cup {[reservation |-> e.reservation, act |-> e.act,
                                  deltas |-> e.deltas, expires |-> e.expires]}]

Release(s, id) == [s EXCEPT !.reserved = @ \ Reserved(s, id)]

Entry(s, id) == CHOOSE r \in s.reserved : r.reservation = id

\* Mutants: the settled reservation stays open; the sign is wrong.
CommitKeepsOpen(s, id, labels) ==
  [s EXCEPT !.committed = [c \in Counters |-> @[c] + Entry(s, id).deltas[c]],
            !.labels = @ \cup labels]

CommitSubtracts(s, id, labels) ==
  [Release(s, id) EXCEPT
     !.committed = [c \in Counters |-> @[c] - Entry(s, id).deltas[c]],
     !.labels = @ \cup labels]

Commit(s, id, labels) ==
  [Release(s, id) EXCEPT
     !.committed = [c \in Counters |-> @[c] + Entry(s, id).deltas[c]],
     !.labels = @ \cup labels]

Effect(s, e) ==
  CASE e.kind = "session_opened" -> [s EXCEPT !.principal = e.principal]
    [] e.kind = "decided" -> s
    [] e.kind = "reserved" -> Reserve(s, e)
    [] e.kind = "settled" /\ e.outcome = "committed" ->
         Commit(s, e.reservation, e.labels)
    [] e.kind = "settled" /\ e.outcome = "released" -> Release(s, e.reservation)
    [] e.kind = "approval_granted" -> [s EXCEPT !.approvals = @ \cup {e.act}]
    [] e.kind = "approval_consumed" -> [s EXCEPT !.approvals = @ \ {e.act}]

Apply(s, e) == [Effect(s, e) EXCEPT !.seq = @ + 1]

\* budget_reservation(): a tool with a budget reserves its argument's amount
\* on that one counter, any other tool reserves nothing.  Cost[a] is the
\* amount on each counter for action a.
CONSTANT Cost
ASSUME CostAssumption == Cost \in [Acts -> Deltas]
=============================================================================
