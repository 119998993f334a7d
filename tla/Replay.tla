------------------------------- MODULE Replay -------------------------------
(***************************************************************************)
(* fold() of core/ledger.py, replay() and history_impact() of              *)
(* shell/replay.py: a session's records, folded from the beginning, every  *)
(* decision taken again, under the policy of the record or a candidate.    *)
(***************************************************************************)
EXTENDS Decide, SequencesExt

\* The states the records are applied to, in order, and the last one.
Trail(records) ==
  LET state[i \in 1 .. Len(records) + 1] ==
        IF i = 1 THEN InitialState ELSE Apply(state[i - 1], records[i - 1])
  IN  state

Fold(records) == Trail(records)[Len(records) + 1]

\* Mutant: the recorded snapshot is taken on trust.
ExactOnTrust(s, d) == d.verdict = Verdict(d.act, d.snapshot)

\* _check_decision(): the snapshot follows from the state s before it, and the
\* verdict follows from the snapshot.
Exact(s, d) ==
  /\ d.snapshot = Snapshot(s, d.snapshot.facts)
  /\ d.verdict = Verdict(d.act, Snapshot(s, d.snapshot.facts))

\* replay(): no problem with a record on the state of those before it.
Replays(s, e) == Accepts(s, e) /\ (e.kind = "decided" => Exact(s, e))

\* ReplayReport.ok: there are decisions, no ledger problem and no mismatch.
\* (After a problem the loop goes no further; nothing makes it good again.)
ReplayOk(records) ==
  LET trail == Trail(records)
  IN  /\ Decisions(records) # {}
      /\ \A i \in DOMAIN records : Replays(trail[i], records[i])

\* Mutant: the snapshots are those of the state the session ended in.
RederivedAtTheEnd(records) ==
  [i \in Decisions(records) |->
     Snapshot(Fold(records), records[i].snapshot.facts)]

\* The snapshot each decision was taken on, from the events before it.
Rederived(records) ==
  LET trail == Trail(records)
  IN  [i \in Decisions(records) |-> Snapshot(trail[i], records[i].snapshot.facts)]

\* history_impact(): the decisions a candidate policy would take differently,
\* given its verdicts on the snapshots rederived.
HistoryImpact(records, verdicts) ==
  {i \in Decisions(records) : verdicts[i] # records[i].verdict}

\* Edited records, numbered and sealed again as if nothing were missing.
Resealed(records) == [i \in DOMAIN records |-> [records[i] EXCEPT !.seq = i - 1]]

\* A settlement turned round: what was committed is said to be released.
Reversed(records, i) ==
  [records EXCEPT ![i] = [@ EXCEPT !.outcome = "released", !.labels = {}]]
=============================================================================
