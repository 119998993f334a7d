----------------------------- MODULE GateSafety -----------------------------
(***************************************************************************)
(* What must hold of the gate: safety invariants, what a step may never    *)
(* do, and the contract the gate implements.                               *)
(***************************************************************************)
EXTENDS Gate, Replay

CONSTANTS
  Asked,                   \* actions a candidate bundle asks a human for
  CandidatePermits(_, _)   \* a permit policy of the candidate matches

\* A session is in step when no write has failed since it was loaded.
InStep == records = state.seq

----------------------------------------------------------------------------
(* Money.                                                                  *)

WithinCap(s) == \A c \in Counters : Used(s)[c] <= Cap[c]

\* However threads, failing writes and crashes interleave, what is committed
\* and reserved together stays within the policy's cap: in memory, and in
\* what the file folds to after a crash (submit's single critical section).
BudgetWithinCap == WithinCap(state) /\ WithinCap(durable)

\* The events of a kind that name a reservation, by their places in the log.
Places(kind, id) ==
  {i \in 1 .. Len(log) : log[i].kind = kind /\ log[i].reservation = id}

\* A reservation has one life: the decision it is numbered after allowed that
\* very action, it is reserved at most once and after it, and settled at most
\* once and after that, in any order of settle, execute, sweep and restart.
OneLife ==
  \A i \in 1 .. Len(log) :
    /\ log[i].kind = "reserved" =>
         LET d == log[i].reservation + 1 IN
         /\ d < i
         /\ log[d].kind = "decided"
         /\ log[d].verdict = "ALLOW"
         /\ log[d].act = log[i].act
         /\ Places("reserved", log[i].reservation) = {i}
    /\ log[i].kind = "settled" =>
         /\ Places("settled", log[i].reservation) = {i}
         /\ \E j \in Places("reserved", log[i].reservation) : j < i

\* A token is never ahead of the disk: its reservation's line was written
\* before the token was minted, so a restart knows every token out there.
TokensAreDurable ==
  \A token \in tokens :
    \E i \in Places("reserved", token.reservation) :
      log[i].act = token.act /\ log[i].expires = token.expires

\* A result execute() has handed back is paid for and labelled for good: its
\* commit is on disk with the tool's labels, whatever was swept, retried or
\* lost meanwhile.
ReturnedIsCommitted ==
  \A id \in returned :
    \E i \in Places("settled", id) :
      /\ log[i].outcome = "committed"
      /\ ResultLabels[log[id + 1].act] \subseteq durable.labels

----------------------------------------------------------------------------
(* Approvals.                                                              *)

Grants(a) == {i \in 1 .. Len(log) :
                log[i].kind = "approval_granted" /\ log[i].act = a}

\* Reservations whose decision saw an approval of the action.
PaidByApproval(a) ==
  {i \in 1 .. Len(log) :
     /\ log[i].kind = "reserved"
     /\ log[i].act = a
     /\ a \in log[log[i].reservation + 1].snapshot.approvals}

\* One approval pays for one reservation at most, even when a crash falls
\* between the three events of a submit.
ApprovalPaysOnce ==
  \A a \in Acts : Cardinality(PaidByApproval(a)) <= Cardinality(Grants(a))

\* A decision that asked for an approval is listed for a human until one is
\* granted after it: no approval given earlier, or to an earlier decision of
\* the same action, hides it, unless the write of a grant has failed in this
\* very process (pending reads the memory, which then has the grant).
WaitingIsListed ==
  InStep =>
    \A i \in Decisions(log) :
      log[i].verdict = "REQUIRE_APPROVAL" =>
        \/ i \in Pending(state, log)
        \/ \E j \in i + 1 .. Len(log) :
             log[j].kind = "approval_granted" /\ log[j].act = log[i].act

----------------------------------------------------------------------------
(* Replay: what an auditor makes of the file.                              *)

\* What the process believes is what its file folds to, so a restart changes
\* nothing it has acted on; and `durable` is indeed the fold of the file.
StateIsFold ==
  /\ durable = Fold(log)
  /\ InStep => state = Fold(log)

\* A session replays exactly, whatever its threads did to one another: every
\* event on disk was acceptable where it stands, every recorded snapshot is
\* re-derived and every verdict comes out the same.
AlwaysReplays == Decisions(log) # {} => ReplayOk(log)

DecisionAdded == Len(log') > Len(log) /\ Last(log').kind = "decided"

\* Line i of the records commits a reservation that holds something.
CommitsSpend(lines, i) ==
  /\ lines[i].kind = "settled"
  /\ lines[i].outcome = "committed"
  /\ \E c \in Counters :
       Entry(Trail(lines)[i], lines[i].reservation).deltas[c] > 0

\* A decision vouches for all that came before it: in the log it has been added
\* to no event can be left out, and no spend turned into a release, without the
\* replay noticing, even when the whole chain is numbered and sealed again.
EditsShow ==
  [][DecisionAdded =>
       \A i \in DOMAIN log :
         /\ ~ReplayOk(Resealed(RemoveAt(log', i)))
         /\ CommitsSpend(log', i) => ~ReplayOk(Reversed(log', i))]_vars

\* A candidate bundle: policies that forbid what is forbidden now.
Candidate == INSTANCE Decide WITH Permits <- CandidatePermits

\* It lets pass with an approval only some of what passes by itself now, and
\* an approval takes nothing away.
CandidateAsks ==
  \A a \in Acts, ctx \in Context :
    /\ CandidatePermits(a, ctx) <=> Permits(a, ctx) /\ (a \in Asked => ctx.approved)
    /\ Allowed(a, ctx) => Allowed(a, BuildContext(ctx, TRUE))

NamesTheRefused(history) ==
  LET snapshots == Rederived(history)
      verdicts  == [i \in Decisions(history) |->
                      Candidate!Verdict(history[i].act, snapshots[i])]
      impact    == HistoryImpact(history, verdicts)
  IN  /\ impact = {i \in Decisions(history) :
                     /\ history[i].verdict = "ALLOW"
                     /\ history[i].act \in Asked \ history[i].snapshot.approvals}
      /\ \A i \in impact : verdicts[i] = "REQUIRE_APPROVAL"

\* What a tightening does to history, however far it has got: history_impact
\* names the calls allowed without an approval, those and no others, and says a
\* human would have been asked.
HistoryNamesTheRefused == [][DecisionAdded => NamesTheRefused(log')]_vars

----------------------------------------------------------------------------
(* What a step may never do.                                               *)

\* Committed spend and labels are never lost, by a restart or by any call:
\* the file only ever adds to them.
NothingEarnedIsLost ==
  [][/\ durable.labels \subseteq durable'.labels
     /\ \A c \in Counters : durable.committed[c] <= durable'.committed[c]]_vars

\* Once a write has failed, the process that saw it fail never writes again:
\* its state is ahead of its records, so every later event is a gap.
NoWriteAfterFailure == [][InStep \/ log' = log]_vars

\* A sweep never takes a reservation whose token still verifies: the clock
\* it reads before the lock, and the strictness of its comparison, are such
\* that verify() would refuse the token by then.
SweepSparesLiveTokens ==
  [][\A t \in Threads, r \in durable.reserved \ durable'.reserved :
       pc[t] = "sweeping" /\ lock = t => r.expires < now]_vars

----------------------------------------------------------------------------
(* The contract, seen in what the file folds to.                           *)

Session == INSTANCE Contract WITH
  spent     <- durable.committed,
  held      <- durable.reserved,
  issued    <- {log[i].reservation :
                  i \in {j \in 1 .. Len(log) : log[j].kind = "reserved"}},
  earned    <- durable.labels,
  approvals <- durable.approvals

\* The gate, with its threads, its lock, its file and its faults, does to a
\* session only what the contract allows, one contract step at a time.
ImplementsContract == Session!ContractSpec

----------------------------------------------------------------------------
(* The inductive invariant the proofs rest on (module GateProofs).         *)

\* n numbers a decision that is on disk.
Recorded(n) ==
  /\ n \in Nat
  /\ n + 1 \in 1 .. Len(log)
  /\ log[n + 1].kind = "decided"

\* The cap has room for action a beside all that is spent or reserved.
Room(a) ==
  \A c \in Counters : Cost[a][c] = 0 \/ Used(state)[c] + Cost[a][c] <= Cap[c]

\* What thread t may rely on where its call stands.  Between the ALLOW and
\* the reservation it holds the lock, so the room its decision saw is there.
CallOk(t) ==
  /\ pc[t] \in {"open", "opening"} =>
       call[t].act \in Acts /\ call[t].who \in Principals
  /\ pc[t] \in {"submit", "consume", "reserve", "approve"} => call[t].act \in Acts
  /\ pc[t] = "submit" => call[t].facts \in Facts
  /\ pc[t] \in {"consume", "reserve"} =>
       /\ lock = t
       /\ call[t].token \in Token
       /\ Recorded(call[t].token.reservation)
       /\ Room(call[t].act)
  /\ pc[t] \in {"redeem", "run", "settle", "close"} => call[t].token \in tokens
  /\ pc[t] \in {"settle", "close"} => call[t].outcome \in Outcomes

\* In step, the memory is what the file folds to; every token has its
\* decision on disk; every call may rely on what it relies on.  It joins the
\* memory, the file, the lock and the locals of every call.
IInv ==
  /\ TypeOK
  /\ WellFormed(state) /\ WellFormed(durable)
  /\ BudgetWithinCap
  /\ InStep => state = durable /\ records = Len(log)
  /\ \A token \in tokens : Recorded(token.reservation)
  /\ \A t \in Threads : CallOk(t)

----------------------------------------------------------------------------
(* The inductive invariant of the log (module LogProofs).                  *)

\* An open reservation has its line in the file, and no settlement.
OpenIsUnsettled ==
  \A r \in durable.reserved :
    /\ \E i \in Places("reserved", r.reservation) : log[i].act = r.act
    /\ Places("settled", r.reservation) = {}

\* Between its ALLOW and its reservation a call holds the number of an ALLOW
\* of its own action, which nothing has been reserved under.
AllowedOnce(t) ==
  LET token   == call[t].token
      decided == log[token.reservation + 1]
  IN  pc[t] \in {"consume", "reserve"} =>
        /\ token.act = call[t].act
        /\ decided.act = call[t].act
        /\ decided.verdict = "ALLOW"
        /\ Places("reserved", token.reservation) = {}

Takes(a) == {i \in 1 .. Len(log) :
               log[i].kind = "approval_consumed" /\ log[i].act = a}

\* Every reservation an approval paid for has a line that takes an approval,
\* every such line a grant; a grant more is there for the one still open.
ApprovalsBalance ==
  \A a \in Acts :
    /\ Cardinality(PaidByApproval(a)) <= Cardinality(Takes(a))
    /\ Cardinality(Takes(a)) <= Cardinality(Grants(a))
    /\ a \in durable.approvals => Cardinality(Takes(a)) < Cardinality(Grants(a))

\* A call about to reserve under an approval has taken it.
HasTaken(t) ==
  LET a == call[t].act IN
  pc[t] = "reserve" /\ a \in log[call[t].token.reservation + 1].snapshot.approvals
    => Cardinality(PaidByApproval(a)) < Cardinality(Takes(a))

\* What waits for an approval in the file has none there, or one granted since.
WaitingInFile ==
  \A i \in Decisions(log) :
    /\ log[i].verdict = "REQUIRE_APPROVAL"
    /\ log[i].act \in durable.approvals
    => \E j \in i + 1 .. Len(log) :
         log[j].kind = "approval_granted" /\ log[j].act = log[i].act

\* The clock a sweep has read is not ahead of the clock.
ReadClock(t) == pc[t] \in {"sweep", "sweeping"} => call[t].at <= now

\* Together with IInv, what joins the lines of the log with one another, with
\* what they fold to, with the tokens and results given out and with the calls.
LogInv ==
  /\ OneLife /\ OpenIsUnsettled
  /\ TokensAreDurable
  /\ ReturnedIsCommitted /\ \A id \in returned : Recorded(id)
  /\ ApprovalsBalance /\ WaitingInFile
  /\ \A t \in Threads : AllowedOnce(t) /\ HasTaken(t) /\ ReadClock(t)

----------------------------------------------------------------------------
(* What must eventually happen.                                            *)

\* Every call returns or raises: no path out of a critical section, refusal
\* or failure leaves the session lock taken for the others to wait on.
CallsReturn == \A t \in Threads : pc[t] # "idle" ~> pc[t] = "idle"

\* Decision numbers the bounds allow: a call appends at most three events,
\* a sweep one per reservation.
Numbers == 0 .. 4 * MaxCalls

BeingRun(n) ==
  \E t \in Threads : pc[t] \in {"run", "settle"} /\ call[t].token.reservation = n

\* A reservation whose tool is run does not stay open, whether the tool
\* returns or raises, unless the process fails first.
RunIsSettled ==
  \A n \in Numbers :
    BeingRun(n) ~> (Reserved(durable, n) = {} \/ faults > 0)

----------------------------------------------------------------------------
(* Claims of the documentation and the tests that the code does not keep.  *)

\* "It is single use": no reservation's tool is started a second time.
OneRunPerToken ==
  [][\A t \in Threads : pc[t] = "run" /\ pc'[t] = "settle" =>
       \A r \in ran : r.token # call[t].token]_vars

\* "A budget cannot be spent twice": the tools that ran to their end cost no
\* more than the cap.  A token run twice is left to OneRunPerToken: one run
\* per token is counted, and only of tokens none of whose runs raised.
RunsWithinCap ==
  LET done == {x.token : x \in {r \in ran : r.ok}} \
              {x.token : x \in {r \in ran : ~r.ok}}
      spend == {[reservation |-> k.reservation, act |-> k.act,
                 deltas |-> Cost[k.act], expires |-> k.expires] : k \in done}
  IN  \A c \in Counters : Held(spend, c) <= Cap[c]
=============================================================================
