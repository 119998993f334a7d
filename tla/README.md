# The gatekeeper in TLA+

TLA+ models of the Deterministic Agent Gatekeeper (`src/`), the TLC
configurations that check them, and theorems about them that TLAPS has checked.

An agent proposes tool calls. The gate decides each call by a pure function of
the call, a snapshot of the session and a policy; records the decision in the
session's ledger; reserves what the call may spend; hands out a token; and runs
the tool when the token is redeemed. The interesting part is not any one
decision but what a *session* keeps to while threads, expiring tokens, failing
writes, crashes and several processes interleave.

## 1. The system

| Component | Source | State it keeps | Operations |
|---|---|---|---|
| Session ledger | `core/ledger.py` | `LedgerState`: principal, seq, labels, committed spend, open reservations, approvals | `apply`, `fold`, `counters`, `snapshot` (pure) |
| Decision | `core/decide.py`, `core/bundle.py`, `core/manifest.py` | none | `decide`: two evaluations by the Cedar engine |
| Policy bundle | `policies/bank-servicing` | none | eight policies; budgets, labels and tools of the manifest |
| Gate | `shell/gate.py` | none of its own | `submit`, `approve`, `execute`, `settle`, `sweep`, `pending` |
| Session, store | `shell/session.py` | in-memory state, session lock, the sessions opened | `open`, `get`, `transaction`, `append` |
| Event log | `shell/log.py` | the file; the records and last hash a process remembers | reload with chain check, `append` with fsync |
| Tokens | `shell/tokens.py` | the signing key, a file | `mint`, `verify`, `load_or_create` |
| Egress control | `shell/executor.py` | none | `egress_pins` accepts or refuses |
| Proxy | `shell/proxy.py` | the next request id; the connection to the server | `serve`, `handle`, `request` |
| Replay | `shell/replay.py` | none | re-derives every decision from a log; `history_impact` under a candidate policy |
| Diff | `core/diff.py`, `cmd_diff` | none of its own; the bundle in use and the one proposed | `compare`: probes two bundles for differing verdicts; fails on a widening |
| Manifest | `core/manifest.py` | the tools a loaded bundle declares | `parse` at load time, `check_snapshot` at each decision |
| Canonicalisation | `core/canonical.py`, `money.py`, `url.py`, `strictjson.py`, ... | none | text to canonical values (`canonicalize`) and back (`wire_value`) |
| Command line, demo | `cli.py`, `shell/demo.py` | none | each command is a process with a gate of its own |

How they interact. The proxy calls `submit` and `execute`; `execute` calls back
into the proxy to run the tool and then `settle`. Each of these opens the
session through the store, takes the session lock (re-entrant, one per process)
for its critical section, and appends events: the ledger accepts the event and
the in-memory state moves, then the line is written and synced, then the log's
memory moves. Commands of the command line do the same in processes of their
own, over the same file.

What is hard about it:

* `execute` has two critical sections with the tool between them, and `open`
  has two as well; anything may happen in the gap.
* `submit` appends up to three events; a crash may fall between any two.
* The in-memory state moves before the write: a failed write leaves the process
  ahead of its file.
* A sweep and a late settlement race for one reservation; the sweep's clock is
  read before it waits for the lock.
* The verdict is taken at submit and used at execute.
* The chain is remembered, not re-read, before an append.
* The proxy takes the first message with the right id for its answer.
* What a manifest may declare and what a call may contain meet only at run time:
  an exception there is no refusal, and one after the ALLOW leaves it unpaid.
* A diff of two bundles tries a bounded sample: what it leaves out passes.

What makes each part correct is stated as properties, section 3. The hazards at
their lines are listed in `PROJECT.json`.

## 2. Modules

    Ledger --- Decide --+-- Gate ------+-- GateSafety --+-- MCGate (with MCBank)
       |                |              |                +-- GateProofs --- LogProofs
       |                +-- Replay ----+
       |                +-- BankPolicy --+-- MCBank --- MCResubmit
       |                                 +-- Resubmit --+-- MCResubmit
       |                                                +-- BankProofs
       +-- Contract (instantiated by GateSafety)
       +-- LedgerProofs (used by GateProofs, BankProofs)
    Diff (instantiates Decide) --+-- MCDiff
                                 +-- DiffProofs
    Canonical --- Admission --+-- MCAdmission
                              +-- AdmissionProofs
    LedgerFile --- FileProofs          Proxy --- ProxyProofs

* **Ledger** is `ledger.py`. `Accepts(s, e)` is the negation of all of `apply`'s
  refusals, `Apply(s, e)` the state it returns. `Held` counts reserved spend as
  the number of units held, so that no recursion is needed. An action stands
  for its hash. Syntax checks of bodies are left out.
* **Decide** is `decide()`. The engine is three constant operators (`Permits`,
  `Forbids`, `Errs`); how the engine combines them and how the gate reads its
  answer (an error denies, a forbid is final, an approval is tried only for a
  denial by default) is modelled. Whether arguments canonicalise is the set
  `Malformed`. `PolicyAssumption` is the one thing asked of a policy: it allows
  an action only where the counters leave room for its cost.
* **BankPolicy** is the bank-servicing bundle, for any set of actions; **MCBank**
  a handful of actions. Amounts are scaled: an automatic refund costs 2 with a
  limit of 4, one that needs a human 3 with a limit of 5.
* **Gate** is one process with several threads over one session: `gate.py`,
  `session.py`, append of `log.py`, expiry of `tokens.py`. `state` is the memory,
  `log` the file, `durable` what the file folds to, `records` the length the
  process remembers, `pc` and `call` where each thread stands and its locals.
  A step is what runs between two acquisitions of the lock, or, in a critical
  section, between two writes. `WriteFails` lets the state move without the
  records, the line on disk or not. `Crash` restarts the process from the file.
  `execute` is Execute, Redeem or RedeemRefused, Run, ExecuteSettles; `submit` is
  Submit, Open, AppendOpened, SubmitDecides, SubmitConsumes, SubmitReserves;
  `sweep` is Sweep, SweepLocks, SweepReleases, SweepEnds. `settle()` may also be
  called by a holder of a token who ran the tool himself (`Settlers`).
  `Pending` is `pending()`, which only reads.
* **GateSafety** states the properties, what a replay of the file must show
  included, and the two inductive invariants `IInv` and `LogInv`.
* **Contract** is what a session promises: spend is held under the cap in one
  step, then committed or returned once; labels are earned and kept; an approval
  is taken at most once. `GateSafety!ImplementsContract` maps `durable` to it.
* **Replay** is `fold`, `replay` (every recorded snapshot and verdict again) and
  `history_impact` (every verdict again under a candidate policy). `Trail`, the
  states a log passes through, is a recursive function, so that it can be proved
  about. GateSafety applies them to every log the gate can write and to each of
  those with an event taken out or a settlement turned round and the chain
  sealed again, and to a candidate that asks a human for the actions of `Asked`
  (`CandidateAsks`); in MCGate it is the bank's bundle with its automatic limit at
  0, and TLC checks that this is such a candidate.
* **Diff** is `gatekeeper diff` as the check a change has to pass. `main` is the
  bundle in use, `branch` the one proposed; `Edit` changes one thing, `Merge` is
  `cmd_diff` ending with 0. A bundle is its three caps, the manifest's largest
  amount, the guardrail of frozen accounts, one for each set of labels that holds
  fetches back (`seals`; `Seals` bounds those a change may bring), hosts and tools.
  Hosts and labels are positions in their lists. `Probes` is the sample: boundary values of the literals of both bundles,
  thinned to eight by position, the counter at the first four, the candidate's
  first two hosts, the sets of its first three labels (`LabelSets`), facts present,
  frozen and missing, with and without an approval. Each is decided by Decide,
  instantiated twice over.
* **Canonical** is what is made of a value: amounts as digits, hosts and ids as
  labels (what stands between their dots), paths as what stands between slashes
  (`Names`), the path of a URL as characters (`Letters`) with the number of times
  each is percent-encoded; and `WireValue`, what the runner gets. A `for` of the
  code is `Folded`, a recursive function, so that loops can be proved about.
* **Admission** is a tool's life from its declaration (`Load` is
  `Manifest.parse`) to a call (`Submit` is `canonicalize`), with the reservation
  and the entity store that follow from it. Exceptions are values: `Rejection` is
  one the gate records, `Failure` any other. `AdmissionAssumption` says that
  bounds are integers and that what an agent sends is parsed JSON (`Value`).
* **Resubmit** submits one bank action over and over while everything the
  verdict depends on changes, for properties that relate two verdicts.
  `BundleAssumption` says that the engine's three operators are the bank's.
* **LedgerFile** is the session's file and the processes that open it, with lines
  torn, unended or whole. A hash is the sequence of bodies it covers. Any of them
  may append: the lock and the store are of one process. `writers` and `returned`
  remember who wrote what and whose append returned. A write of one process is not
  cut in two by another's.
* **Proxy** is the proxy between its client and a server that answers in any
  order, sends messages of its own or lines that do not parse, and may hang up.
  Each line of the client is its number; an id that is null or missing is `Nothing`.
* **LedgerProofs** (the fold), **GateProofs** (the budget), **LogProofs** (the
  file, its replay, the contract), **BankProofs** (verdicts and the bank bundle),
  **FileProofs**, **ProxyProofs**, **DiffProofs** and **AdmissionProofs** hold the
  theorems.

## 3. Runs

Passing runs. All of them exhaust the state space of their bounds. The type
invariants (`TypeOK`, `FileTypeOK`, `ProxyTypeOK`) are checked as conjuncts of
`IInv`, `FileInv` and `ProxyInv`.

| Run | What it shows | Bounds |
|---|---|---|
| `gate_core` | `BudgetWithinCap`: committed and reserved together stay under the cap. `OneLife`: a reservation follows the ALLOW it is numbered after, is made once, settled once. `SweepSparesLiveTokens`: no sweep takes the reservation of a token that still verifies. `AlwaysReplays`: the log replays exactly. `EditsShow`: no event before the last decision can be left out, and no spend turned into a release, unnoticed. `HistoryNamesTheRefused`: `history_impact` of a tightening names the calls allowed without a human and no others | 2 threads (symmetric), an automatic and an approvable refund, 5 calls, clock 0..2 with a time to live of 1 |
| `gate_faults` | `StateIsFold`, `TokensAreDurable`, `ReturnedIsCommitted`, `ApprovalPaysOnce`, `NothingEarnedIsLost`, `NoWriteAfterFailure`, `ImplementsContract`. `WaitingIsListed`: `pending` lists every call that waits for an approval given after it. The inductive invariants `IInv` and `LogInv` | 2 threads, an approvable refund and a labelling lookup, 4 calls, 2 failing writes or crashes |
| `gate_live` | `CallsReturn`: every call ends. `RunIsSettled`: a tool that is run has its reservation closed, unless the process fails | 2 threads, 1 refund, 3 calls, 1 fault |
| `resubmit` | `GuardrailsHold`: a forbid or an unloaded account denies whatever is approved. `ApprovalIsAllThatWasMissing`: REQUIRE_APPROVAL is said exactly when the approval would bring ALLOW. `ApprovalsAreBound`: no other action's approval matters | 6 actions, one malformed; counters to 9, one above the manifest's maximum |
| `writers` | `ChainTellsWhoMissed`: the chain breaks exactly when a process writes over another's record it has not read. `ReturnedStay`: an event whose append returned stays. `MemoryIsOfTheFile`: while the chain holds, what a process misses is what others wrote. `AppendLeavesReadable`: which appends leave a session that loads. The inductive `FileInv` | 2 processes that append, 4 writes, 2 failing |
| `proxy` | `OpenOnlyInCall`, `CallAnswersAreTheirs`, `WaitsEnd`, and the inductive `ProxyInv` | 3 lines, 2 ids, 2 unasked messages |
| `admission` | `CallsEndInAVerdict`: a bundle that loads has no call that fails, but for one case (below). `WireReadsBack`: what runs, read again, is what was decided on. `PathStaysInside`, `AllowlistedMeansBeneath`, `MoneyIsExact`: sandbox, allowlist and amounts mean what they say. `ReservationFits`: a call that is allowed reserves an amount the ledger takes. `NoEntityTwice`: configuration, facts and derived resources never clash | every declaration over 18 arguments of 7 kinds, every field and type; paths of up to 4 segments, URL paths of up to 4 characters encoded up to twice, 10 hosts, amounts of up to 4 digits in currencies of 0, 2 and 3 |
| `policy_diff` | `TwoAmountsAreSeen`: no merge that is not acknowledged frees two amounts in a fresh session. `OnlyLateHostsOpenUnsaid`: none adds a tool, and a fetch is freed in two cases only: of a newly listed host that two listed ones precede, or of a session held back by a guardrail on a label after the first three. `TighteningPasses`: a change that only tightens is never refused | caps out of 3, 4, 6 and 13 in the order the bundle has them (changed to any), largest amount 5 or 40, lowered and raised, counter to 60, 8 values a dimension; none, one or two of 4 hosts listed, at either end of the alphabet or between; 4 labels, guardrails on one, on two and on the last; one change of one field and its merge |

Why the bounds are enough to be interesting: two refunds that fit the cap one by
one and not together need two threads and two calls; an approval, the refund it
pays for and a second attempt need four; a token expires, is swept and settled
late with a clock of two; a crash between the events of a submit, and a second
one after the restart, need two faults. In each of the gate's runs every one of
these happens, and for each property there is a mutant in the modules (a dropped
lock, an inclusive comparison, a buffered line, a kept approval, ...) that the
same run refutes. In `policy_diff` the caps lie so close, or so far apart, that
lists of boundary values both shorter and longer than eight occur: with 16 values
at most, two that follow one another are never both dropped, and one freed amount
is really missed. There are two hosts and a label more than the code probes: late
hosts and guardrails do go unseen, and the property says that nothing else does. In
`writers` both processes load, each appends past the other and breaks the chain,
fails, dies and starts again; the gate's own runs are about one process. In
`admission` every kind of argument meets every field, every currency its own number
of minor digits, and a path every order of dots, empty segments and names.

The deadlock check is off where calls, lines, time or changes are bounded, since
the system then stops for want of input. Thread symmetry is used for safety only.

Fairness. `FairSpec` asks weak fairness of each thread's next step of a call it
has begun (`Steps`), and nothing of clients, clocks, faults or crashes. Threads
are scheduled by the operating system. Runners return or raise: `runner` is the
caller's code, and one that never returns keeps its reservation open until a
sweep. A thread that waits for the lock is served because the bounded number of
calls lets the lock become free for good; no strong fairness is assumed.
`ProxyFairSpec` asks that the proxy's loop runs and that a server answers what it
was asked unless it hangs up; the code has no timeout, so without that a silent
server blocks the proxy.

Runs that find a claim violated:

| Run | The claim | What the code does |
|---|---|---|
| `token_reuse` | tokens.py:8: "It is single use because the reservation it names is closed when the action settles" | Two concurrent `execute` calls both pass the check at gate.py:110 before either settles, and both run the tool |
| `swept_run` | README:163: "A budget cannot be spent twice" | `sweep` releases the reservation of a tool still running; the room is spent again, and the late settlement raises after the fact |
| `tool_failure` | ADR-008:22-23: spend is committed "when the tool reports success, or returned when it fails" | a result with `isError` counts as success |
| `diff_blind` | ADR-010:27-28: "integer values taken from `{v-1, v, v+1}` for every literal appearing in either policy set"; :56-57: "moving a cap by one unit [is] caught" | boundary values are thinned to eight and the counter is tried at the first four: with the shipped caps, the session cap of `refund-auto` raised from 50000 to 50001 passes (diff.py:216) |

Seen while modelling, with no run of their own:

* The gate. Two first calls of a session both see no principal, and the loser's
  call raises (session.py:86) where test_concurrency.py:61 expects a verdict of
  each; `execute` does not decide again, so a fetch allowed before the session
  became tainted runs after it (gate.py:123, policies.cedar:5-6); the lock and the
  store are of one process (session.py:24, 56), while `gatekeeper approve`, `sweep`,
  `settle` and `submit` have a gate of their own (cli.py:164-200): two processes
  that have loaded a session append two records of one number, both calls return,
  and the session never loads again, where ADR-008:25 says "One writer per session."
  and log.py:73 "One file, one chain" (`writers` goes through it, and
  `ChainTellsWhoMissed` says that only this breaks the chain); what `egress_pins`
  returns is dropped (gate.py:121), where executor.py has the connection made to the
  pinned address; `pending()` lists a decision again once its approval has been
  consumed (gate.py:152).
* Log and command line. A line that lost only its newline loads, and the next
  append makes both unreadable (log.py:94); a log cut at its end replays
  (README:169); `cli.py:176` unpacks reservations of four fields into three names,
  so `state` fails while one is open.
* Proxy. `request()` drops the server's notifications and its own requests
  (proxy.py:83) where proxy.py:4 says all but tools/call is relayed; a tools/call
  without an id is relayed as a notification (proxy.py:110); a request whose id is
  null is answered with the server's next notification, or any message without an
  id (proxy.py:83, 110); a line of the server that does not parse, or a result of
  tools/list that is null, ends the proxy (proxy.py:75, 135).
* Canonicalisation. An optional argument that is the resource and is not sent
  raises a KeyError (canonical.py:90) instead of a recorded DENY: the case
  `CallsEndInAVerdict` leaves out; an optional argument that is the budget and is
  not sent reserves nothing (ledger.py:205); `_remove_dot_segments` drops the
  closing slash that RFC 3986, 5.2.4 keeps (url.py:72-83); derived parents are
  accepted for a resource that is no host (manifest.py:255), and listing a single
  label lists nothing (url.py:136).
* Diff. Only the first two allowlisted names are probed (diff.py:141), and the bank
  lists two: a third that follows them in the alphabet passes, where ADR-010:56-57
  says that "opening egress" is caught; a guardrail on the manifest's fourth label can
  be dropped unseen (diff.py:206). `policy_diff` goes through both. The currency filter
  drops nearly every boundary amount in JPY and, by a fractional power, in KWD
  (diff.py:170).

## 4. Theorems

Each theorem is for every value of the constants its module's assumptions allow:
TLC's runs are instances of it.

**The gate's budget** (GateProofs, LedgerProofs), for any finite or infinite sets
of threads and actions, any policy with `PolicyAssumption`, any costs, labels and
times, and any number of calls and faults (`LedgerAssumption`, `CostAssumption`,
`DecideAssumption`, `PolicyAssumption`, `GateAssumption`; the set of counters is
finite):

* `Invariance`: `Spec => []IInv`, and from it `TypeCorrect` (`TypeOK`) and
  `BudgetSafe` (`BudgetWithinCap`);
* `FailureIsFinal` (`NoWriteAfterFailure`) and `EarningsStay`
  (`NothingEarnedIsLost`), action properties from the same invariant.

`BudgetWithinCap` is not inductive: between the ALLOW and the `reserved` event
the room the decision saw must still be there. `IInv` says so: a thread in
between holds the lock and the room is there (`CallOk`, `Room`). It adds what
that rests on: both states are `WellFormed` (one reservation of a number,
finitely many units held, or `Held` would mean nothing); while no write has
failed, memory and file agree (`InStep => state = durable`), so the budget
checked in memory is the budget on disk; and a token's number names a decision
in the log (`Recorded`), or `LabelsOf` would read a line that is not there.
`LedgerProofs` shows that every accepted event keeps `WellFormed` and what it
does to `Held` (`HeldAdd`, `HeldRemove`); `AllowLeavesRoom` turns an ALLOW into
`Room`; `GateProofs` then has one lemma per group of steps that move the state
in the same way (`SubmitKeeps`, `WritesKeep`, `WriteFailsKeeps`, ...), each with
one step per action.

**The gate's log** (LogProofs), from the same assumptions:

* `LogInvariance`: `Spec => []LogInv`, and from it `OneLifeHolds` (`OneLife`),
  `TokensStayDurable` (`TokensAreDurable`), `ReturnedStaysCommitted`
  (`ReturnedIsCommitted`), `ApprovalPays` (`ApprovalPaysOnce`),
  `WaitingStaysListed` (`WaitingIsListed`), `SweepSparesLive`
  (`SweepSparesLiveTokens`).
* `GateImplementsContract` (`ImplementsContract`): the refinement. Every step of
  the gate, seen in `durable` and the log, is a step of Contract or leaves it as
  it is: a decision, a request and a clock tick are stutters, `reserved` is a
  hold (`HoldsSpend` needs the room and the number being new), `settled` a commit
  or a return (`SettlesSpend`), the approval events move the approvals.
* `MemoryIsTheFold` (`StateIsFold`), `SessionsReplay` (`AlwaysReplays`) and
  `EditsAreSeen` (`EditsShow`).

`LogInv` joins four things. `OneLife` needs that what is open has its line and no
settlement (`OpenIsUnsettled`) and that a thread about to reserve holds the number
of an ALLOW of its own action under which nothing is reserved (`AllowedOnce`).
`ApprovalPaysOnce` is a count over the log that a crash can leave unbalanced
between any two of the three events of a submit: paid ≤ taken ≤ granted, one of
them strict while an approval is open (`ApprovalsBalance`) or a call has taken one
and not yet reserved (`HasTaken`). `WaitingInFile` is about the file, since
`pending` reads the memory; `ReadClock` says the clock a sweep has read is not
ahead. A step that reaches the file is an append by one thread to a file its
memory agrees with (`Writes`, `QuietOrWrites`); all others leave the log alone,
so each conjunct is proved once for `Writes` and once for the rest.

Replay rests on `Followed`: `durable` is the fold of the log and every record
replays on the state of those before it. The states of a log are not disturbed
by what is added (`TrailGrows`), and an event is decided on the very state it is
appended to (`NewReplays`). `EditsAreSeen` looks at the new decision, last in the
log. A decision names the number of events before it twice, as its own number and
as that of its snapshot (`NumberedTwice`): with an event left out and the rest
numbered again, the two differ (`RemovalShows`). With a commit turned into a release, the two
logs stay apart in a counter, whatever follows (`StayApart`), and the decision's
snapshot, which has the counters, differs (`ReversalShows`).

* `HistoryIsNamed` (`HistoryNamesTheRefused`), on the hypothesis `CandidateAsks`: the
  candidate permits what is permitted now, except that it wants an approval for
  the actions of `Asked`, and an approval takes nothing away. A session that
  replays re-derives the snapshots it recorded, and on each of them the candidate
  says REQUIRE_APPROVAL where an action of `Asked` was allowed without one, and what
  was said before everywhere else (`CandidateVerdict`). `TighteningAsks`
  (BankProofs) shows the hypothesis of the bank's bundle, for refunds of one minor
  unit or more, as its manifest has them.

**The bank bundle** (BankProofs), for any actions and amounts, and limits of which
the automatic is not above the approved (`BankAssumption`); all but the first with
`BundleAssumption`:

* `BankKeepsCaps` proves `PolicyKeepsCaps`, which is what `PolicyAssumption` asks:
  with it the theorems of the gate hold of the bundle that ships;
* `GuardrailsStand` (`GuardrailsHold`), `ApprovalSuffices`
  (`ApprovalIsAllThatWasMissing`), `ApprovalsBind` (`ApprovalsAreBound`): no
  invariant of the session is needed beyond the snapshot's type; what matters is
  that a forbid or an error does not look at the approval (`ApprovalOnlyPermits`)
  and that `decide` looks at no approval but its own (`OwnApprovalOnly`).

**The file** (FileProofs), for any processes, however many of them append, any
bodies, writes and failures: `FileInvariance` (`FileInv`), `ChainTells`
(`ChainTellsWhoMissed`), `ReturnedIsForGood` (`ReturnedStay`), `MemoryIsTrue`
(`MemoryIsOfTheFile`), `FileTypeCorrect` (`FileTypeOK`), `WhatAnAppendLeaves`
(`AppendLeavesReadable`). That the chain holds is no theorem (section 3); what
is, is that its break and an unread record written over are the same thing: a
record is numbered by what its writer has read, so a chain that holds places each
at the end of all before it, and one that is not so placed has a record between of
a writer other than its own. For that a process must know its own records: what
`MemoryIsOfTheFile` says, with `folded[p] >= Len(prev[p])`, by which after a failed
write a process's state is ahead of its records for good and it never appends
again. `ReturnedStay` needs none of this but that pieces are never taken away, and
that a hash is as long as its record's place.

**The proxy** (ProxyProofs), for any lines, ids and messages:
`ProxyTypeCorrect` (`ProxyTypeOK`), `OpenOnlyWhileCalling` (`OpenOnlyInCall`), and
on the hypothesis `IdsApart`, `ProxyInvariance` (`ProxyInv`) and
`CallsGetTheirAnswers` (`CallAnswersAreTheirs`). An exception out of a request, by
the end of the stream or a line that does not parse, settles as an error does
(`RaisesKeepsLines`). `IdsApart` says that client and
server number their own requests no higher than the number the proxy counts from,
a million (proxy.py:104): that is what the number is for, and nothing enforces
it. The hypothesis is needed: with an id of 101 where the proxy counts from 100,
TLC finds a request of the server's own taken for a call's result (proxy.py:83
compares the id alone). `ProxyInv` follows the numbers: whatever has been asked
or has come in under a number of the proxy's is of a call already made, and under
the number awaited, of the call that waits; lines that have been answered or
settled are done with (`AllDone`), so no line is both.

**A bundle's change** (DiffProofs), for any bundles to start from, caps, labels
and limit on the probes (`DiffAssumption` says what they are made of). Every
edit makes a bundle (`HistoryTyped`), and all probes are requests (`ProbesTyped`).

* `TighteningIsFree` (`TighteningPasses`): a verdict is monotone in what the engine
  says (`VerdictsAreMonotone`). Where one bundle permits no more, forbids and errs
  no less, and rejects no fewer actions, its ALLOW is the other's too, and where it
  asks a human the other asks or allows; a stricter bundle is one such
  (`StricterIsNotFreer`).
* `HostsAreGuarded` (`OnlyLateHostsOpenUnsaid`), for any hosts, labels and
  guardrails; asked is only that a boundary value may be kept at all. A session
  with nothing spent is always tried (`ZeroIsTried`: thinning keeps the smallest
  value), and what a fetch in it may do is known in closed form (`RankOfFetch`). If
  what is freed was held back, by a guardrail over the first three labels alone,
  then so was the name nobody lists in a session with just its labels, which is
  tried (`FetchIsTried`). If it was not held back, its host is newly listed, and is
  tried unless two listed ones precede it (`UnseenIsLate`).
* `RefundsAreSeen` (`TwoAmountsAreSeen`), with the eight values a dimension that
  diff.py keeps (line 34). A bundle is changed in one field before it is merged
  (`BranchIsOneEdit`), so what it frees is a range of amounts (`FreedIsARange`).
  Two amounts x and x + 1 in the range lie next to two boundary values that
  follow one another, with no cap in between (`Neighbours`), so both values are
  freed as x and x + 1 are (`FreedAlike`). One change has four caps in play at
  most, so there are at most 16 boundary values (`FewBoundaries`), and keeping
  eight of sixteen by position never drops two in a row (`OneOfTwoIsKept`). The
  largest amount is no literal and needs an argument of its own
  (`FreedMostIsTried`): where it is raised up to a cap that bounds what is freed,
  or past it, the last two values up to the cap are there; where that cap is higher
  still, there are eight values at most and none is dropped. Of two caps changed
  at once, and of bundles with more literals, this says nothing.

**Loading and calls** (AdmissionProofs), for any declarations, calls, allowlists
and facts with `AdmissionAssumption`:

* `CallsHaveVerdicts` (`CallsEndInAVerdict`): the checks `Manifest.parse` makes
  are those `canonicalize` relies on. What a canonical value of each kind contains
  (`CanonicalValueOk`) has every field a loaded declaration may name
  (`FieldsAreThere`).
* `BudgetsFit` (`ReservationFits`): the field a budget names is an integer within
  bounds that start at zero, or a port.
* `AllowlistIsExact` (`AllowlistedMeansBeneath`): `HostSuffixes` are the ends of
  two labels or more (`SuffixesAreEnds`), and a resource that can have parents is
  a sequence of labels or one label alone (`ResourceLabels`, `OneLabel`).
* `StoreIsSound` (`NoEntityTwice`): what is derived for a tool has a type of its
  own.

The next three are about loops over values of any length. The library's induction
rules take an operator, which no prover here instantiates; they are proved by
induction over a *set* of sequences instead (`SeqInduction`), which the
well-foundedness of < gives (`LeastNat`), and a loop is known by its first value
and its step (`FoldedEmpty`, `FoldedAppend`).

* `AmountsAreExact` (`MoneyIsExact`), for amounts of any length: padding with zeros
  multiplies by powers of ten (`PaddedNumber`), for the exponents 0, 2 and 3 the
  code has.
* `PathsStayInside` (`PathStaysInside`): a canonical path has no dots or empty
  segments left (`DotsAreRemoved`, `PathIs`), so it leads where it says; what
  `rstrip("/")` takes off the sandbox's end leads nowhere (`StrippedIs`), so a path
  that begins with the sandbox's text also begins where it leads
  (`InsideLeadsInside`), even where the sandbox is spelt with dots of its own.
* `WhatRunsWasDecided` (`WireReadsBack`): every kind's canonical value is a fixed
  point. Digits written out are read back as the same number (`TextReadsBack`);
  for a URL, no escape that would be decoded remains once they were decoded
  (`PercentIs`), splitting at slashes undoes joining (`SplitSegment`, `TextIs`), and
  a host has no closing dot to lose (`HostIs`).

All seven come from `AdmissionInvariance`: a tool that is called was accepted when
it was loaded, and the action is what `canonicalize` made of that call.

Only model-checked, and why:

* liveness (`CallsReturn`, `RunIsSettled`, `WaitsEnd`): fairness and ENABLED are
  beyond the prover. Every other property of the passing runs is a theorem.

The proofs corrected the models in two places. `EditsShow` said that turning any
commit into a release shows; turning round the settlement of an action that costs
nothing, and whose labels the session has anyway, changes nothing: it now speaks
of a reservation that held something (`CommitsSpend`). `AllowlistedMeansBeneath`
took the segments of a path for labels: a path has no dots to derive a parent
from, and the property is about the resources that have.

## 5. Not modelled, and why

* Hashes and signatures: a token or a record cannot be forged, a hash is taken
  for what it covers. Edited logs are those an owner of the key sealed again.
* Reasons of decisions, wording, formatting, the schema generator: no property
  here is about them.
* Character-level parsing: strict JSON, canonical JSON and digests, Unicode
  normalisation and IDNA, IP literals, case, queries, text arguments. The gate's
  model keeps what it needs: a call is malformed or has one canonical action.
* The Cedar schema generated from the manifest, and names, hashes and
  configuration entities checked at load: they run once, before any state exists.
* The creation of the key file: two processes that create it at once may each
  keep a key of their own, and nothing in the code says they may not.
* Two processes whose writes meet within one line of the file, and a reload that
  sees half of a line another process is writing.
* In Diff: `email.send`, which the same guardrail holds back, reports, enumerations
  and paths are probed as hosts are, one value after another; the limit of 4000
  probes, which the bank's refund does not
  reach; amounts in KWD.
* Formatting and the other commands of `cli.py`, the demo, the evaluations: they
  call what is modelled and print.
* Address classification: `egress_pins` may refuse or accept at will.
* The clock does not run backwards in Gate. `time.time_ns` may.
* Torn lines are in LedgerFile, not in Gate: Gate's restart always finds whole
  lines.
* Only one session: sessions share nothing but the key.

## 6. Plan

1. Gate, LedgerFile, Proxy, Resubmit and the proof of the budget — done.
2. Replay of edited logs, `history_impact`, `pending` — done.
3. Diff, Canonical, Admission — done.
4. Theorems about the gate's log, its replay and its contract, the file, the
   proxy, the bank bundle, admission and the policy diff — done (section 4).
5. Open: a contract for LedgerFile seen by its readers; what the contract itself
   promises (the cap), proved of Contract; how much of a change of two caps at
   once `gatekeeper diff` sees.
