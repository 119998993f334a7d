----------------------------- MODULE GateProofs -----------------------------
(***************************************************************************)
(* The gate keeps its types and its budget, and never writes after a       *)
(* failed write, for any number of threads, calls, crashes and failing     *)
(* writes, any set of actions, and any policy that keeps its own caps      *)
(* (PolicyAssumption).                                                     *)
(***************************************************************************)
EXTENDS GateSafety, LedgerProofs

----------------------------------------------------------------------------
(* Decisions.                                                              *)

\* An action is allowed only where the cap has room for it: the policy sees
\* the very total that reserving will add to.
LEMMA AllowLeavesRoom ==
  ASSUME NEW s, WellFormed(s), NEW a \in Acts, NEW facts \in Facts,
         Verdict(a, Snapshot(s, facts)) = "ALLOW"
  PROVE  \A c \in Counters : Cost[a][c] = 0 \/ Used(s)[c] + Cost[a][c] <= Cap[c]
  <1> DEFINE snapshot == Snapshot(s, facts)
             approved == a \in s.approvals
             ctx == BuildContext(snapshot, approved)
  <1>1. /\ snapshot.counters = Used(s)
        /\ snapshot.labels = s.labels
        /\ snapshot.approvals = s.approvals
        /\ snapshot.facts = facts
    BY DEF Snapshot
  <1>2. ValidInput(a, snapshot) /\ Allowed(a, ctx)
    BY <1>1 DEF Verdict
  <1>3. Used(s) \in [Counters -> 0 .. MaxCounter]
    BY <1>1, <1>2, UsedType DEF ValidInput, Deltas, DecideAssumption
  <1>4. ctx \in Context /\ ctx.counters = Used(s)
    BY <1>1, <1>3 DEF Context, BuildContext, WellFormed, LedgerState
  <1> HIDE DEF ctx
  <1>5. QED
    BY <1>2, <1>4, PolicyAssumption DEF PolicyKeepsCaps

\* The snapshot a decision records is one.
LEMMA SnapshotTyped ==
  ASSUME NEW s, WellFormed(s), NEW facts \in Facts
  PROVE  Snapshot(s, facts) \in SnapshotType
  BY UsedType DEF Snapshot, SnapshotType, WellFormed, LedgerState

----------------------------------------------------------------------------
(* Writing to the log.                                                     *)

\* Every event a thread offers carries the number of records, so the ledger
\* accepts one only in step.
LEMMA OffersNumber ==
  ASSUME NEW t, pc[t] \in Appending
  PROVE  EventOf(t).seq = records
  BY DEF Appending, EventOf, Settled

LEMMA AcceptedInStep ==
  ASSUME NEW t, AtAppend(t), Accepts(state, EventOf(t))
  PROVE  InStep
  BY OffersNumber DEF AtAppend, Accepts, InSequence, InStep

\* The only event that adds to the total is the one that follows an ALLOW.
LEMMA OffersKind ==
  ASSUME NEW t, pc[t] \in Appending
  PROVE  /\ pc[t] = "reserve" => /\ EventOf(t).kind = "reserved"
                                 /\ EventOf(t).deltas = Cost[call[t].act]
         /\ pc[t] # "reserve" => EventOf(t).kind # "reserved"
         /\ pc[t] = "submit" => EventOf(t).kind = "decided"
  BY DEF Appending, EventOf, Settled

\* What the ledger accepts of a thread is an event.
LEMMA OffersEvent ==
  ASSUME IInv, NEW t \in Threads, AtAppend(t), Accepts(state, EventOf(t))
  PROVE  EventOf(t) \in Event
  <1> DEFINE e == EventOf(t)
  <1>1. /\ pc[t] \in Appending
        /\ records \in Nat
        /\ CallOk(t)
        /\ WellFormed(state)
        /\ \A token \in tokens : Recorded(token.reservation)
        /\ log \in Seq(Event)
        /\ tokens \subseteq Token
    BY DEF IInv, TypeOK, AtAppend
  <1>2. CASE pc[t] = "opening"
    <2>1. e = [kind |-> "session_opened", seq |-> records, principal |-> call[t].who]
      BY <1>2 DEF EventOf
    <2>2. QED
      BY <1>1, <1>2, <2>1 DEF CallOk, Event
  <1>3. CASE pc[t] = "submit"
    <2>1. e = [kind |-> "decided", seq |-> records, act |-> call[t].act,
               snapshot |-> Snapshot(state, call[t].facts), verdict |-> Decision(t)]
      BY <1>3 DEF EventOf
    <2>2. call[t].act \in Acts /\ call[t].facts \in Facts
      BY <1>1, <1>3 DEF CallOk
    <2>3. Snapshot(state, call[t].facts) \in SnapshotType
      BY <1>1, <2>2, SnapshotTyped
    <2>4. Decision(t) \in Verdicts
      BY DEF Decision, Verdict, Verdicts
    <2>5. QED
      BY <1>1, <2>1, <2>2, <2>3, <2>4 DEF Event
  <1>4. CASE pc[t] \in {"consume", "approve"}
    <2>1. /\ e.kind \in {"approval_granted", "approval_consumed"}
          /\ e = [kind |-> e.kind, seq |-> records, act |-> call[t].act]
      BY <1>4 DEF EventOf
    <2>2. QED
      BY <1>1, <1>4, <2>1 DEF CallOk, Event
  <1>5. CASE pc[t] = "reserve"
    <2>1. e = [kind |-> "reserved", seq |-> records,
               reservation |-> call[t].token.reservation, act |-> call[t].act,
               deltas |-> Cost[call[t].act], expires |-> call[t].token.expires]
      BY <1>5 DEF EventOf
    <2>2. call[t].act \in Acts /\ call[t].token \in Token
      BY <1>1, <1>5 DEF CallOk
    <2>3. Cost[call[t].act] \in Deltas
      BY <2>2, CostAssumption
    <2>4. call[t].token.reservation \in Nat /\ call[t].token.expires \in Nat
      BY <2>2 DEF Token
    <2>5. QED
      BY <1>1, <2>1, <2>2, <2>3, <2>4 DEF Event
  <1>6. CASE pc[t] \in {"settle", "close"}
    <2>1. e = Settled(call[t].token.reservation, call[t].outcome)
      BY <1>6 DEF EventOf
    <2>2. call[t].token \in tokens /\ call[t].outcome \in Outcomes
      BY <1>1, <1>6 DEF CallOk
    <2> DEFINE n == call[t].token.reservation
    <2>3. Recorded(n)
      BY <1>1, <2>2
    <2>4. n \in Nat /\ log[n + 1] \in Event /\ log[n + 1].kind = "decided"
      BY <1>1, <2>3 DEF Recorded
    <2>5. log[n + 1].act \in Acts
      BY <2>4 DEF Event
    <2>6. LabelsOf(n, call[t].outcome) \in SUBSET Labels
      BY <2>5, GateAssumption DEF LabelsOf
    <2>7. QED
      BY <1>1, <2>1, <2>2, <2>4, <2>6 DEF Settled, Event
  <1>7. CASE pc[t] = "sweeping"
    <2> DEFINE n == NextExpired(t).reservation
    <2>1. e = Settled(n, "released")
      BY <1>7 DEF EventOf
    <2>2. LabelsOf(n, "released") = {}
      BY DEF LabelsOf
    <2>3. e.kind = "settled" /\ e.reservation = n
      BY <2>1 DEF Settled
    <2>4. Reserved(state, n) # {}
      BY <2>3 DEF Accepts
    <2>5. n \in Nat
      BY <1>1, <2>4 DEF Reserved, WellFormed, LedgerState, Reservation
    <2>6. QED
      BY <1>1, <2>1, <2>2, <2>5 DEF Settled, Event, Outcomes
  <1>8. QED
    BY <1>1, <1>2, <1>3, <1>4, <1>5, <1>6, <1>7 DEF Appending

----------------------------------------------------------------------------
(* The parts of the invariant that speak of the memory and the file.       *)

FileOk ==
  /\ state \in LedgerState /\ durable \in LedgerState
  /\ records \in Nat /\ log \in Seq(Event)
  /\ WellFormed(state) /\ WellFormed(durable)
  /\ WithinCap(state) /\ WithinCap(durable)
  /\ InStep => state = durable /\ records = Len(log)

\* What was recorded stays recorded.
LogGrows == \A n \in Nat : Recorded(n) => Recorded(n)'

\* The state an accepted event leads to keeps the cap: a reservation takes no
\* more than the room its thread was promised, and nothing else adds.
LEMMA StateMoves ==
  ASSUME IInv, NEW t \in Threads, AtAppend(t), Accepts(state, EventOf(t)),
         NEW s, s = Apply(state, EventOf(t))
  PROVE  /\ WellFormed(s)
         /\ s.seq = state.seq + 1
         /\ WithinCap(s)
         /\ pc[t] # "reserve" => \A c \in Counters : Used(s)[c] <= Used(state)[c]
  <1> DEFINE e == EventOf(t)
  <1>1. /\ WellFormed(state) /\ WithinCap(state) /\ CallOk(t)
        /\ pc[t] \in Appending
    BY DEF IInv, BudgetWithinCap, AtAppend
  <1>2. e \in Event
    BY OffersEvent
  <1>3. /\ pc[t] = "reserve" => e.kind = "reserved" /\ e.deltas = Cost[call[t].act]
        /\ pc[t] # "reserve" => e.kind # "reserved"
    BY <1>1, OffersKind
  <1> HIDE DEF e
  <1>4. /\ WellFormed(s)
        /\ s.seq = state.seq + 1
        /\ \A c \in Counters :
             /\ e.kind = "reserved" => Used(s)[c] = Used(state)[c] + e.deltas[c]
             /\ e.kind # "reserved" => Used(s)[c] <= Used(state)[c]
    BY <1>1, <1>2, ApplyWellFormed DEF e
  <1>5. \A c \in Counters :
          Used(s)[c] \in Nat /\ Used(state)[c] \in Nat /\ Cap[c] \in Nat
    BY <1>1, <1>4, UsedType, DecideAssumption DEF Deltas
  <1>6. ASSUME NEW c \in Counters
        PROVE  Used(s)[c] <= Cap[c]
    <2>1. Used(state)[c] <= Cap[c]
      BY <1>1 DEF WithinCap
    <2>2. CASE pc[t] = "reserve"
      <3>1. Used(s)[c] = Used(state)[c] + Cost[call[t].act][c]
        BY <1>3, <1>4, <2>2
      <3>2. \/ Cost[call[t].act][c] = 0
            \/ Used(state)[c] + Cost[call[t].act][c] <= Cap[c]
        BY <1>1, <2>2 DEF CallOk, Room
      <3>3. QED
        BY <1>5, <2>1, <3>1, <3>2
    <2>3. CASE pc[t] # "reserve"
      <3>1. Used(s)[c] <= Used(state)[c]
        BY <1>3, <1>4, <2>3
      <3>2. QED
        BY <1>5, <2>1, <3>1
    <2>4. QED
      BY <2>2, <2>3
  <1>7. QED
    BY <1>3, <1>4, <1>6 DEF WithinCap

\* A line that reaches the file keeps every line before it in place.
LEMMA LogAppend ==
  ASSUME NEW e \in Event, log \in Seq(Event), log' = Append(log, e)
  PROVE  /\ log' \in Seq(Event)
         /\ Len(log') = Len(log) + 1
         /\ LogGrows
         /\ e.kind = "decided" => \A n \in Nat : n = Len(log) => Recorded(n)'
  <1>1. Len(log) \in Nat
    OBVIOUS
  <1>2. /\ log' \in Seq(Event)
        /\ Len(log') = Len(log) + 1
        /\ log'[Len(log) + 1] = e
        /\ \A i \in 1 .. Len(log) : log'[i] = log[i]
    OBVIOUS
  <1>3. ASSUME NEW n \in Nat, Recorded(n)
        PROVE  Recorded(n)'
    <2>1. n + 1 \in 1 .. Len(log) /\ log[n + 1].kind = "decided"
      BY <1>3 DEF Recorded
    <2>2. n + 1 \in 1 .. Len(log') /\ log'[n + 1].kind = "decided"
      BY <1>1, <1>2, <2>1
    <2>3. QED
      BY <2>2 DEF Recorded
  <1>4. ASSUME e.kind = "decided", NEW n \in Nat, n = Len(log)
        PROVE  Recorded(n)'
    <2>1. n + 1 \in 1 .. Len(log') /\ log'[n + 1].kind = "decided"
      BY <1>1, <1>2, <1>4
    <2>2. QED
      BY <2>1 DEF Recorded
  <1>5. QED
    BY <1>2, <1>3, <1>4 DEF LogGrows

\* An append keeps memory and file together.
LEMMA AppendsKeeps ==
  ASSUME IInv, NEW t \in Threads, Appends(t)
  PROVE  /\ FileOk'
         /\ LogGrows
         /\ pc[t] = "submit" => \A n \in Nat : n = records => Recorded(n)'
         /\ pc[t] # "reserve" => \A c \in Counters : Used(state')[c] <= Used(state)[c]
  <1>1. /\ AtAppend(t) /\ Accepts(state, EventOf(t))
        /\ state' = Apply(state, EventOf(t))
        /\ log' = Append(log, EventOf(t))
        /\ records' = records + 1
        /\ durable' = Apply(durable, EventOf(t))
    BY DEF Appends
  <1>2. InStep
    BY <1>1, AcceptedInStep
  <1>3. /\ state = durable /\ records = Len(log)
        /\ records \in Nat /\ log \in Seq(Event)
    BY <1>2 DEF IInv, TypeOK
  <1>4. EventOf(t) \in Event
    BY <1>1, OffersEvent
  <1>5. /\ WellFormed(state') /\ WithinCap(state')
        /\ pc[t] # "reserve" => \A c \in Counters : Used(state')[c] <= Used(state)[c]
    BY <1>1, StateMoves
  <1>6. durable' = state'
    BY <1>1, <1>3
  <1>7. /\ log' \in Seq(Event)
        /\ Len(log') = Len(log) + 1
        /\ LogGrows
        /\ EventOf(t).kind = "decided" => \A n \in Nat : n = Len(log) => Recorded(n)'
    BY <1>1, <1>3, <1>4, LogAppend
  <1>8. FileOk'
    BY <1>1, <1>3, <1>5, <1>6, <1>7 DEF FileOk, WellFormed
  <1>9. pc[t] = "submit" => EventOf(t).kind = "decided"
    BY <1>1, OffersKind DEF AtAppend
  <1>10. QED
    BY <1>3, <1>5, <1>7, <1>8, <1>9 DEF Recorded

\* A write that fails leaves the memory ahead of the records; what it holds
\* still fits under the cap, and so does the file, with the line or without.
LEMMA FailedKeeps ==
  ASSUME IInv, NEW t \in Threads, WriteFails(t)
  PROVE  FileOk' /\ LogGrows
  <1>1. /\ AtAppend(t) /\ Accepts(state, EventOf(t))
        /\ state' = Apply(state, EventOf(t))
        /\ \/ log' = Append(log, EventOf(t)) /\ durable' = Apply(durable, EventOf(t))
           \/ log' = log /\ durable' = durable
        /\ records' = records
    BY DEF WriteFails
  <1>2. InStep
    BY <1>1, AcceptedInStep
  <1>3. /\ state = durable /\ records = Len(log) /\ records = state.seq
        /\ records \in Nat /\ log \in Seq(Event)
        /\ WellFormed(durable) /\ WithinCap(durable)
    BY <1>2 DEF IInv, TypeOK, BudgetWithinCap, InStep
  <1>4. EventOf(t) \in Event
    BY <1>1, OffersEvent
  <1>5. WellFormed(state') /\ WithinCap(state') /\ state'.seq = records + 1
    BY <1>1, <1>3, StateMoves
  <1>6. ~InStep'
    BY <1>1, <1>3, <1>5 DEF InStep
  <1>7. CASE log' = Append(log, EventOf(t)) /\ durable' = Apply(durable, EventOf(t))
    <2>1. durable' = state'
      BY <1>1, <1>3, <1>7
    <2>2. log' \in Seq(Event) /\ LogGrows
      BY <1>3, <1>4, <1>7, LogAppend
    <2>3. QED
      BY <1>1, <1>3, <1>5, <1>6, <2>1, <2>2 DEF FileOk, WellFormed
  <1>8. CASE log' = log /\ durable' = durable
    <2>1. LogGrows
      BY <1>8 DEF LogGrows, Recorded
    <2>2. QED
      BY <1>1, <1>3, <1>5, <1>6, <1>8, <2>1 DEF FileOk, WellFormed
  <1>9. QED
    BY <1>1, <1>7, <1>8

\* A step that leaves memory and file alone.
LEMMA QuietKeeps ==
  ASSUME IInv, UNCHANGED <<state, records, log, durable>>
  PROVE  FileOk' /\ LogGrows
  <1>1. FileOk
    BY DEF IInv, TypeOK, BudgetWithinCap, FileOk
  <1>2. FileOk'
    BY <1>1 DEF FileOk, InStep
  <1>3. QED
    BY <1>2 DEF LogGrows, Recorded

----------------------------------------------------------------------------
(* The parts that speak of the calls.                                      *)

RestTyped ==
  /\ lock \in Threads \cup {Free}
  /\ pc \in [Threads -> PCs] /\ call \in [Threads -> Call]
  /\ now \in Nat /\ calls \in Nat /\ faults \in Nat
  /\ tokens \subseteq Token
  /\ ran \subseteq [token : Token, ok : BOOLEAN]
  /\ returned \subseteq Nat

\* Thread t moves from its place to another, with these locals.
Moves(t) ==
  \A u \in Threads \ {t} : pc'[u] = pc[u] /\ call'[u] = call[u]

\* A call between its ALLOW and its reservation holds the lock, so a step of
\* another thread leaves it what it relies on: either it needs the lock too,
\* or it touches neither lock nor memory.
LEMMA OthersKeep ==
  ASSUME IInv, NEW t \in Threads, NEW u \in Threads \ {t}, Moves(t), LogGrows,
         tokens \subseteq tokens',
         MayLock(t) \/ (state' = state /\ lock' = lock)
  PROVE  CallOk(u)'
  <1>1. CallOk(u) /\ pc'[u] = pc[u] /\ call'[u] = call[u]
    BY DEF IInv, Moves
  <1>2. ASSUME pc[u] \in {"consume", "reserve"}
        PROVE  /\ lock' = u
               /\ call[u].token \in Token
               /\ Recorded(call[u].token.reservation)'
               /\ Room(call[u].act)'
    <2>1. /\ lock = u
          /\ call[u].token \in Token
          /\ Recorded(call[u].token.reservation)
          /\ Room(call[u].act)
      BY <1>1, <1>2 DEF CallOk
    <2>2. state' = state /\ lock' = lock
      BY <2>1, GateAssumption DEF MayLock
    <2>3. Recorded(call[u].token.reservation)'
      <3>1. ASSUME NEW n \in Nat, n = call[u].token.reservation
            PROVE  Recorded(n)'
        BY <2>1, <3>1 DEF LogGrows
      <3>2. call[u].token.reservation \in Nat
        BY <2>1 DEF Recorded
      <3>3. QED
        BY <1>1, <3>1, <3>2 DEF Recorded
    <2>4. Room(call[u].act)'
      BY <1>1, <2>1, <2>2 DEF Room
    <2>5. QED
      BY <1>1, <2>1, <2>2, <2>3, <2>4
  <1>3. QED
    BY <1>1, <1>2 DEF CallOk

\* What one step must show for the invariant to survive it.
LEMMA StepKeeps ==
  ASSUME IInv, NEW t \in Threads, Moves(t), FileOk', LogGrows, RestTyped',
         tokens \subseteq tokens',
         \A token \in tokens' \ tokens : Recorded(token.reservation)',
         MayLock(t) \/ (state' = state /\ lock' = lock),
         CallOk(t)'
  PROVE  IInv'
  <1>1. TypeOK'
    BY DEF FileOk, RestTyped, TypeOK
  <1>2. WellFormed(state)' /\ WellFormed(durable)' /\ BudgetWithinCap'
    BY DEF FileOk, BudgetWithinCap
  <1>3. (InStep => state = durable /\ records = Len(log))'
    BY DEF FileOk
  <1>4. ASSUME NEW token \in tokens'
        PROVE  Recorded(token.reservation)'
    <2>1. CASE token \in tokens
      <3>1. Recorded(token.reservation)
        BY <2>1 DEF IInv
      <3>2. QED
        BY <3>1 DEF LogGrows, Recorded
    <2>2. CASE token \notin tokens
      BY <2>2
    <2>3. QED
      BY <2>1, <2>2
  <1>5. \A u \in Threads : CallOk(u)'
    BY OthersKeep
  <1>6. QED
    BY <1>1, <1>2, <1>3, <1>4, <1>5 DEF IInv

\* A call that ends relies on nothing.
LEMMA ReturnEnds ==
  ASSUME IInv, NEW t \in Threads, Return(t)
  PROVE  /\ Moves(t)
         /\ CallOk(t)'
         /\ lock' \in Threads \cup {Free}
         /\ pc' \in [Threads -> PCs] /\ call' \in [Threads -> Call]
  <1>1. /\ pc' = [pc EXCEPT ![t] = "idle"]
        /\ call' = [call EXCEPT ![t] = NoCall]
        /\ lock' = IF lock = t THEN Free ELSE lock
    BY DEF Return, Goto
  <1>2. /\ pc \in [Threads -> PCs] /\ call \in [Threads -> Call]
        /\ lock \in Threads \cup {Free}
    BY DEF IInv, TypeOK
  <1>3. NoCall \in Call
    BY DEF NoCall, Call
  <1>4. pc'[t] = "idle"
    BY <1>1, <1>2
  <1>5. QED
    BY <1>1, <1>2, <1>3, <1>4 DEF Moves, CallOk, PCs

\* A call that moves to another place with new locals.
LEMMA Advances ==
  ASSUME IInv, NEW t \in Threads, NEW place \in PCs, NEW locals \in Call,
         Goto(t, place), call' = [call EXCEPT ![t] = locals]
  PROVE  /\ Moves(t)
         /\ pc' \in [Threads -> PCs] /\ call' \in [Threads -> Call]
         /\ pc'[t] = place /\ call'[t] = locals
  BY DEF IInv, TypeOK, Goto, Moves

----------------------------------------------------------------------------
(* One step per action.                                                    *)

\* A new call, of whatever kind.
LEMMA CallsKeep ==
  ASSUME IInv, NEW t \in Threads, Calls(t)
  PROVE  IInv'
  <1>1. ASSUME NEW place \in PCs, NEW locals \in Call, Begin(t, place, locals),
               place \notin {"consume", "reserve"},
               place = "open" => locals.act \in Acts /\ locals.who \in Principals,
               place \notin {"opening", "submit", "approve", "run", "settle"},
               place \in {"redeem", "close"} => locals.token \in tokens,
               place = "close" => locals.outcome \in Outcomes
        PROVE  IInv'
    <2>1. /\ Goto(t, place) /\ call' = [call EXCEPT ![t] = locals]
          /\ calls' = calls + 1
          /\ UNCHANGED <<state, records, log, durable>>
          /\ UNCHANGED <<lock, now, tokens, ran, returned, faults>>
      BY <1>1 DEF Begin
    <2>2. FileOk' /\ LogGrows
      BY <2>1, QuietKeeps
    <2>3. /\ Moves(t)
          /\ pc' \in [Threads -> PCs] /\ call' \in [Threads -> Call]
          /\ pc'[t] = place /\ call'[t] = locals
      BY <2>1, Advances
    <2>4. RestTyped'
      BY <2>1, <2>3 DEF IInv, TypeOK, RestTyped
    <2>5. CallOk(t)'
      BY <1>1, <2>1, <2>3 DEF CallOk
    <2>6. QED
      BY <2>1, <2>2, <2>3, <2>4, <2>5, StepKeeps
  <1>2. \A token \in tokens : token \in Token
    BY DEF IInv, TypeOK
  <1>3. now \in Nat
    BY DEF IInv, TypeOK
  <1>4. ASSUME NEW a \in Acts, NEW facts \in Facts, NEW who \in Principals,
               Submit(t, a, facts, who)
        PROVE  IInv'
    <2> DEFINE locals == [NoCall EXCEPT !.act = a, !.facts = facts, !.who = who]
    <2>1. locals \in Call /\ locals.act = a /\ locals.who = who
      BY DEF NoCall, Call
    <2>2. Begin(t, "open", locals)
      BY <1>4 DEF Submit
    <2> HIDE DEF locals
    <2>3. QED
      BY <1>1, <2>1, <2>2 DEF PCs
  <1>5. ASSUME NEW a \in Acts, NEW who \in Principals, Approve(t, a, who)
        PROVE  IInv'
    <2> DEFINE locals == [NoCall EXCEPT !.act = a, !.who = who]
    <2>1. locals \in Call /\ locals.act = a /\ locals.who = who
      BY DEF NoCall, Call
    <2>2. Begin(t, "open", locals)
      BY <1>5 DEF Approve
    <2> HIDE DEF locals
    <2>3. QED
      BY <1>1, <2>1, <2>2 DEF PCs
  <1>6. ASSUME NEW token \in tokens, Execute(t, token)
        PROVE  IInv'
    <2> DEFINE locals == [NoCall EXCEPT !.token = token]
    <2>1. locals \in Call /\ locals.token = token
      BY <1>2 DEF NoCall, Call
    <2>2. Begin(t, "redeem", locals)
      BY <1>6 DEF Execute
    <2> HIDE DEF locals
    <2>3. QED
      BY <1>1, <2>1, <2>2 DEF PCs
  <1>7. ASSUME NEW token \in tokens, NEW outcome \in Outcomes,
               Settle(t, token, outcome)
        PROVE  IInv'
    <2> DEFINE locals == [NoCall EXCEPT !.token = token, !.outcome = outcome]
    <2>1. locals \in Call /\ locals.token = token /\ locals.outcome = outcome
      BY <1>2 DEF NoCall, Call
    <2>2. Begin(t, "close", locals)
      BY <1>7 DEF Settle
    <2> HIDE DEF locals
    <2>3. QED
      BY <1>1, <2>1, <2>2 DEF PCs
  <1>8. ASSUME Sweep(t)
        PROVE  IInv'
    <2> DEFINE locals == [NoCall EXCEPT !.at = now]
    <2>1. locals \in Call
      BY <1>3 DEF NoCall, Call
    <2>2. Begin(t, "sweep", locals)
      BY <1>8 DEF Sweep
    <2> HIDE DEF locals
    <2>3. QED
      BY <1>1, <2>1, <2>2 DEF PCs
  <1>9. QED
    BY <1>4, <1>5, <1>6, <1>7, <1>8 DEF Calls

\* Steps that write nothing.
LEMMA QuietStepsKeep ==
  ASSUME IInv, NEW t \in Threads,
         \/ Open(t) \/ RedeemRefused(t) \/ Redeem(t)
         \/ \E ok \in BOOLEAN : Run(t, ok)
         \/ SweepLocks(t) \/ SweepEnds(t) \/ AppendRefused(t)
  PROVE  IInv'
  <1>1. CallOk(t) /\ TypeOK
    BY DEF IInv
  <1>2. FileOk' /\ LogGrows
    BY QuietKeeps DEF Open, RedeemRefused, Redeem, Run, SweepLocks, SweepEnds,
                      AppendRefused
  <1>3. tokens' = tokens /\ state' = state
    BY DEF Open, RedeemRefused, Redeem, Run, SweepLocks, SweepEnds, AppendRefused
  <1>4. ASSUME Moves(t), RestTyped', CallOk(t)', MayLock(t) \/ lock' = lock
        PROVE  IInv'
    BY <1>2, <1>3, <1>4, StepKeeps
  <1>5. CASE Open(t)
    <2> DEFINE place == IF state.principal = Nobody THEN "opening" ELSE AfterOpen(t)
    <2>1. /\ pc[t] = "open" /\ MayLock(t) /\ Goto(t, place)
          /\ UNCHANGED <<lock, call, now, tokens, ran, returned, calls, faults>>
      BY <1>5 DEF Open
    <2>2. place \in {"opening", "submit", "approve"}
      BY DEF AfterOpen
    <2>3. place = "submit" => call[t].facts # None
      BY DEF AfterOpen
    <2> HIDE DEF place
    <2>4. place \in PCs /\ call[t] \in Call /\ call' = [call EXCEPT ![t] = call[t]]
      BY <1>1, <2>1, <2>2 DEF PCs, TypeOK
    <2>5. /\ Moves(t)
          /\ pc' \in [Threads -> PCs] /\ call' \in [Threads -> Call]
          /\ pc'[t] = place /\ call'[t] = call[t]
      BY <2>1, <2>4, Advances
    <2>6. RestTyped'
      BY <1>1, <2>1, <2>5 DEF TypeOK, RestTyped
    <2>7. call[t].facts \in Facts \cup {None}
      BY <2>4 DEF Call
    <2>8. CallOk(t)'
      BY <1>1, <2>1, <2>2, <2>3, <2>5, <2>7 DEF CallOk
    <2>9. QED
      BY <1>4, <2>1, <2>5, <2>6, <2>8
  <1>6. CASE RedeemRefused(t) \/ SweepEnds(t) \/ AppendRefused(t)
    <2>1. /\ Return(t)
          /\ UNCHANGED <<now, tokens, ran, returned, calls, faults>>
      BY <1>6 DEF RedeemRefused, SweepEnds, AppendRefused
    <2>2. /\ Moves(t) /\ CallOk(t)'
          /\ lock' \in Threads \cup {Free}
          /\ pc' \in [Threads -> PCs] /\ call' \in [Threads -> Call]
      BY <2>1, ReturnEnds
    <2>3. RestTyped'
      BY <1>1, <2>1, <2>2 DEF TypeOK, RestTyped
    <2>4. MayLock(t) \/ lock' = lock
      BY <2>1 DEF Return, MayLock
    <2>5. QED
      BY <1>4, <2>2, <2>3, <2>4
  <1>7. CASE Redeem(t)
    <2>1. /\ pc[t] = "redeem" /\ Goto(t, "run")
          /\ UNCHANGED <<lock, call, now, tokens, ran, returned, calls, faults>>
      BY <1>7 DEF Redeem
    <2>2. call[t] \in Call /\ call' = [call EXCEPT ![t] = call[t]]
      BY <1>1, <2>1 DEF TypeOK
    <2>3. /\ Moves(t)
          /\ pc' \in [Threads -> PCs] /\ call' \in [Threads -> Call]
          /\ pc'[t] = "run" /\ call'[t] = call[t]
      BY <2>1, <2>2, Advances DEF PCs
    <2>4. RestTyped'
      BY <1>1, <2>1, <2>3 DEF TypeOK, RestTyped
    <2>5. CallOk(t)'
      BY <1>1, <2>1, <2>3 DEF CallOk
    <2>6. QED
      BY <1>4, <2>1, <2>3, <2>4, <2>5
  <1>8. ASSUME NEW ok \in BOOLEAN, Run(t, ok)
        PROVE  IInv'
    <2> DEFINE outcome == IF ok THEN "committed" ELSE "released"
               locals == [call[t] EXCEPT !.outcome = outcome]
    <2>1. /\ pc[t] = "run" /\ Goto(t, "settle")
          /\ call' = [call EXCEPT ![t].outcome = outcome]
          /\ ran' = ran \cup {[token |-> call[t].token, ok |-> ok]}
          /\ UNCHANGED <<lock, now, tokens, returned, calls, faults>>
      BY <1>8 DEF Run
    <2>2. call[t] \in Call /\ outcome \in Outcomes
      BY <1>1 DEF TypeOK, Outcomes
    <2>3. call' = [call EXCEPT ![t] = locals]
      BY <1>1, <2>1 DEF TypeOK
    <2>4. locals \in Call /\ locals.token = call[t].token /\ locals.outcome = outcome
      BY <2>2 DEF Call
    <2> HIDE DEF locals, outcome
    <2>5. /\ Moves(t)
          /\ pc' \in [Threads -> PCs] /\ call' \in [Threads -> Call]
          /\ pc'[t] = "settle" /\ call'[t] = locals
      BY <2>1, <2>3, <2>4, Advances DEF PCs
    <2>6. call[t].token \in tokens
      BY <1>1, <2>1 DEF CallOk
    <2>7. RestTyped'
      BY <1>1, <2>1, <2>5, <2>6 DEF TypeOK, RestTyped
    <2>8. CallOk(t)'
      BY <2>1, <2>2, <2>4, <2>5, <2>6 DEF CallOk
    <2>9. QED
      BY <1>4, <2>1, <2>5, <2>7, <2>8
  <1>9. CASE SweepLocks(t)
    <2>1. /\ lock = Free /\ lock' = t /\ Goto(t, "sweeping")
          /\ UNCHANGED <<call, now, tokens, ran, returned, calls, faults>>
      BY <1>9 DEF SweepLocks
    <2>2. call[t] \in Call /\ call' = [call EXCEPT ![t] = call[t]]
      BY <1>1, <2>1 DEF TypeOK
    <2>3. /\ Moves(t)
          /\ pc' \in [Threads -> PCs] /\ call' \in [Threads -> Call]
          /\ pc'[t] = "sweeping"
      BY <2>1, <2>2, Advances DEF PCs
    <2>4. RestTyped'
      BY <1>1, <2>1, <2>3 DEF TypeOK, RestTyped
    <2>5. CallOk(t)' /\ MayLock(t)
      BY <2>1, <2>3 DEF CallOk, MayLock
    <2>6. QED
      BY <1>4, <2>3, <2>4, <2>5
  <1>10. QED
    BY <1>5, <1>6, <1>7, <1>8, <1>9

\* Room is there after an event that adds nothing if it was there before.
LEMMA RoomStays ==
  ASSUME IInv, FileOk', NEW a \in Acts, Room(a),
         \A c \in Counters : Used(state')[c] <= Used(state)[c]
  PROVE  Room(a)'
  <1>1. WellFormed(state) /\ WellFormed(state')
    BY DEF IInv, FileOk
  <1>2. \A c \in Counters : /\ Used(state)[c] \in Nat /\ Used(state')[c] \in Nat
                            /\ Cost[a][c] \in Nat /\ Cap[c] \in Nat
    BY <1>1, UsedType, CostAssumption, DecideAssumption DEF Deltas
  <1>3. ASSUME NEW c \in Counters
        PROVE  Cost[a][c] = 0 \/ Used(state')[c] + Cost[a][c] <= Cap[c]
    <2>1. Cost[a][c] = 0 \/ Used(state)[c] + Cost[a][c] <= Cap[c]
      BY DEF Room
    <2>2. QED
      BY <1>2, <2>1
  <1>4. QED
    BY <1>3 DEF Room

\* The steps of submit's critical section.
LEMMA SubmitKeeps ==
  ASSUME IInv, NEW t \in Threads,
         SubmitDecides(t) \/ SubmitConsumes(t) \/ SubmitReserves(t)
  PROVE  IInv'
  <1>1. CallOk(t) /\ TypeOK /\ WellFormed(state)
    BY DEF IInv
  <1>2. Appends(t) /\ MayLock(t)
    BY DEF SubmitDecides, SubmitConsumes, SubmitReserves, Appends, AtAppend
  <1>3. /\ FileOk' /\ LogGrows
        /\ pc[t] = "submit" => \A n \in Nat : n = records => Recorded(n)'
        /\ pc[t] # "reserve" => \A c \in Counters : Used(state')[c] <= Used(state)[c]
    BY <1>2, AppendsKeeps
  <1>4. CASE SubmitDecides(t) /\ Decision(t) # "ALLOW"
    <2>1. Return(t) /\ UNCHANGED <<now, tokens, ran, returned, calls, faults>>
      BY <1>4 DEF SubmitDecides
    <2>2. /\ Moves(t) /\ CallOk(t)' /\ lock' \in Threads \cup {Free}
          /\ pc' \in [Threads -> PCs] /\ call' \in [Threads -> Call]
      BY <2>1, ReturnEnds
    <2>3. RestTyped'
      BY <1>1, <2>1, <2>2 DEF TypeOK, RestTyped
    <2>4. QED
      BY <1>2, <1>3, <2>1, <2>2, <2>3, StepKeeps
  <1>5. CASE SubmitDecides(t) /\ Decision(t) = "ALLOW"
    <2> DEFINE token == [act |-> call[t].act, expires |-> now + Ttl,
                         reservation |-> records]
               locals == [call[t] EXCEPT !.token = token]
               place == AfterAllow(t)
    <2>1. /\ pc[t] = "submit" /\ lock' = t /\ Goto(t, place)
          /\ call' = [call EXCEPT ![t].token = token]
          /\ UNCHANGED <<now, tokens, ran, returned, calls, faults>>
      BY <1>5 DEF SubmitDecides
    <2>2. call[t] \in Call /\ call[t].act \in Acts /\ call[t].facts \in Facts
      BY <1>1, <2>1 DEF TypeOK, CallOk
    <2>3. token \in Token /\ token.reservation = records /\ records \in Nat
      BY <1>1, <2>2, GateAssumption DEF TypeOK, Token
    <2>4. place \in {"consume", "reserve"} /\ place \in PCs
      BY DEF AfterAllow, PCs
    <2>5. call' = [call EXCEPT ![t] = locals]
      BY <1>1, <2>1 DEF TypeOK
    <2>6. locals \in Call /\ locals.act = call[t].act /\ locals.token = token
      BY <2>2, <2>3 DEF Call
    <2>7. Room(call[t].act)
      BY <1>1, <1>5, <2>2, AllowLeavesRoom DEF Decision, Room
    <2> HIDE DEF token, locals, place
    <2>8. /\ Moves(t)
          /\ pc' \in [Threads -> PCs] /\ call' \in [Threads -> Call]
          /\ pc'[t] = place /\ call'[t] = locals
      BY <2>1, <2>4, <2>5, <2>6, Advances
    <2>9. RestTyped'
      BY <1>1, <2>1, <2>8 DEF TypeOK, RestTyped
    <2>10. \A a \in Acts : a = call[t].act => Room(a)'
      BY <1>3, <2>1, <2>7, RoomStays
    <2>11. \A n \in Nat : n = records => Recorded(n)'
      BY <1>3, <2>1
    <2>12. Room(call[t].act)'
      BY <2>2, <2>6, <2>8, <2>10 DEF Room
    <2>13. Recorded(call[t].token.reservation)'
      BY <2>3, <2>6, <2>8, <2>11 DEF Recorded
    <2>14. CallOk(t)'
      BY <2>1, <2>2, <2>3, <2>4, <2>6, <2>8, <2>12, <2>13 DEF CallOk
    <2>15. QED
      BY <1>2, <1>3, <2>1, <2>8, <2>9, <2>14, StepKeeps
  <1>6. CASE SubmitConsumes(t)
    <2>1. /\ pc[t] = "consume" /\ Goto(t, "reserve")
          /\ UNCHANGED <<lock, call, now, tokens, ran, returned, calls, faults>>
      BY <1>6 DEF SubmitConsumes
    <2>2. /\ lock = t /\ call[t].act \in Acts /\ call[t].token \in Token
          /\ Recorded(call[t].token.reservation) /\ Room(call[t].act)
      BY <1>1, <2>1 DEF CallOk
    <2>3. call[t] \in Call /\ call' = [call EXCEPT ![t] = call[t]]
      BY <1>1, <2>1 DEF TypeOK
    <2>4. /\ Moves(t)
          /\ pc' \in [Threads -> PCs] /\ call' \in [Threads -> Call]
          /\ pc'[t] = "reserve" /\ call'[t] = call[t]
      BY <2>1, <2>3, Advances DEF PCs
    <2>5. RestTyped'
      BY <1>1, <2>1, <2>4 DEF TypeOK, RestTyped
    <2>6. \A a \in Acts : a = call[t].act => Room(a)'
      BY <1>3, <2>1, <2>2, RoomStays
    <2>7. \A n \in Nat : Recorded(n) => Recorded(n)'
      BY <1>3 DEF LogGrows
    <2>8. call[t].token.reservation \in Nat
      BY <2>2 DEF Recorded
    <2>9. \A n \in Nat : n = call[t].token.reservation => Recorded(n)'
      BY <2>2, <2>7
    <2>10. Room(call[t].act)'
      BY <2>1, <2>2, <2>6 DEF Room
    <2>11. Recorded(call[t].token.reservation)'
      BY <2>1, <2>8, <2>9 DEF Recorded
    <2>12. CallOk(t)'
      BY <2>1, <2>2, <2>4, <2>10, <2>11 DEF CallOk
    <2>13. QED
      BY <1>2, <1>3, <2>1, <2>4, <2>5, <2>12, StepKeeps
  <1>7. CASE SubmitReserves(t)
    <2>1. /\ pc[t] = "reserve" /\ Return(t)
          /\ tokens' = tokens \cup {call[t].token}
          /\ UNCHANGED <<now, ran, returned, calls, faults>>
      BY <1>7 DEF SubmitReserves
    <2>2. call[t].token \in Token /\ Recorded(call[t].token.reservation)
      BY <1>1, <2>1 DEF CallOk
    <2>3. /\ Moves(t) /\ CallOk(t)' /\ lock' \in Threads \cup {Free}
          /\ pc' \in [Threads -> PCs] /\ call' \in [Threads -> Call]
      BY <2>1, ReturnEnds
    <2>4. RestTyped'
      BY <1>1, <2>1, <2>2, <2>3 DEF TypeOK, RestTyped
    <2>5. ASSUME NEW token \in tokens' \ tokens
          PROVE  Recorded(token.reservation)'
      <3>1. Recorded(token.reservation)
        BY <2>1, <2>2
      <3>2. QED
        BY <1>3, <3>1 DEF LogGrows, Recorded
    <2>6. QED
      BY <1>2, <1>3, <2>1, <2>3, <2>4, <2>5, StepKeeps
  <1>8. QED
    BY <1>4, <1>5, <1>6, <1>7

\* The other steps that append.
LEMMA WritesKeep ==
  ASSUME IInv, NEW t \in Threads,
         \/ AppendOpened(t) \/ AppendGranted(t) \/ ExecuteSettles(t)
         \/ SettleCloses(t) \/ SweepReleases(t)
  PROVE  IInv'
  <1>1. CallOk(t) /\ TypeOK
    BY DEF IInv
  <1>2. Appends(t) /\ MayLock(t)
    BY DEF AppendOpened, AppendGranted, ExecuteSettles, SettleCloses,
           SweepReleases, Appends, AtAppend
  <1>3. FileOk' /\ LogGrows
    BY <1>2, AppendsKeeps
  <1>4. tokens' = tokens
    BY DEF AppendOpened, AppendGranted, ExecuteSettles, SettleCloses, SweepReleases
  <1>5. ASSUME Moves(t), RestTyped', CallOk(t)'
        PROVE  IInv'
    BY <1>2, <1>3, <1>4, <1>5, StepKeeps
  <1>6. CASE AppendOpened(t)
    <2> DEFINE place == AfterOpen(t)
    <2>1. /\ pc[t] = "opening" /\ Goto(t, place)
          /\ UNCHANGED <<lock, call, now, tokens, ran, returned, calls, faults>>
      BY <1>6 DEF AppendOpened
    <2>2. /\ place \in {"submit", "approve"} /\ place \in PCs
          /\ place = "submit" => call[t].facts # None
      BY DEF AfterOpen, PCs
    <2> HIDE DEF place
    <2>3. call[t] \in Call /\ call' = [call EXCEPT ![t] = call[t]]
      BY <1>1, <2>1 DEF TypeOK
    <2>4. /\ Moves(t)
          /\ pc' \in [Threads -> PCs] /\ call' \in [Threads -> Call]
          /\ pc'[t] = place /\ call'[t] = call[t]
      BY <2>1, <2>2, <2>3, Advances
    <2>5. RestTyped'
      BY <1>1, <2>1, <2>4 DEF TypeOK, RestTyped
    <2>6. call[t].facts \in Facts \cup {None}
      BY <2>3 DEF Call
    <2>7. CallOk(t)'
      BY <1>1, <2>1, <2>2, <2>4, <2>6 DEF CallOk
    <2>8. QED
      BY <1>5, <2>4, <2>5, <2>7
  <1>7. CASE AppendGranted(t) \/ ExecuteSettles(t) \/ SettleCloses(t)
    <2>1. Return(t) /\ UNCHANGED <<now, tokens, ran, calls, faults>>
      BY <1>7 DEF AppendGranted, ExecuteSettles, SettleCloses
    <2>2. /\ Moves(t) /\ CallOk(t)' /\ lock' \in Threads \cup {Free}
          /\ pc' \in [Threads -> PCs] /\ call' \in [Threads -> Call]
      BY <2>1, ReturnEnds
    <2>3. returned' \subseteq Nat
      <3>1. CASE AppendGranted(t) \/ SettleCloses(t)
        BY <1>1, <3>1 DEF AppendGranted, SettleCloses, TypeOK
      <3>2. CASE ExecuteSettles(t)
        <4>1. pc[t] = "settle" /\ returned' \subseteq returned \cup {call[t].token.reservation}
          BY <3>2 DEF ExecuteSettles
        <4>2. call[t].token \in Token
          BY <1>1, <4>1 DEF CallOk, TypeOK
        <4>3. QED
          BY <1>1, <4>1, <4>2 DEF Token, TypeOK
      <3>3. QED
        BY <1>7, <3>1, <3>2
    <2>4. RestTyped'
      BY <1>1, <2>1, <2>2, <2>3 DEF TypeOK, RestTyped
    <2>5. QED
      BY <1>5, <2>2, <2>4
  <1>8. CASE SweepReleases(t)
    <2>1. /\ pc[t] = "sweeping"
          /\ UNCHANGED <<lock, pc, call, now, tokens, ran, returned, calls, faults>>
      BY <1>8 DEF SweepReleases
    <2>2. Moves(t) /\ RestTyped' /\ CallOk(t)'
      BY <1>1, <2>1 DEF Moves, TypeOK, RestTyped, CallOk
    <2>3. QED
      BY <1>5, <2>2
  <1>9. QED
    BY <1>6, <1>7, <1>8

\* A failing write ends its call.
LEMMA WriteFailsKeeps ==
  ASSUME IInv, NEW t \in Threads, WriteFails(t)
  PROVE  IInv'
  <1>1. /\ Return(t) /\ faults' = faults + 1
        /\ UNCHANGED <<records, now, tokens, ran, returned, calls>>
        /\ MayLock(t)
    BY DEF WriteFails, AtAppend
  <1>2. FileOk' /\ LogGrows
    BY FailedKeeps
  <1>3. /\ Moves(t) /\ CallOk(t)' /\ lock' \in Threads \cup {Free}
        /\ pc' \in [Threads -> PCs] /\ call' \in [Threads -> Call]
    BY <1>1, ReturnEnds
  <1>4. RestTyped'
    BY <1>1, <1>3 DEF IInv, TypeOK, RestTyped
  <1>5. QED
    BY <1>1, <1>2, <1>3, <1>4, StepKeeps

\* After a crash the memory is what the file folds to, and no call relies on
\* anything.
LEMMA CrashKeeps ==
  ASSUME IInv, Crash
  PROVE  IInv'
  <1>1. /\ state' = durable /\ records' = Len(log) /\ lock' = Free
        /\ pc' = [t \in Threads |-> "idle"] /\ call' = [t \in Threads |-> NoCall]
        /\ faults' = faults + 1
        /\ UNCHANGED <<log, durable, now, tokens, ran, returned, calls>>
    BY DEF Crash
  <1>2. TypeOK /\ WellFormed(durable) /\ WithinCap(durable)
    BY DEF IInv, BudgetWithinCap
  <1>3. NoCall \in Call
    BY DEF NoCall, Call
  <1>4. TypeOK'
    BY <1>1, <1>2, <1>3 DEF TypeOK, PCs
  <1>5. /\ (WellFormed(state) /\ WellFormed(durable))'
        /\ BudgetWithinCap'
        /\ (InStep => state = durable /\ records = Len(log))'
    BY <1>1, <1>2 DEF BudgetWithinCap
  <1>6. \A token \in tokens' : Recorded(token.reservation)'
    BY <1>1 DEF IInv, Recorded
  <1>7. \A t \in Threads : CallOk(t)'
    BY <1>1 DEF CallOk
  <1>8. QED
    BY <1>4, <1>5, <1>6, <1>7 DEF IInv

\* Time passing, and stuttering, change nothing the invariant reads but the
\* clock.
LEMMA TickKeeps ==
  ASSUME IInv, Tick \/ UNCHANGED vars
  PROVE  IInv'
  <1>1. /\ now' \in Nat
        /\ UNCHANGED <<state, records, log, durable, lock, pc, call, tokens, ran,
                       returned, calls, faults>>
    BY DEF Tick, vars, IInv, TypeOK
  <1>2. TypeOK'
    BY <1>1 DEF IInv, TypeOK
  <1>3. /\ (WellFormed(state) /\ WellFormed(durable))'
        /\ BudgetWithinCap'
        /\ (InStep => state = durable /\ records = Len(log))'
    BY <1>1 DEF IInv, BudgetWithinCap, InStep
  <1>4. \A token \in tokens' : Recorded(token.reservation)'
    BY <1>1 DEF IInv, Recorded
  <1>5. \A t \in Threads : CallOk(t)'
    BY <1>1 DEF IInv, CallOk, Recorded, Room
  <1>6. QED
    BY <1>2, <1>3, <1>4, <1>5 DEF IInv

----------------------------------------------------------------------------
(* The theorems.                                                           *)

\* A new session satisfies the invariant.
LEMMA InitOk == Init => IInv
  <1> SUFFICES ASSUME Init PROVE IInv
    OBVIOUS
  <1>1. /\ state = InitialState /\ durable = InitialState /\ records = 0
        /\ log = <<>> /\ lock = Free /\ tokens = {} /\ ran = {} /\ returned = {}
        /\ now = 0 /\ calls = 0 /\ faults = 0
        /\ pc = [t \in Threads |-> "idle"] /\ call = [t \in Threads |-> NoCall]
    BY DEF Init
  <1>2. InitialState \in LedgerState
    BY InitialWellFormed
  <1>3. /\ InitialState.reserved = {}
        /\ InitialState.committed = [c \in Counters |-> 0]
        /\ InitialState.seq = 0
    BY InitialWellFormed
  <1>4. WellFormed(InitialState)
    BY InitialWellFormed
  <1>5. WithinCap(InitialState)
    <2>1. \A c \in Counters : Used(InitialState)[c] = 0
      BY <1>3, HeldNothing DEF Used
    <2>2. \A c \in Counters : Cap[c] \in Nat
      BY DecideAssumption
    <2>3. QED
      BY <2>1, <2>2 DEF WithinCap
  <1>6. NoCall \in Call
    BY DEF NoCall, Call
  <1>7. TypeOK
    BY <1>1, <1>2, <1>6 DEF TypeOK, PCs
  <1>8. \A t \in Threads : CallOk(t)
    BY <1>1 DEF CallOk
  <1>9. QED
    BY <1>1, <1>4, <1>5, <1>7, <1>8 DEF IInv, BudgetWithinCap

\* Every step keeps it.
LEMMA Inductive == IInv /\ [Next]_vars => IInv'
  <1> SUFFICES ASSUME IInv, [Next]_vars PROVE IInv'
    OBVIOUS
  <1>1. ASSUME NEW t \in Threads, Calls(t) PROVE IInv'
    BY <1>1, CallsKeep
  <1>2. ASSUME NEW t \in Threads, Steps(t) PROVE IInv'
    <2>1. CASE SubmitDecides(t) \/ SubmitConsumes(t) \/ SubmitReserves(t)
      BY <2>1, SubmitKeeps
    <2>2. CASE \/ AppendOpened(t) \/ AppendGranted(t) \/ ExecuteSettles(t)
               \/ SettleCloses(t) \/ SweepReleases(t)
      BY <2>2, WritesKeep
    <2>3. CASE \/ Open(t) \/ RedeemRefused(t) \/ Redeem(t)
               \/ \E ok \in BOOLEAN : Run(t, ok)
               \/ SweepLocks(t) \/ SweepEnds(t) \/ AppendRefused(t)
      BY <2>3, QuietStepsKeep
    <2>4. QED
      BY <1>2, <2>1, <2>2, <2>3 DEF Steps
  <1>3. ASSUME NEW t \in Threads, WriteFails(t) PROVE IInv'
    BY <1>3, WriteFailsKeeps
  <1>4. CASE Crash
    BY <1>4, CrashKeeps
  <1>5. CASE Tick \/ UNCHANGED vars
    BY <1>5, TickKeeps
  <1>6. QED
    BY <1>1, <1>2, <1>3, <1>4, <1>5 DEF Next

\* The invariant holds throughout (the gate of shell/gate.py).
THEOREM Invariance == Spec => []IInv
  <1>1. QED
    BY InitOk, Inductive, PTL DEF Spec

\* State, log, tokens and every call's locals keep their types (the Session,
\* EventLog and TokenPayload of shell/).
THEOREM TypeCorrect == Spec => []TypeOK
  <1>1. IInv => TypeOK
    BY DEF IInv
  <1>2. QED
    BY <1>1, Invariance, PTL

\* Committed and reserved spend stays within the policy's cap, in memory and
\* on disk, for any number of concurrent submits, settles and sweeps, failing
\* writes and crashes (gate.py's submit).
THEOREM BudgetSafe == Spec => []BudgetWithinCap
  <1>1. IInv => BudgetWithinCap
    BY DEF IInv
  <1>2. QED
    BY <1>1, Invariance, PTL

\* A process whose write failed adds nothing to the file (session.py's append
\* moves the state before it writes).
THEOREM FailureIsFinal == Spec => NoWriteAfterFailure
  <1>1. [Next]_vars => [InStep \/ log' = log]_vars
    <2> SUFFICES ASSUME Next, log' # log PROVE InStep
      BY DEF vars
    <2>1. PICK t \in Threads : Calls(t) \/ Steps(t) \/ WriteFails(t)
      BY DEF Next, Crash, Tick
    <2>2. CASE Calls(t)
      BY <2>2 DEF Calls, Submit, Approve, Execute, Settle, Sweep, Begin
    <2>3. CASE WriteFails(t)
      BY <2>3, AcceptedInStep DEF WriteFails
    <2>4. CASE Steps(t)
      <3>1. Appends(t)
        BY <2>4 DEF Steps, Open, AppendOpened, SubmitDecides, SubmitConsumes,
                    SubmitReserves, AppendGranted, RedeemRefused, Redeem, Run,
                    ExecuteSettles, SettleCloses, SweepLocks, SweepReleases,
                    SweepEnds, AppendRefused
      <3>2. QED
        BY <3>1, AcceptedInStep DEF Appends
    <2>5. QED
      BY <2>1, <2>2, <2>3, <2>4
  <1>2. QED
    BY <1>1, PTL DEF Spec, NoWriteAfterFailure

\* Committed spend and labels on disk only grow (the ledger's fold, under
\* every interleaving and fault).
THEOREM EarningsStay == Spec => NothingEarnedIsLost
  <1> DEFINE Kept == /\ durable.labels \subseteq durable'.labels
                     /\ \A c \in Counters : durable.committed[c] <= durable'.committed[c]
  <1>1. ASSUME IInv, Next
        PROVE  Kept
    <2>1. CASE durable' = durable
      <3>1. \A c \in Counters : durable.committed[c] \in Nat
        BY <1>1 DEF IInv, TypeOK, LedgerState, Deltas
      <3>2. QED
        BY <2>1, <3>1
    <2>2. CASE durable' # durable
      <3>1. PICK t \in Threads : Calls(t) \/ Steps(t) \/ WriteFails(t)
        BY <1>1, <2>2 DEF Next, Crash, Tick
      <3>2. /\ AtAppend(t) /\ Accepts(state, EventOf(t))
            /\ durable' = Apply(durable, EventOf(t))
        <4>1. CASE Calls(t)
          BY <2>2, <4>1 DEF Calls, Submit, Approve, Execute, Settle, Sweep, Begin
        <4>2. CASE Steps(t)
          BY <2>2, <4>2 DEF Steps, Open, AppendOpened, SubmitDecides,
             SubmitConsumes, SubmitReserves, AppendGranted, RedeemRefused, Redeem,
             Run, ExecuteSettles, SettleCloses, SweepLocks, SweepReleases,
             SweepEnds, AppendRefused, Appends
        <4>3. CASE WriteFails(t)
          BY <2>2, <4>3 DEF WriteFails
        <4>4. QED
          BY <3>1, <4>1, <4>2, <4>3
      <3>3. state = durable
        BY <1>1, <3>2, AcceptedInStep DEF IInv
      <3>4. EventOf(t) \in Event /\ WellFormed(durable)
        BY <1>1, <3>2, OffersEvent DEF IInv
      <3>5. QED
        BY <3>2, <3>3, <3>4, ApplyWellFormed
    <2>3. QED
      BY <2>1, <2>2
  <1>2. IInv /\ [Next]_vars => [Kept]_vars
    BY <1>1
  <1>3. QED
    BY <1>2, Invariance, PTL DEF Spec, NothingEarnedIsLost
=============================================================================
