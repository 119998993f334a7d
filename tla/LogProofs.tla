----------------------------- MODULE LogProofs -----------------------------
(***************************************************************************)
(* What the lines of the log say of one another, of the state they fold    *)
(* to, and of the tokens and results given out: one life per reservation,  *)
(* tokens and results that are on disk, approvals that pay once, decisions *)
(* that stay listed, the contract the gate implements, and what a replay   *)
(* makes of the file, under its own policy and under a candidate.  All for *)
(* any number of threads, calls, failing writes and crashes.               *)
(***************************************************************************)
EXTENDS GateProofs, SequenceTheorems, WellFoundedInduction

----------------------------------------------------------------------------
(* What a step does to the log and to the calls.                           *)

\* Thread t adds its event to the file.
Writes(t) ==
  /\ AtAppend(t)
  /\ EventOf(t) \in Event
  /\ Accepts(durable, EventOf(t))
  /\ state = durable
  /\ records = Len(log)
  /\ log' = Append(log, EventOf(t))
  /\ durable' = Apply(durable, EventOf(t))

Quiet == log' = log /\ durable' = durable

\* The steps after which a call stands between its ALLOW and its reservation.
Allows(t) == SubmitDecides(t) /\ Decision(t) = "ALLOW"

Holding == {"consume", "reserve"}

\* An event that reaches the file is one the file's own fold accepts.
LEMMA AppendsWrites ==
  ASSUME IInv, NEW t \in Threads, AtAppend(t), Accepts(state, EventOf(t)),
         log' = Append(log, EventOf(t)), durable' = Apply(durable, EventOf(t))
  PROVE  Writes(t)
  <1>1. state = durable /\ records = Len(log)
    BY AcceptedInStep DEF IInv
  <1>2. EventOf(t) \in Event
    BY OffersEvent
  <1>3. QED
    BY <1>1, <1>2 DEF Writes

\* A thread's step moves no other thread's call.
LEMMA OneMoves ==
  ASSUME IInv, NEW t \in Threads, Calls(t) \/ Steps(t) \/ WriteFails(t)
  PROVE  Moves(t)
  <1>1. pc \in [Threads -> PCs] /\ call \in [Threads -> Call]
    BY DEF IInv, TypeOK
  <1>2. CASE Calls(t)
    BY <1>1, <1>2 DEF Calls, Submit, Approve, Execute, Settle, Sweep, Begin, Goto, Moves
  <1>3. CASE WriteFails(t)
    BY <1>1, <1>3 DEF WriteFails, Return, Goto, Moves
  <1>4. CASE Steps(t)
    BY <1>1, <1>4 DEF Steps, Open, AppendOpened, SubmitDecides, SubmitConsumes,
       SubmitReserves, AppendGranted, RedeemRefused, Redeem, Run, ExecuteSettles,
       SettleCloses, SweepLocks, SweepReleases, SweepEnds, AppendRefused, Return,
       Goto, Moves
  <1>5. QED
    BY <1>2, <1>3, <1>4

\* It leaves file and fold alone, or adds one accepted event to both.
LEMMA QuietOrWrites ==
  ASSUME IInv, NEW t \in Threads, Calls(t) \/ Steps(t) \/ WriteFails(t)
  PROVE  Quiet \/ Writes(t)
  <1>1. CASE Calls(t)
    BY <1>1 DEF Calls, Submit, Approve, Execute, Settle, Sweep, Begin, Quiet
  <1>2. CASE WriteFails(t)
    BY <1>2, AppendsWrites DEF WriteFails, Quiet
  <1>3. CASE Steps(t) /\ ~Appends(t)
    BY <1>3 DEF Steps, Open, AppendOpened, SubmitDecides, SubmitConsumes,
       SubmitReserves, AppendGranted, RedeemRefused, Redeem, Run, ExecuteSettles,
       SettleCloses, SweepLocks, SweepReleases, SweepEnds, AppendRefused, Quiet
  <1>4. CASE Appends(t)
    BY <1>4, AppendsWrites DEF Appends
  <1>5. QED
    BY <1>1, <1>2, <1>3, <1>4

\* Only an ALLOW and the taking of an approval lead to a place between the two.
LEMMA EntersHolding ==
  ASSUME IInv, NEW t \in Threads, Calls(t) \/ Steps(t) \/ WriteFails(t),
         pc'[t] \in Holding
  PROVE  Allows(t) \/ SubmitConsumes(t)
  <1>1. pc \in [Threads -> PCs]
    BY DEF IInv, TypeOK
  <1>2. ~Calls(t)
    BY <1>1 DEF Goto, Calls, Submit, Approve, Execute, Settle, Sweep, Begin, Holding
  <1>3. ~WriteFails(t)
    BY <1>1 DEF Goto, WriteFails, Return, Holding
  <1>4. CASE Steps(t)
    <2>1. ~Open(t) /\ ~AppendOpened(t)
      BY <1>1 DEF Goto, Open, AppendOpened, AfterOpen, Holding
    <2>2. ~SweepReleases(t)
      BY DEF SweepReleases, Holding
    <2>3. ~SubmitReserves(t) /\ ~AppendGranted(t) /\ ~RedeemRefused(t) /\ ~Redeem(t)
      BY <1>1 DEF Goto, SubmitReserves, AppendGranted, RedeemRefused, Redeem, Return, Holding
    <2>4. ~(\E ok \in BOOLEAN : Run(t, ok)) /\ ~ExecuteSettles(t) /\ ~SettleCloses(t)
      BY <1>1 DEF Goto, Run, ExecuteSettles, SettleCloses, Return, Holding
    <2>5. ~SweepLocks(t) /\ ~SweepEnds(t) /\ ~AppendRefused(t)
      BY <1>1 DEF Goto, SweepLocks, SweepEnds, AppendRefused, Return, Holding
    <2>6. SubmitDecides(t) => Decision(t) = "ALLOW"
      BY <1>1 DEF Goto, SubmitDecides, Return, Holding
    <2>7. QED
      BY <1>4, <2>1, <2>2, <2>3, <2>4, <2>5, <2>6 DEF Steps, Allows
  <1>5. QED
    BY <1>2, <1>3, <1>4

\* What a step does to a call that stands there afterwards: the call moved
\* there itself, or it was there and kept the others from the log.
LEMMA HoldingMoves ==
  ASSUME IInv, Next, NEW u \in Threads, pc'[u] \in Holding
  PROVE  \/ Allows(u) \/ SubmitConsumes(u)
         \/ pc'[u] = pc[u] /\ call'[u] = call[u] /\ Quiet
  <1>1. CASE Crash
    BY <1>1 DEF Crash, Holding
  <1>2. CASE Tick
    BY <1>2 DEF Tick, Quiet
  <1>3. CASE Calls(u) \/ Steps(u) \/ WriteFails(u)
    BY <1>3, EntersHolding
  <1>4. ASSUME NEW t \in Threads, t # u, Calls(t) \/ Steps(t) \/ WriteFails(t)
        PROVE  pc'[u] = pc[u] /\ call'[u] = call[u] /\ Quiet
    <2>1. pc'[u] = pc[u] /\ call'[u] = call[u]
      BY <1>4, OneMoves DEF Moves
    <2>2. lock = u
      BY <2>1 DEF IInv, CallOk, Holding
    <2>3. ~MayLock(t)
      BY <1>4, <2>2, GateAssumption DEF MayLock
    <2>4. QED
      BY <1>4, <2>1, <2>3, QuietOrWrites DEF Writes, AtAppend
  <1>5. QED
    BY <1>1, <1>2, <1>3, <1>4 DEF Next

\* The log over any step.
LEMMA LogMoves ==
  ASSUME IInv, Next
  PROVE  Quiet \/ \E t \in Threads : Writes(t)
  <1>1. CASE Crash \/ Tick
    BY <1>1 DEF Crash, Tick, Quiet
  <1>2. ASSUME NEW t \in Threads, Calls(t) \/ Steps(t) \/ WriteFails(t)
        PROVE  Quiet \/ Writes(t)
    BY <1>2, QuietOrWrites
  <1>3. QED
    BY <1>1, <1>2 DEF Next

----------------------------------------------------------------------------
(* A line more.                                                            *)

\* The lines there keep their places, and the new one comes after them.
LEMMA LineAdded ==
  ASSUME IInv, NEW t \in Threads, Writes(t)
  PROVE  /\ Len(log) \in Nat /\ Len(log') = Len(log) + 1
         /\ log' \in Seq(Event)
         /\ log'[Len(log) + 1] = EventOf(t)
         /\ \A i \in 1 .. Len(log) : log'[i] = log[i]
         /\ 1 .. Len(log') = (1 .. Len(log)) \cup {Len(log) + 1}
  <1>1. log \in Seq(Event) /\ EventOf(t) \in Event /\ log' = Append(log, EventOf(t))
    BY DEF IInv, TypeOK, Writes
  <1> HIDE DEF Writes
  <1>2. Len(log) \in Nat
    BY <1>1
  <1>3. /\ Len(log') = Len(log) + 1
        /\ log' \in Seq(Event)
        /\ log'[Len(log) + 1] = EventOf(t)
        /\ \A i \in 1 .. Len(log) : log'[i] = log[i]
    BY <1>1
  <1>4. QED
    BY <1>2, <1>3

\* Each kind of line comes from one place in the code.
LEMMA OfferedAt ==
  ASSUME NEW t, AtAppend(t)
  PROVE  /\ EventOf(t).kind = "decided" <=> pc[t] = "submit"
         /\ EventOf(t).kind = "approval_consumed" <=> pc[t] = "consume"
         /\ EventOf(t).kind = "reserved" <=> pc[t] = "reserve"
         /\ EventOf(t).kind = "approval_granted" <=> pc[t] = "approve"
         /\ EventOf(t).kind = "settled" <=> pc[t] \in {"settle", "close", "sweeping"}
  BY DEF AtAppend, Appending, EventOf, Settled

\* The line of a reservation is that of the token in hand.
LEMMA OffersReservation ==
  ASSUME NEW t, pc[t] = "reserve"
  PROVE  /\ EventOf(t).kind = "reserved"
         /\ EventOf(t).reservation = call[t].token.reservation
         /\ EventOf(t).act = call[t].act
         /\ EventOf(t).deltas = Cost[call[t].act]
         /\ EventOf(t).expires = call[t].token.expires
  BY DEF EventOf

LEMMA OffersDecision ==
  ASSUME NEW t, pc[t] = "submit"
  PROVE  /\ EventOf(t).kind = "decided"
         /\ EventOf(t).act = call[t].act
         /\ EventOf(t).snapshot = Snapshot(state, call[t].facts)
         /\ EventOf(t).verdict = Decision(t)
  BY DEF EventOf

\* The lines that name a reservation are those there were, and the new one
\* where it does.
LEMMA PlacesGrow ==
  ASSUME IInv, NEW t \in Threads, Writes(t), NEW kind, NEW id
  PROVE  /\ Places(kind, id) \subseteq 1 .. Len(log)
         /\ EventOf(t).kind = kind /\ EventOf(t).reservation = id =>
              Places(kind, id)' = Places(kind, id) \cup {Len(log) + 1}
         /\ ~(EventOf(t).kind = kind /\ EventOf(t).reservation = id) =>
              Places(kind, id)' = Places(kind, id)
  <1>1. Places(kind, id) = {i \in 1 .. Len(log) : log[i].kind = kind /\ log[i].reservation = id}
    BY DEF Places
  <1>2. Places(kind, id)' = {i \in 1 .. Len(log') : log'[i].kind = kind /\ log'[i].reservation = id}
    BY DEF Places
  <1>3. Len(log) + 1 \notin 1 .. Len(log)
    BY LineAdded
  <1>4. QED
    BY <1>1, <1>2, <1>3, LineAdded

\* The new line is one of those that name its reservation.
LEMMA LineNamed ==
  ASSUME IInv, NEW t \in Threads, Writes(t), NEW kind, NEW id,
         EventOf(t).kind = kind, EventOf(t).reservation = id
  PROVE  Len(log) + 1 \in Places(kind, id)' /\ log'[Len(log) + 1] = EventOf(t)
  <1>1. Places(kind, id)' = Places(kind, id) \cup {Len(log) + 1}
    BY PlacesGrow
  <1>2. log'[Len(log) + 1] = EventOf(t)
    BY LineAdded
  <1>3. QED
    BY <1>1, <1>2

----------------------------------------------------------------------------
(* One life per reservation.                                               *)

Lives == OneLife /\ OpenIsUnsettled /\ \A t \in Threads : AllowedOnce(t)

\* What OneLife says of the line at i, the number it names being id.
ReservedLine(i, id) ==
  /\ id + 1 < i
  /\ log[id + 1].kind = "decided"
  /\ log[id + 1].verdict = "ALLOW"
  /\ log[id + 1].act = log[i].act
  /\ Places("reserved", id) = {i}

SettledLine(i, id) ==
  /\ Places("settled", id) = {i}
  /\ \E j \in Places("reserved", id) : j < i

\* A reservation is open only if its number has been reserved and not settled,
\* so an accepted settlement is the first; and a number about to be reserved
\* has not been.
LEMMA FirstOfItsKind ==
  ASSUME IInv, Lives, NEW t \in Threads, Writes(t), NEW id,
         EventOf(t).reservation = id
  PROVE  /\ EventOf(t).kind = "reserved" =>
              Places("reserved", id) = {} /\ Places("settled", id) = {}
         /\ EventOf(t).kind = "settled" =>
              Places("settled", id) = {} /\ Places("reserved", id) # {}
  <1>1. ASSUME EventOf(t).kind = "reserved"
        PROVE  Places("reserved", id) = {} /\ Places("settled", id) = {}
    <2>1. pc[t] = "reserve"
      BY <1>1, OfferedAt DEF Writes
    <2>2. Places("reserved", id) = {}
      BY <2>1, OffersReservation DEF Lives, AllowedOnce
    <2>3. QED
      BY <2>2 DEF Lives, OneLife, Places
  <1>2. ASSUME EventOf(t).kind = "settled"
        PROVE  Places("settled", id) = {} /\ Places("reserved", id) # {}
    <2>1. Reserved(durable, id) # {}
      BY <1>2 DEF Writes, Accepts
    <2>2. QED
      BY <2>1 DEF Reserved, Lives, OpenIsUnsettled
  <1>3. QED
    BY <1>1, <1>2

\* The lines that were there keep their one life, and the new one has one.
LEMMA OneLifeKeeps ==
  ASSUME IInv, Lives, NEW t \in Threads, Writes(t)
  PROVE  OneLife'
  <1> DEFINE e == EventOf(t)
             n == Len(log) + 1
  <1>1. /\ Len(log) \in Nat /\ Len(log') = n
        /\ log'[n] = e
        /\ \A i \in 1 .. Len(log) : log'[i] = log[i]
        /\ 1 .. Len(log') = (1 .. Len(log)) \cup {n}
    BY LineAdded
  <1>2. e \in Event /\ log \in Seq(Event)
    BY DEF Writes, IInv, TypeOK
  <1>3. ASSUME NEW i \in 1 .. Len(log'), NEW id, i \in Places("reserved", id)'
        PROVE  ReservedLine(i, id)'
    <2>1. CASE i \in 1 .. Len(log)
      <3>1. i \in Places("reserved", id)
        BY <1>1, <1>3, <2>1 DEF Places
      <3>2. log[i] \in Event /\ log[i].kind = "reserved" /\ log[i].reservation = id
        BY <1>2, <2>1, <3>1 DEF Places
      <3>3. id \in Nat
        BY <3>2 DEF Event
      <3>4. ReservedLine(i, id)
        BY <2>1, <3>2 DEF Lives, OneLife, ReservedLine
      <3>5. ~(e.kind = "reserved" /\ e.reservation = id)
        BY <3>1, FirstOfItsKind
      <3>6. Places("reserved", id)' = Places("reserved", id)
        BY <3>5, PlacesGrow
      <3>7. id + 1 \in 1 .. Len(log)
        BY <1>1, <2>1, <3>3, <3>4 DEF ReservedLine
      <3>8. QED
        BY <1>1, <2>1, <3>4, <3>6, <3>7 DEF ReservedLine
    <2>2. CASE i = n
      <3>1. e.kind = "reserved" /\ e.reservation = id
        BY <1>1, <1>3, <2>2 DEF Places
      <3>2. pc[t] = "reserve"
        BY <3>1, OfferedAt DEF Writes
      <3>3. Recorded(id) /\ AllowedOnce(t) /\ id = call[t].token.reservation
            /\ e.act = call[t].act
        BY <3>1, <3>2, OffersReservation DEF IInv, CallOk, Lives
      <3>4. /\ id \in Nat /\ id + 1 \in 1 .. Len(log)
            /\ log[id + 1].kind = "decided" /\ log[id + 1].verdict = "ALLOW"
            /\ log[id + 1].act = e.act
        BY <3>2, <3>3 DEF Recorded, AllowedOnce
      <3>5. Places("reserved", id)' = {n}
        BY <3>1, FirstOfItsKind, PlacesGrow
      <3>6. QED
        BY <1>1, <2>2, <3>4, <3>5 DEF ReservedLine
    <2>3. QED
      BY <1>1, <2>1, <2>2
  <1>4. ASSUME NEW i \in 1 .. Len(log'), NEW id, i \in Places("settled", id)'
        PROVE  SettledLine(i, id)'
    <2>1. CASE i \in 1 .. Len(log)
      <3>1. i \in Places("settled", id) /\ log[i].kind = "settled" /\ log[i].reservation = id
        BY <1>1, <1>4, <2>1 DEF Places
      <3>2. SettledLine(i, id)
        BY <2>1, <3>1 DEF Lives, OneLife, SettledLine
      <3>3. ~(e.kind = "settled" /\ e.reservation = id)
        BY <3>1, FirstOfItsKind
      <3>4. /\ Places("settled", id)' = Places("settled", id)
            /\ Places("reserved", id) \subseteq Places("reserved", id)'
        BY <3>3, PlacesGrow
      <3>5. QED
        BY <3>2, <3>4 DEF SettledLine
    <2>2. CASE i = n
      <3>1. e.kind = "settled" /\ e.reservation = id
        BY <1>1, <1>4, <2>2 DEF Places
      <3>2. Places("settled", id) = {} /\ Places("reserved", id) # {}
        BY <3>1, FirstOfItsKind
      <3>3. /\ Places("settled", id)' = {n}
            /\ Places("reserved", id)' = Places("reserved", id)
            /\ Places("reserved", id) \subseteq 1 .. Len(log)
        BY <3>1, <3>2, PlacesGrow
      <3>4. \A j \in 1 .. Len(log) : j < n
        BY <1>1
      <3>5. QED
        BY <2>2, <3>2, <3>3, <3>4 DEF SettledLine
    <2>3. QED
      BY <1>1, <2>1, <2>2
  <1>5. ASSUME NEW i \in 1 .. Len(log'), NEW id,
               log'[i].kind = "reserved", log'[i].reservation = id
        PROVE  /\ id + 1 < i
               /\ log'[id + 1].kind = "decided"
               /\ log'[id + 1].verdict = "ALLOW"
               /\ log'[id + 1].act = log'[i].act
               /\ {j \in 1 .. Len(log') :
                     log'[j].kind = "reserved" /\ log'[j].reservation = id} = {i}
    BY <1>3, <1>5 DEF ReservedLine, Places
  <1>6. ASSUME NEW i \in 1 .. Len(log'), NEW id,
               log'[i].kind = "settled", log'[i].reservation = id
        PROVE  /\ {j \in 1 .. Len(log') :
                     log'[j].kind = "settled" /\ log'[j].reservation = id} = {i}
               /\ \E k \in {j \in 1 .. Len(log') :
                             log'[j].kind = "reserved" /\ log'[j].reservation = id} :
                    k < i
    <2>1. i \in Places("settled", id)'
      BY <1>6 DEF Places
    <2>2. Places("settled", id)' = {i} /\ \E j \in Places("reserved", id)' : j < i
      BY <1>4, <2>1 DEF SettledLine
    <2>3. QED
      BY <2>2 DEF Places
  <1> HIDE DEF e, n
  <1>7. QED
    BY <1>5, <1>6 DEF OneLife, Places

\* What is open afterwards was open before and is not what was settled, or is
\* the new reservation.
LEMMA OpenKeeps ==
  ASSUME IInv, Lives, NEW t \in Threads, Writes(t)
  PROVE  OpenIsUnsettled'
  <1> DEFINE e == EventOf(t)
             n == Len(log) + 1
  <1>1. /\ log'[n] = e /\ n \in 1 .. Len(log')
        /\ \A i \in 1 .. Len(log) : log'[i] = log[i]
    BY LineAdded
  <1>2. /\ WellFormed(durable) /\ e \in Event /\ Accepts(durable, e)
        /\ durable' = Apply(durable, e)
    BY DEF Writes, IInv
  <1>3. /\ e.kind = "reserved" =>
             durable'.reserved =
               durable.reserved \cup
                 {[reservation |-> e.reservation, act |-> e.act,
                   deltas |-> e.deltas, expires |-> e.expires]}
        /\ e.kind = "settled" =>
             durable'.reserved = durable.reserved \ Reserved(durable, e.reservation)
        /\ e.kind \notin {"reserved", "settled"} => durable'.reserved = durable.reserved
    BY <1>2, ApplyReserved
  <1> HIDE DEF e, n
  <1>4. ASSUME NEW r \in durable.reserved, NEW id, id = r.reservation,
               ~(e.kind = "settled" /\ e.reservation = id)
        PROVE  /\ \E i \in Places("reserved", id)' : log'[i].act = r.act
               /\ Places("settled", id)' = {}
    <2>1. PICK i \in Places("reserved", id) : log[i].act = r.act
      BY <1>4 DEF Lives, OpenIsUnsettled
    <2>2. Places("settled", id) = {}
      BY <1>4 DEF Lives, OpenIsUnsettled
    <2>3. Places("settled", id)' = {} /\ i \in Places("reserved", id)' /\ i \in 1 .. Len(log)
      BY <1>4, <2>1, <2>2, PlacesGrow DEF e
    <2>4. QED
      BY <1>1, <2>1, <2>3
  <1>5. ASSUME e.kind = "reserved", NEW id, id = e.reservation
        PROVE  /\ \E i \in Places("reserved", id)' : log'[i].act = e.act
               /\ Places("settled", id)' = {}
    <2>1. Places("settled", id) = {}
      BY <1>5, FirstOfItsKind DEF e
    <2>2. Places("settled", id)' = Places("settled", id)
      BY <1>5, PlacesGrow DEF e
    <2>3. n \in Places("reserved", id)'
      BY <1>5, PlacesGrow DEF e, n
    <2>4. QED
      BY <1>1, <2>1, <2>2, <2>3
  <1>6. ASSUME NEW r \in durable'.reserved, NEW id, id = r.reservation
        PROVE  /\ \E i \in Places("reserved", id)' : log'[i].act = r.act
               /\ Places("settled", id)' = {}
    <2>1. CASE r \in durable.reserved
      <3>1. ~(e.kind = "settled" /\ e.reservation = id)
        BY <1>3, <1>6, <2>1 DEF Reserved
      <3>2. QED
        BY <1>4, <1>6, <2>1, <3>1
    <2>2. CASE r \notin durable.reserved
      <3>1. e.kind = "reserved" /\ r.reservation = e.reservation /\ r.act = e.act
        BY <1>3, <1>6, <2>2
      <3>2. QED
        BY <1>5, <1>6, <3>1
    <2>3. QED
      BY <2>1, <2>2
  <1>7. QED
    BY <1>6 DEF OpenIsUnsettled, Places

\* What AllowedOnce says, the number in hand being id.
AllowedNumber(a, id) ==
  /\ log[id + 1].act = a
  /\ log[id + 1].verdict = "ALLOW"
  /\ Places("reserved", id) = {}

\* A number is free when its ALLOW is the last line, and stays so until the
\* call that holds it writes its reservation.
LEMMA AllowedKeeps ==
  ASSUME IInv, Lives, Next, NEW u \in Threads, pc'[u] \in Holding,
         NEW a, NEW id, call'[u].act = a, call'[u].token.reservation = id
  PROVE  call'[u].token.act = a /\ AllowedNumber(a, id)'
  <1>1. call \in [Threads -> Call] /\ log \in Seq(Event) /\ CallOk(u) /\ AllowedOnce(u)
    BY DEF IInv, TypeOK, Lives
  <1>2. CASE Allows(u)
    <2> DEFINE token == [act |-> call[u].act, expires |-> now + Ttl,
                         reservation |-> records]
    <2>1. /\ pc[u] = "submit" /\ Appends(u) /\ Decision(u) = "ALLOW"
          /\ call' = [call EXCEPT ![u].token = token]
      BY <1>2 DEF Allows, SubmitDecides
    <2>2. Writes(u)
      BY <2>1, AppendsWrites DEF Appends
    <2>3. call[u] \in Call /\ call'[u] = [call[u] EXCEPT !.token = token]
      BY <1>1, <2>1
    <2>4. call'[u].token = token /\ call'[u].act = call[u].act
      BY <2>3 DEF Call
    <2>5. /\ id = Len(log) /\ a = call[u].act /\ call'[u].token.act = a
      BY <2>2, <2>4 DEF Writes
    <2>6. log'[id + 1].act = a /\ log'[id + 1].verdict = "ALLOW"
      BY <2>1, <2>2, <2>5, LineAdded, OffersDecision
    <2>7. Places("reserved", id) = {}
      <3>1. \A i \in 1 .. Len(log) : log[i].kind = "reserved" => log[i].reservation + 1 < i
        BY DEF Lives, OneLife
      <3>2. Len(log) \in Nat
        BY <1>1
      <3>3. QED
        BY <2>5, <3>1, <3>2 DEF Places
    <2>8. Places("reserved", id)' = {}
      BY <2>1, <2>2, <2>7, PlacesGrow, OffersDecision
    <2>9. QED
      BY <2>5, <2>6, <2>8 DEF AllowedNumber
  <1>3. CASE SubmitConsumes(u)
    <2>1. pc[u] = "consume" /\ Appends(u) /\ call' = call
      BY <1>3 DEF SubmitConsumes
    <2>2. Writes(u)
      BY <2>1, AppendsWrites DEF Appends
    <2>3. EventOf(u).kind = "approval_consumed"
      BY <2>1, <2>2, OfferedAt DEF Writes
    <2>4. /\ Recorded(id) /\ AllowedNumber(a, id) /\ call'[u].token.act = a
      BY <1>1, <2>1 DEF CallOk, AllowedOnce, AllowedNumber
    <2>5. log'[id + 1] = log[id + 1]
      BY <2>2, <2>4, LineAdded DEF Recorded
    <2>6. Places("reserved", id)' = {}
      BY <2>2, <2>3, <2>4, PlacesGrow DEF AllowedNumber
    <2>7. QED
      BY <2>4, <2>5, <2>6 DEF AllowedNumber
  <1>4. CASE pc'[u] = pc[u] /\ call'[u] = call[u] /\ Quiet
    <2>1. AllowedNumber(a, id) /\ call'[u].token.act = a
      BY <1>1, <1>4 DEF AllowedOnce, AllowedNumber, Holding
    <2>2. QED
      BY <1>4, <2>1 DEF AllowedNumber, Quiet, Places
  <1>5. QED
    BY <1>2, <1>3, <1>4, HoldingMoves

\* Every step keeps it all.
LEMMA LivesKeep ==
  ASSUME IInv, Lives, [Next]_vars
  PROVE  Lives'
  <1>1. CASE Next
    <2>1. OneLife' /\ OpenIsUnsettled'
      <3>1. CASE Quiet
        BY <3>1 DEF Quiet, Lives, OneLife, OpenIsUnsettled, Places
      <3>2. CASE \E t \in Threads : Writes(t)
        BY <3>2, OneLifeKeeps, OpenKeeps
      <3>3. QED
        BY <1>1, <3>1, <3>2, LogMoves
    <2>2. ASSUME NEW u \in Threads
          PROVE  AllowedOnce(u)'
      BY <1>1, AllowedKeeps DEF AllowedOnce, AllowedNumber, Holding, Places
    <2>3. QED
      BY <2>1, <2>2 DEF Lives
  <1>2. CASE UNCHANGED vars
    BY <1>2 DEF vars, Lives, OneLife, OpenIsUnsettled, AllowedOnce, Places
  <1>3. QED
    BY <1>1, <1>2

----------------------------------------------------------------------------
(* Tokens and results.                                                     *)

\* Only a written reservation mints a token, and only a written commit
\* returns a result.
LEMMA GivenOut ==
  ASSUME IInv, Next
  PROVE  /\ tokens' = tokens \/ \E t \in Threads : SubmitReserves(t)
         /\ returned' = returned \/ \E t \in Threads : ExecuteSettles(t)
  <1>1. ASSUME NEW t \in Threads, Calls(t) \/ WriteFails(t)
        PROVE  tokens' = tokens /\ returned' = returned
    BY <1>1 DEF Calls, Submit, Approve, Execute, Settle, Sweep, Begin, WriteFails
  <1>2. ASSUME NEW t \in Threads, Steps(t)
        PROVE  /\ tokens' = tokens \/ SubmitReserves(t)
               /\ returned' = returned \/ ExecuteSettles(t)
    BY <1>2 DEF Steps, Open, AppendOpened, SubmitDecides, SubmitConsumes,
       SubmitReserves, AppendGranted, RedeemRefused, Redeem, Run, ExecuteSettles,
       SettleCloses, SweepLocks, SweepReleases, SweepEnds, AppendRefused
  <1>3. CASE Crash \/ Tick
    BY <1>3 DEF Crash, Tick
  <1>4. QED
    BY <1>1, <1>2, <1>3 DEF Next

\* A line that names a reservation stays where it is.
LEMMA LinesStay ==
  ASSUME IInv, Next
  PROVE  /\ \A i \in 1 .. Len(log) : i \in 1 .. Len(log') /\ log'[i] = log[i]
         /\ \A kind, id : Places(kind, id) \subseteq Places(kind, id)'
         /\ durable.labels \subseteq durable'.labels
  <1>1. CASE Quiet
    BY <1>1 DEF Quiet, Places
  <1>2. ASSUME NEW t \in Threads, Writes(t)
        PROVE  /\ \A i \in 1 .. Len(log) : i \in 1 .. Len(log') /\ log'[i] = log[i]
               /\ \A kind, id : Places(kind, id) \subseteq Places(kind, id)'
               /\ durable.labels \subseteq durable'.labels
    <2>1. \A i \in 1 .. Len(log) : i \in 1 .. Len(log') /\ log'[i] = log[i]
      BY <1>2, LineAdded
    <2>2. \A kind, id : Places(kind, id) \subseteq Places(kind, id)'
      BY <1>2, PlacesGrow
    <2>3. durable.labels \subseteq durable'.labels
      BY <1>2, ApplyWellFormed DEF Writes, IInv
    <2>4. QED
      BY <2>1, <2>2, <2>3
  <1>3. QED
    BY <1>1, <1>2, LogMoves

LEMMA TokensKeep ==
  ASSUME IInv, Lives, TokensAreDurable, [Next]_vars
  PROVE  TokensAreDurable'
  <1>1. CASE UNCHANGED vars
    BY <1>1 DEF vars, TokensAreDurable, Places
  <1>2. CASE Next
    <2>1. ASSUME NEW token \in tokens, NEW id, id = token.reservation
          PROVE  \E i \in Places("reserved", id)' :
                   log'[i].act = token.act /\ log'[i].expires = token.expires
      <3>1. PICK i \in Places("reserved", id) :
                   log[i].act = token.act /\ log[i].expires = token.expires
        BY <2>1 DEF TokensAreDurable
      <3>2. i \in 1 .. Len(log)
        BY <3>1 DEF Places
      <3>3. QED
        BY <1>2, <3>1, <3>2, LinesStay
    <2>2. ASSUME NEW t \in Threads, SubmitReserves(t),
                 NEW token, token = call[t].token, NEW id, id = token.reservation
          PROVE  \E i \in Places("reserved", id)' :
                   log'[i].act = token.act /\ log'[i].expires = token.expires
      <3>1. pc[t] = "reserve" /\ Appends(t)
        BY <2>2 DEF SubmitReserves
      <3>2. Writes(t)
        BY <3>1, AppendsWrites DEF Appends
      <3>3. /\ EventOf(t).kind = "reserved" /\ EventOf(t).reservation = id
            /\ EventOf(t).act = call[t].act /\ EventOf(t).expires = token.expires
        BY <2>2, <3>1, OffersReservation
      <3>4. token.act = call[t].act
        BY <2>2, <3>1 DEF Lives, AllowedOnce
      <3>5. /\ Len(log) + 1 \in Places("reserved", id)'
            /\ log'[Len(log) + 1] = EventOf(t)
        BY <3>2, <3>3, LineNamed
      <3>6. QED
        BY <3>3, <3>4, <3>5
    <2>3. ASSUME NEW token \in tokens', NEW id, id = token.reservation
          PROVE  \E i \in Places("reserved", id)' :
                   log'[i].act = token.act /\ log'[i].expires = token.expires
      <3>1. \/ token \in tokens
            \/ \E t \in Threads : SubmitReserves(t) /\ token = call[t].token
        BY <1>2, GivenOut DEF SubmitReserves
      <3>2. QED
        BY <2>1, <2>2, <2>3, <3>1
    <2>4. QED
      BY <2>3 DEF TokensAreDurable, Places
  <1>3. QED
    BY <1>1, <1>2

ReturnedStand == ReturnedIsCommitted /\ \A id \in returned : Recorded(id)

\* A result handed back has its commit, with the labels of the decision's tool.
LEMMA ReturnedKeep ==
  ASSUME IInv, ReturnedStand, [Next]_vars
  PROVE  ReturnedStand'
  <1>1. CASE UNCHANGED vars
    BY <1>1 DEF vars, ReturnedStand, ReturnedIsCommitted, Places, Recorded
  <1>2. CASE Next
    <2> DEFINE Stands(id) ==
          /\ Recorded(id)
          /\ \E i \in Places("settled", id) :
               /\ log[i].outcome = "committed"
               /\ ResultLabels[log[id + 1].act] \subseteq durable.labels
    <2>1. ASSUME NEW id \in returned
          PROVE  Stands(id)'
      <3>1. Recorded(id)
        BY <2>1 DEF ReturnedStand
      <3>2. /\ id \in Nat /\ id + 1 \in 1 .. Len(log') /\ log'[id + 1] = log[id + 1]
            /\ log[id + 1].kind = "decided"
        BY <1>2, <3>1, LinesStay DEF Recorded
      <3>3. PICK i \in Places("settled", id) :
                   /\ log[i].outcome = "committed"
                   /\ ResultLabels[log[id + 1].act] \subseteq durable.labels
        BY <2>1 DEF ReturnedStand, ReturnedIsCommitted
      <3>4. i \in Places("settled", id)' /\ log'[i] = log[i]
        BY <1>2, <3>3, LinesStay DEF Places
      <3>5. ResultLabels[log'[id + 1].act] \subseteq durable'.labels
        BY <1>2, <3>2, <3>3, LinesStay
      <3>6. QED
        BY <3>2, <3>3, <3>4, <3>5 DEF Recorded
    <2>2. ASSUME NEW t \in Threads, ExecuteSettles(t), call[t].outcome = "committed",
                 NEW id, id = call[t].token.reservation
          PROVE  Stands(id)'
      <3>1. pc[t] = "settle" /\ Appends(t)
        BY <2>2 DEF ExecuteSettles
      <3>2. Writes(t)
        BY <3>1, AppendsWrites DEF Appends
      <3>3. Recorded(id)
        BY <2>2, <3>1 DEF IInv, CallOk
      <3>4. /\ id \in Nat /\ id + 1 \in 1 .. Len(log') /\ log'[id + 1] = log[id + 1]
            /\ log[id + 1].kind = "decided"
        BY <1>2, <3>3, LinesStay DEF Recorded
      <3>5. /\ EventOf(t).kind = "settled" /\ EventOf(t).reservation = id
            /\ EventOf(t).outcome = "committed"
            /\ EventOf(t).labels = ResultLabels[log[id + 1].act]
        BY <2>2, <3>1 DEF EventOf, Settled, LabelsOf
      <3>6. /\ Len(log) + 1 \in Places("settled", id)'
            /\ log'[Len(log) + 1] = EventOf(t)
        BY <3>2, <3>5, LineNamed
      <3>7. durable'.labels = durable.labels \cup EventOf(t).labels
        BY <3>2, <3>5, ApplyCommitted DEF Writes, IInv
      <3>8. QED
        BY <3>4, <3>5, <3>6, <3>7 DEF Recorded
    <2>3. ASSUME NEW id \in returned'
          PROVE  Stands(id)'
      <3>1. \/ id \in returned
            \/ \E t \in Threads : /\ ExecuteSettles(t)
                                  /\ call[t].outcome = "committed"
                                  /\ id = call[t].token.reservation
        BY <1>2, GivenOut DEF ExecuteSettles
      <3>2. QED
        BY <2>1, <2>2, <3>1
    <2>4. QED
      BY <2>3 DEF ReturnedStand, ReturnedIsCommitted
  <1>3. QED
    BY <1>1, <1>2

----------------------------------------------------------------------------
(* Approvals.                                                              *)

Approvals == ApprovalsBalance /\ \A t \in Threads : HasTaken(t)

\* Lines can be counted, and a line more is one more.
LEMMA CountLines ==
  ASSUME NEW n \in Nat, NEW S \in SUBSET (1 .. n)
  PROVE  /\ Cardinality(S) \in Nat
         /\ Cardinality(S \cup {n + 1}) = Cardinality(S) + 1
  <1>1. IsFiniteSet(1 .. n)
    BY FS_Interval
  <1>2. IsFiniteSet(S)
    BY <1>1, FS_Subset
  <1>3. n + 1 \notin S
    OBVIOUS
  <1>4. QED
    BY <1>2, <1>3, FS_AddElement, FS_CardinalityType

\* Reservation i was decided with an approval of its action in sight.
LEMMA PaidBefore ==
  ASSUME IInv, Lives, NEW i \in 1 .. Len(log), log[i].kind = "reserved"
  PROVE  log[i].reservation \in Nat /\ log[i].reservation + 1 \in 1 .. Len(log)
  <1>1. log \in Seq(Event) /\ log[i] \in Event /\ Len(log) \in Nat
    BY DEF IInv, TypeOK
  <1>2. log[i].reservation \in Nat
    BY <1>1 DEF Event
  <1>3. log[i].reservation + 1 < i
    BY DEF Lives, OneLife
  <1>4. QED
    BY <1>1, <1>2, <1>3

\* The lines of a kind that name an action.
LinesOf(lines, kind, a) ==
  {i \in 1 .. Len(lines) : lines[i].kind = kind /\ lines[i].act = a}

LEMMA LinesOfGrow ==
  ASSUME IInv, NEW t \in Threads, Writes(t), NEW kind, NEW a
  PROVE  /\ EventOf(t).kind = kind /\ EventOf(t).act = a =>
              LinesOf(log', kind, a) = LinesOf(log, kind, a) \cup {Len(log) + 1}
         /\ ~(EventOf(t).kind = kind /\ EventOf(t).act = a) =>
              LinesOf(log', kind, a) = LinesOf(log, kind, a)
  <1>1. Len(log) + 1 \notin 1 .. Len(log)
    BY LineAdded
  <1>2. QED
    BY <1>1, LineAdded DEF LinesOf

\* The lines that grant, take and use an approval of an action are those there
\* were, and the new one where it does.
LEMMA GrantsGrow ==
  ASSUME IInv, NEW t \in Threads, Writes(t), NEW a
  PROVE  /\ Grants(a) \subseteq 1 .. Len(log) /\ Takes(a) \subseteq 1 .. Len(log)
         /\ EventOf(t).kind = "approval_granted" /\ EventOf(t).act = a =>
              Grants(a)' = Grants(a) \cup {Len(log) + 1}
         /\ ~(EventOf(t).kind = "approval_granted" /\ EventOf(t).act = a) =>
              Grants(a)' = Grants(a)
         /\ EventOf(t).kind = "approval_consumed" /\ EventOf(t).act = a =>
              Takes(a)' = Takes(a) \cup {Len(log) + 1}
         /\ ~(EventOf(t).kind = "approval_consumed" /\ EventOf(t).act = a) =>
              Takes(a)' = Takes(a)
  <1>1. /\ Grants(a) = LinesOf(log, "approval_granted", a)
        /\ Takes(a) = LinesOf(log, "approval_consumed", a)
    BY DEF Grants, Takes, LinesOf
  <1>2. /\ Grants(a)' = LinesOf(log', "approval_granted", a)
        /\ Takes(a)' = LinesOf(log', "approval_consumed", a)
    BY DEF Grants, Takes, LinesOf
  <1>3. Grants(a) \subseteq 1 .. Len(log) /\ Takes(a) \subseteq 1 .. Len(log)
    BY DEF Grants, Takes
  <1>4. /\ EventOf(t).kind = "approval_granted" /\ EventOf(t).act = a =>
             Grants(a)' = Grants(a) \cup {Len(log) + 1}
        /\ ~(EventOf(t).kind = "approval_granted" /\ EventOf(t).act = a) =>
             Grants(a)' = Grants(a)
    BY <1>1, <1>2, LinesOfGrow
  <1>5. /\ EventOf(t).kind = "approval_consumed" /\ EventOf(t).act = a =>
             Takes(a)' = Takes(a) \cup {Len(log) + 1}
        /\ ~(EventOf(t).kind = "approval_consumed" /\ EventOf(t).act = a) =>
             Takes(a)' = Takes(a)
    BY <1>1, <1>2, LinesOfGrow
  <1>6. QED
    BY <1>3, <1>4, <1>5

\* What PaidByApproval says of the line at i.
PaidLine(lines, i, a) ==
  /\ lines[i].kind = "reserved"
  /\ lines[i].act = a
  /\ a \in lines[lines[i].reservation + 1].snapshot.approvals

LEMMA PaidGrows ==
  ASSUME IInv, Lives, NEW t \in Threads, Writes(t), NEW a
  PROVE  /\ PaidByApproval(a) \subseteq 1 .. Len(log)
         /\ EventOf(t).kind # "reserved" => PaidByApproval(a)' = PaidByApproval(a)
         /\ EventOf(t).kind = "reserved" =>
              \/ PaidByApproval(a)' = PaidByApproval(a)
              \/ /\ PaidByApproval(a)' = PaidByApproval(a) \cup {Len(log) + 1}
                 /\ EventOf(t).act = a
                 /\ a \in log[EventOf(t).reservation + 1].snapshot.approvals
  <1> DEFINE e == EventOf(t)
             n == Len(log) + 1
  <1>1. PaidByApproval(a) = {i \in 1 .. Len(log) : PaidLine(log, i, a)}
    BY DEF PaidByApproval, PaidLine
  <1>2. PaidByApproval(a)' = {i \in 1 .. Len(log') : PaidLine(log', i, a)}
    BY DEF PaidByApproval, PaidLine
  <1>3. /\ log'[n] = e
        /\ \A i \in 1 .. Len(log) : log'[i] = log[i]
        /\ 1 .. Len(log') = (1 .. Len(log)) \cup {n}
    BY LineAdded
  <1>4. ASSUME NEW i \in 1 .. Len(log)
        PROVE  PaidLine(log', i, a) <=> PaidLine(log, i, a)
    <2>1. log'[i] = log[i]
      BY <1>3
    <2>2. ASSUME log[i].kind = "reserved"
          PROVE  log'[log[i].reservation + 1] = log[log[i].reservation + 1]
      BY <1>3, <2>2, PaidBefore
    <2>3. QED
      BY <2>1, <2>2 DEF PaidLine
  <1>5. ASSUME PaidLine(log', n, a)
        PROVE  /\ e.kind = "reserved" /\ e.act = a
               /\ a \in log[e.reservation + 1].snapshot.approvals
    <2>1. /\ e.kind = "reserved" /\ e.act = a
          /\ a \in log'[e.reservation + 1].snapshot.approvals
      BY <1>3, <1>5 DEF PaidLine
    <2>2. pc[t] = "reserve" /\ e.reservation = call[t].token.reservation
      BY <2>1, OfferedAt, OffersReservation DEF Writes
    <2>3. e.reservation + 1 \in 1 .. Len(log)
      BY <2>2 DEF IInv, CallOk, Recorded
    <2>4. QED
      BY <1>3, <2>1, <2>3
  <1> HIDE DEF e, n
  <1>6. \/ PaidByApproval(a)' = PaidByApproval(a)
        \/ PaidLine(log', n, a) /\ PaidByApproval(a)' = PaidByApproval(a) \cup {n}
    BY <1>1, <1>2, <1>3, <1>4
  <1>7. QED
    BY <1>1, <1>5, <1>6 DEF e, n

\* How a line moves the three counts.
LEMMA CountsMove ==
  ASSUME IInv, Lives, NEW t \in Threads, Writes(t), NEW a
  PROVE  /\ Cardinality(Grants(a)) \in Nat
         /\ Cardinality(Takes(a)) \in Nat
         /\ Cardinality(PaidByApproval(a)) \in Nat
         /\ EventOf(t).kind = "approval_granted" /\ EventOf(t).act = a =>
              Cardinality(Grants(a)') = Cardinality(Grants(a)) + 1
         /\ ~(EventOf(t).kind = "approval_granted" /\ EventOf(t).act = a) =>
              Grants(a)' = Grants(a)
         /\ EventOf(t).kind = "approval_consumed" /\ EventOf(t).act = a =>
              Cardinality(Takes(a)') = Cardinality(Takes(a)) + 1
         /\ ~(EventOf(t).kind = "approval_consumed" /\ EventOf(t).act = a) =>
              Takes(a)' = Takes(a)
         /\ \/ PaidByApproval(a)' = PaidByApproval(a)
            \/ /\ Cardinality(PaidByApproval(a)') = Cardinality(PaidByApproval(a)) + 1
               /\ EventOf(t).kind = "reserved" /\ EventOf(t).act = a
               /\ a \in log[EventOf(t).reservation + 1].snapshot.approvals
  <1>1. Len(log) \in Nat
    BY LineAdded
  <1>2. /\ Grants(a) \in SUBSET (1 .. Len(log)) /\ Takes(a) \in SUBSET (1 .. Len(log))
        /\ PaidByApproval(a) \in SUBSET (1 .. Len(log))
    BY GrantsGrow, PaidGrows
  <1>3. \A S \in SUBSET (1 .. Len(log)) :
          /\ Cardinality(S) \in Nat
          /\ Cardinality(S \cup {Len(log) + 1}) = Cardinality(S) + 1
    BY <1>1, CountLines
  <1>4. \/ PaidByApproval(a)' = PaidByApproval(a)
        \/ /\ PaidByApproval(a)' = PaidByApproval(a) \cup {Len(log) + 1}
           /\ EventOf(t).kind = "reserved" /\ EventOf(t).act = a
           /\ a \in log[EventOf(t).reservation + 1].snapshot.approvals
    BY PaidGrows
  <1>5. /\ EventOf(t).kind = "approval_granted" /\ EventOf(t).act = a =>
             Cardinality(Grants(a)') = Cardinality(Grants(a)) + 1
        /\ ~(EventOf(t).kind = "approval_granted" /\ EventOf(t).act = a) =>
             Grants(a)' = Grants(a)
    BY <1>2, <1>3, GrantsGrow
  <1>6. /\ EventOf(t).kind = "approval_consumed" /\ EventOf(t).act = a =>
             Cardinality(Takes(a)') = Cardinality(Takes(a)) + 1
        /\ ~(EventOf(t).kind = "approval_consumed" /\ EventOf(t).act = a) =>
             Takes(a)' = Takes(a)
    BY <1>2, <1>3, GrantsGrow
  <1>7. QED
    BY <1>2, <1>3, <1>4, <1>5, <1>6

\* What the balance says of one action.
Balanced(a) ==
  /\ Cardinality(PaidByApproval(a)) <= Cardinality(Takes(a))
  /\ Cardinality(Takes(a)) <= Cardinality(Grants(a))
  /\ a \in durable.approvals => Cardinality(Takes(a)) < Cardinality(Grants(a))

\* A grant adds to the grants; a take needs an approval, so a grant too many;
\* a reservation under an approval comes from a call that has taken it.
LEMMA BalanceKeeps ==
  ASSUME IInv, Lives, Approvals, NEW t \in Threads, Writes(t), NEW a \in Acts
  PROVE  Balanced(a)'
  <1> DEFINE e == EventOf(t)
             P == Cardinality(PaidByApproval(a))
             T == Cardinality(Takes(a))
             G == Cardinality(Grants(a))
             P1 == Cardinality(PaidByApproval(a)')
             T1 == Cardinality(Takes(a)')
             G1 == Cardinality(Grants(a)')
  <1>1. /\ P \in Nat /\ T \in Nat /\ G \in Nat
        /\ P <= T /\ T <= G
        /\ a \in durable.approvals => T < G
    BY CountsMove DEF Approvals, ApprovalsBalance
  <1>2. /\ WellFormed(durable) /\ e \in Event /\ Accepts(durable, e)
        /\ durable' = Apply(durable, e)
    BY DEF Writes, IInv
  <1>3. /\ e.kind = "approval_granted" => durable'.approvals = durable.approvals \cup {e.act}
        /\ e.kind = "approval_consumed" => durable'.approvals = durable.approvals \ {e.act}
        /\ e.kind \notin {"approval_granted", "approval_consumed"} =>
             durable'.approvals = durable.approvals
    BY <1>2, ApplyApprovals
  <1>4. /\ e.kind = "approval_granted" /\ e.act = a => G1 = G + 1
        /\ ~(e.kind = "approval_granted" /\ e.act = a) => G1 = G
        /\ e.kind = "approval_consumed" /\ e.act = a => T1 = T + 1
        /\ ~(e.kind = "approval_consumed" /\ e.act = a) => T1 = T
        /\ \/ P1 = P
           \/ /\ P1 = P + 1
              /\ e.kind = "reserved" /\ e.act = a
              /\ a \in log[e.reservation + 1].snapshot.approvals
    BY CountsMove
  <1>5. e.kind = "approval_consumed" => e.act \in durable.approvals
    BY <1>2 DEF Accepts
  <1>6. ASSUME P1 # P PROVE P < T
    <2>1. e.kind = "reserved" /\ e.act = a /\ a \in log[e.reservation + 1].snapshot.approvals
      BY <1>4, <1>6
    <2>2. /\ pc[t] = "reserve" /\ call[t].act = a
          /\ e.reservation = call[t].token.reservation
      BY <2>1, OfferedAt, OffersReservation DEF Writes
    <2>3. QED
      BY <2>1, <2>2 DEF Approvals, HasTaken
  <1>7. P1 <= T1 /\ T1 <= G1 /\ (a \in durable'.approvals => T1 < G1)
    <2> HIDE DEF e, P, T, G, P1, T1, G1
    <2>1. QED
      BY <1>1, <1>3, <1>4, <1>5, <1>6
  <1>8. QED
    BY <1>7 DEF Balanced

\* Between taking an approval and reserving under it a call is one take ahead.
LEMMA TakenKeeps ==
  ASSUME IInv, Lives, Approvals, Next, NEW u \in Threads, pc'[u] = "reserve",
         NEW a, NEW id, call'[u].act = a, call'[u].token.reservation = id,
         a \in log'[id + 1].snapshot.approvals
  PROVE  (Cardinality(PaidByApproval(a)) < Cardinality(Takes(a)))'
  <1>1. call \in [Threads -> Call] /\ pc \in [Threads -> PCs] /\ CallOk(u)
        /\ log \in Seq(Event)
    BY DEF IInv, TypeOK
  <1>2. ~Allows(u)
    <2> SUFFICES ASSUME Allows(u) PROVE FALSE
      OBVIOUS
    <2> DEFINE token == [act |-> call[u].act, expires |-> now + Ttl,
                         reservation |-> records]
    <2>1. /\ pc[u] = "submit" /\ Appends(u) /\ Goto(u, AfterAllow(u))
          /\ call' = [call EXCEPT ![u].token = token]
      BY DEF Allows, SubmitDecides
    <2>2. Writes(u)
      BY <2>1, AppendsWrites DEF Appends
    <2>3. call[u] \in Call /\ call'[u] = [call[u] EXCEPT !.token = token]
      BY <1>1, <2>1
    <2>4. call'[u].token = token /\ call'[u].act = call[u].act
      BY <2>3 DEF Call
    <2>5. id = Len(log) /\ a = call[u].act
      BY <2>2, <2>4 DEF Writes
    <2>6. log'[id + 1].snapshot = Snapshot(state, call[u].facts)
      BY <2>1, <2>2, <2>5, LineAdded, OffersDecision
    <2>7. a \in state.approvals
      BY <2>6 DEF Snapshot
    <2>8. pc'[u] = "consume"
      BY <1>1, <2>1, <2>5, <2>7 DEF Goto, AfterAllow
    <2>9. QED
      BY <2>8
  <1>3. CASE SubmitConsumes(u)
    <2>1. pc[u] = "consume" /\ Appends(u) /\ call' = call
      BY <1>3 DEF SubmitConsumes
    <2>2. Writes(u)
      BY <2>1, AppendsWrites DEF Appends
    <2>3. /\ EventOf(u).kind = "approval_consumed" /\ EventOf(u).act = call[u].act
          /\ call[u].act = a /\ a \in Acts
      <3>1. EventOf(u) = [kind |-> "approval_consumed", seq |-> records, act |-> call[u].act]
        BY <2>1 DEF EventOf
      <3>2. call[u].act \in Acts
        BY <1>1, <2>1 DEF CallOk
      <3>3. QED
        BY <2>1, <3>1, <3>2
    <2>4. Cardinality(PaidByApproval(a)) <= Cardinality(Takes(a))
      BY <2>3 DEF Approvals, ApprovalsBalance
    <2>5. /\ Cardinality(Takes(a)') = Cardinality(Takes(a)) + 1
          /\ PaidByApproval(a)' = PaidByApproval(a)
          /\ Cardinality(Takes(a)) \in Nat /\ Cardinality(PaidByApproval(a)) \in Nat
      BY <2>2, <2>3, CountsMove
    <2>6. QED
      BY <2>4, <2>5
  <1>4. CASE pc'[u] = pc[u] /\ call'[u] = call[u] /\ Quiet
    <2>1. Cardinality(PaidByApproval(a)) < Cardinality(Takes(a))
      BY <1>4 DEF Quiet, Approvals, HasTaken
    <2>2. Takes(a)' = Takes(a) /\ PaidByApproval(a)' = PaidByApproval(a)
      BY <1>4 DEF Quiet, Takes, PaidByApproval
    <2>3. QED
      BY <2>1, <2>2
  <1>5. QED
    BY <1>2, <1>3, <1>4, HoldingMoves DEF Holding

LEMMA ApprovalsKeep ==
  ASSUME IInv, Lives, Approvals, [Next]_vars
  PROVE  Approvals'
  <1>1. CASE UNCHANGED vars
    BY <1>1 DEF vars, Approvals, ApprovalsBalance, HasTaken, Takes, Grants, PaidByApproval
  <1>2. CASE Next
    <2>1. ASSUME NEW a \in Acts PROVE Balanced(a)'
      <3>1. CASE Quiet
        BY <3>1 DEF Quiet, Approvals, ApprovalsBalance, Balanced, Takes, Grants, PaidByApproval
      <3>2. CASE \E t \in Threads : Writes(t)
        BY <3>2, BalanceKeeps
      <3>3. QED
        BY <1>2, <3>1, <3>2, LogMoves
    <2>2. ASSUME NEW u \in Threads PROVE HasTaken(u)'
      BY <1>2, TakenKeeps DEF HasTaken, PaidByApproval, Takes
    <2>3. QED
      BY <2>1, <2>2 DEF Approvals, ApprovalsBalance, Balanced
  <1>3. QED
    BY <1>1, <1>2

----------------------------------------------------------------------------
(* Decisions that wait for a human.                                        *)

\* An approval that is there was granted after every decision that asked for
\* one: what asks had none, and what is granted afterwards is a later line.
LEMMA WaitingKeeps ==
  ASSUME IInv, WaitingInFile, [Next]_vars
  PROVE  WaitingInFile'
  <1> DEFINE Waits(lines, i, a) ==
        /\ i \in 1 .. Len(lines) /\ lines[i].kind = "decided"
        /\ lines[i].verdict = "REQUIRE_APPROVAL" /\ lines[i].act = a
      Granted(lines, i, a) ==
        \E j \in i + 1 .. Len(lines) :
          lines[j].kind = "approval_granted" /\ lines[j].act = a
  <1>1. log \in Seq(Event) /\ log' \in Seq(Event) /\ Len(log) \in Nat
    BY Inductive DEF IInv, TypeOK
  <1>2. \A i, a : Waits(log, i, a) /\ a \in durable.approvals => Granted(log, i, a)
    BY <1>1 DEF WaitingInFile, Decisions
  <1>3. SUFFICES \A i, a : Waits(log', i, a) /\ a \in durable'.approvals => Granted(log', i, a)
    <2>1. DOMAIN log' = 1 .. Len(log')
      BY <1>1
    <2>2. QED
      BY <2>1 DEF WaitingInFile, Decisions
  <1>4. CASE UNCHANGED vars \/ Quiet
    BY <1>2, <1>4 DEF vars, Quiet
  <1>5. ASSUME NEW t \in Threads, Writes(t)
        PROVE  \A i, a : Waits(log', i, a) /\ a \in durable'.approvals => Granted(log', i, a)
    <2> DEFINE e == EventOf(t)
               n == Len(log) + 1
    <2>1. /\ log'[n] = e /\ Len(log') = n
          /\ \A i \in 1 .. Len(log) : log'[i] = log[i]
      BY <1>5, LineAdded
    <2>2. /\ WellFormed(durable) /\ e \in Event /\ Accepts(durable, e)
          /\ durable' = Apply(durable, e) /\ state = durable
      BY <1>5 DEF Writes, IInv
    <2>3. /\ e.kind = "approval_granted" => durable'.approvals = durable.approvals \cup {e.act}
          /\ e.kind # "approval_granted" => durable'.approvals \subseteq durable.approvals
      BY <2>2, ApplyApprovals
    <2>4. ASSUME NEW a, Waits(log', n, a) PROVE a \notin durable'.approvals
      <3>1. /\ e.kind = "decided" /\ e.act = a /\ e.verdict = "REQUIRE_APPROVAL"
        BY <2>1, <2>4
      <3>2. pc[t] = "submit"
        BY <1>5, <3>1, OfferedAt DEF Writes
      <3>3. /\ a = call[t].act
            /\ Verdict(a, Snapshot(state, call[t].facts)) = "REQUIRE_APPROVAL"
        BY <3>1, <3>2, OffersDecision DEF Decision
      <3>4. a \notin Snapshot(state, call[t].facts).approvals
        BY <3>3 DEF Verdict
      <3>5. a \notin durable.approvals
        BY <2>2, <3>4 DEF Snapshot
      <3>6. QED
        BY <2>3, <3>1, <3>5
    <2> HIDE DEF e
    <2>5. ASSUME NEW i \in 1 .. Len(log), NEW a, Waits(log', i, a), a \in durable'.approvals
          PROVE  Granted(log', i, a)
      <3>1. Waits(log, i, a)
        BY <2>1, <2>5
      <3>2. CASE a \in durable.approvals
        <4>1. PICK j \in i + 1 .. Len(log) : log[j].kind = "approval_granted" /\ log[j].act = a
          BY <1>2, <3>1, <3>2
        <4>2. j \in 1 .. Len(log) /\ j \in i + 1 .. Len(log')
          BY <1>1, <2>1, <4>1
        <4>3. QED
          BY <2>1, <4>1, <4>2
      <3>3. CASE a \notin durable.approvals
        <4>1. e.kind = "approval_granted" /\ e.act = a
          BY <2>3, <2>5, <3>3
        <4>2. n \in i + 1 .. Len(log')
          BY <1>1, <2>1, <2>5
        <4>3. QED
          BY <2>1, <4>1, <4>2
      <3>4. QED
        BY <3>2, <3>3
    <2>6. \A i \in 1 .. Len(log') : i \in 1 .. Len(log) \/ i = n
      BY <1>1, <2>1
    <2>7. QED
      BY <2>4, <2>5, <2>6
  <1>6. QED
    BY <1>4, <1>5, LogMoves

----------------------------------------------------------------------------
(* The sweep.                                                              *)

ClockRead == \A t \in Threads : ReadClock(t)

LEMMA ClockKeeps ==
  ASSUME IInv, ClockRead, [Next]_vars
  PROVE  ClockRead'
  <1>1. /\ pc \in [Threads -> PCs] /\ call \in [Threads -> Call] /\ now \in Nat
        /\ \A t \in Threads : call[t] \in Call
    BY DEF IInv, TypeOK
  <1>2. \A t \in Threads : call[t].at \in Nat
    BY <1>1 DEF Call
  <1>3. now' \in Nat /\ now <= now'
    <2>1. now' = now \/ now' = now + 1
      BY DEF vars, Next, Crash, Tick, WriteFails, Calls, Submit, Approve, Execute, Settle, Sweep,
         Begin, Steps, Open, AppendOpened, SubmitDecides, SubmitConsumes,
         SubmitReserves, AppendGranted, RedeemRefused, Redeem, Run, ExecuteSettles,
         SettleCloses, SweepLocks, SweepReleases, SweepEnds, AppendRefused
    <2>2. QED
      BY <1>1, <2>1
  <1>4. ASSUME NEW u \in Threads, pc'[u] \in {"sweep", "sweeping"}
        PROVE  \/ pc[u] \in {"sweep", "sweeping"} /\ call'[u] = call[u]
               \/ call'[u].at = now
    <2>1. CASE UNCHANGED vars \/ Tick
      BY <1>4, <2>1 DEF vars, Tick
    <2>2. CASE Crash
      BY <1>4, <2>2 DEF Crash
    <2>3. ASSUME NEW t \in Threads, t # u, Calls(t) \/ Steps(t) \/ WriteFails(t)
          PROVE  pc'[u] = pc[u] /\ call'[u] = call[u]
      BY <2>3, OneMoves DEF Moves
    <2>4. CASE Calls(u)
      <3>1. CASE Sweep(u)
        BY <1>1, <3>1 DEF Sweep, Begin, NoCall
      <3>2. CASE ~Sweep(u)
        BY <1>1, <1>4, <2>4, <3>2 DEF Calls, Submit, Approve, Execute, Settle, Begin, Goto
      <3>3. QED
        BY <3>1, <3>2
    <2>5. CASE WriteFails(u)
      BY <1>1, <1>4, <2>5 DEF WriteFails, Return, Goto
    <2>6. CASE Steps(u)
      BY <1>1, <1>4, <2>6 DEF Steps, Open, AppendOpened, AfterOpen, AfterAllow,
         SubmitDecides, SubmitConsumes, SubmitReserves, AppendGranted,
         RedeemRefused, Redeem, Run, ExecuteSettles, SettleCloses, SweepLocks,
         SweepReleases, SweepEnds, AppendRefused, Return, Goto
    <2>7. QED
      BY <1>4, <2>1, <2>2, <2>3, <2>4, <2>5, <2>6 DEF Next
  <1>5. ASSUME NEW u \in Threads, pc'[u] \in {"sweep", "sweeping"}
        PROVE  call'[u].at <= now'
    <2>1. CASE pc[u] \in {"sweep", "sweeping"} /\ call'[u] = call[u]
      <3>1. call[u].at <= now /\ call[u].at \in Nat
        BY <1>2, <2>1 DEF ClockRead, ReadClock
      <3>2. QED
        BY <1>1, <1>3, <2>1, <3>1
    <2>2. CASE call'[u].at = now
      BY <1>3, <2>2
    <2>3. QED
      BY <1>4, <1>5, <2>1, <2>2
  <1>6. QED
    BY <1>5 DEF ClockRead, ReadClock

\* A set of naturals that is not empty has a least element.
LEMMA Least ==
  ASSUME NEW S \in SUBSET Nat, S # {}
  PROVE  \E m \in S : \A n \in S : m <= n
  <1>1. PICK m \in S : \A n \in S : ~(<<n, m>> \in OpToRel(<, Nat))
    BY NatLessThanWellFounded, WFMin, Zenon
  <1>2. \A n \in S : ~(n < m)
    BY <1>1 DEF OpToRel
  <1>3. QED
    BY <1>2

\* The reservation a sweep takes next is one it found expired.
LEMMA SweepTakesExpired ==
  ASSUME IInv, NEW t \in Threads, Expired(t) # {}
  PROVE  NextExpired(t) \in Expired(t)
  <1>1. Expired(t) \subseteq Reservation
    BY DEF IInv, TypeOK, LedgerState, Expired
  <1>2. {r.reservation : r \in Expired(t)} \in SUBSET Nat
    BY <1>1 DEF Reservation
  <1>3. \E r \in Expired(t) : \A q \in Expired(t) : r.reservation <= q.reservation
    <2>1. {r.reservation : r \in Expired(t)} # {}
      OBVIOUS
    <2>2. PICK m \in {r.reservation : r \in Expired(t)} :
                 \A n \in {r.reservation : r \in Expired(t)} : m <= n
      BY <1>2, <2>1, Least
    <2>3. QED
      BY <2>2
  <1>4. QED
    BY <1>3 DEF NextExpired

\* What leaves the file while thread t sweeps with the lock is what t has taken:
\* nobody else can write.
LEMMA SweepIsAlone ==
  ASSUME IInv, Next, NEW t \in Threads, pc[t] = "sweeping", lock = t,
         durable' # durable
  PROVE  Writes(t)
  <1>1. PICK u \in Threads : Writes(u)
    BY LogMoves DEF Quiet
  <1>2. MayLock(u)
    BY <1>1 DEF Writes, AtAppend
  <1>3. u = t
    BY <1>2, GateAssumption DEF MayLock
  <1>4. QED
    BY <1>1, <1>3

\* A token whose reservation a sweep takes is one verify() refuses by then: its
\* clock was read earlier, and it expired strictly before.
LEMMA SweepSpares ==
  ASSUME IInv, ClockRead, Next, NEW t \in Threads, pc[t] = "sweeping", lock = t,
         NEW r \in durable.reserved \ durable'.reserved
  PROVE  r.expires < now
  <1>1. Writes(t)
    BY SweepIsAlone
  <1> DEFINE k == NextExpired(t)
  <1>2. k \in Expired(t)
    BY <1>1, SweepTakesExpired DEF Writes, AtAppend
  <1>3. /\ WellFormed(durable) /\ EventOf(t) \in Event /\ Accepts(durable, EventOf(t))
        /\ durable' = Apply(durable, EventOf(t)) /\ state = durable
    BY <1>1 DEF Writes, IInv
  <1>4. EventOf(t).kind = "settled" /\ EventOf(t).reservation = k.reservation
    BY DEF EventOf, Settled
  <1>5. durable'.reserved = durable.reserved \ Reserved(durable, k.reservation)
    BY <1>3, <1>4, ApplyReserved
  <1>6. r \in durable.reserved /\ r.reservation = k.reservation
    BY <1>5 DEF Reserved
  <1>7. k \in durable.reserved /\ k.expires < call[t].at
    BY <1>2, <1>3 DEF Expired
  <1>8. r = k
    BY <1>3, <1>6, <1>7 DEF WellFormed
  <1>9. /\ k.expires \in Nat /\ call[t].at \in Nat /\ now \in Nat
        /\ call[t].at <= now
    <2>1. /\ durable.reserved \subseteq Reservation /\ call[t] \in Call /\ now \in Nat
      BY DEF IInv, TypeOK, LedgerState
    <2>2. call[t].at <= now
      BY DEF ClockRead, ReadClock
    <2>3. QED
      BY <1>7, <2>1, <2>2 DEF Reservation, Call
  <1>10. QED
    BY <1>7, <1>8, <1>9

----------------------------------------------------------------------------
(* The theorems.                                                           *)

\* A new session has no lines, and nothing has been given out.
LEMMA LogInit == Init => LogInv
  <1> SUFFICES ASSUME Init PROVE LogInv
    OBVIOUS
  <1>1. /\ durable = InitialState /\ log = <<>> /\ tokens = {} /\ returned = {}
        /\ pc = [t \in Threads |-> "idle"]
    BY DEF Init
  <1>2. durable.reserved = {} /\ durable.approvals = {}
    BY <1>1 DEF InitialState
  <1>3. 1 .. Len(log) = {} /\ DOMAIN log = {}
    BY <1>1
  <1>4. OneLife /\ OpenIsUnsettled /\ TokensAreDurable /\ ReturnedIsCommitted
    BY <1>1, <1>2, <1>3 DEF OneLife, OpenIsUnsettled, TokensAreDurable, ReturnedIsCommitted
  <1>5. ApprovalsBalance
    <2>1. \A a \in Acts : PaidByApproval(a) = {} /\ Takes(a) = {} /\ Grants(a) = {}
      BY <1>3 DEF PaidByApproval, Takes, Grants
    <2>2. Cardinality({}) = 0
      BY FS_EmptySet
    <2>3. QED
      BY <1>2, <2>1, <2>2 DEF ApprovalsBalance
  <1>6. WaitingInFile
    BY <1>3 DEF WaitingInFile, Decisions
  <1>7. \A t \in Threads : AllowedOnce(t) /\ HasTaken(t) /\ ReadClock(t)
    BY <1>1 DEF AllowedOnce, HasTaken, ReadClock
  <1>8. QED
    BY <1>1, <1>4, <1>5, <1>6, <1>7 DEF LogInv

\* The invariant of the log holds throughout, beside that of the gate.
THEOREM LogInvariance == Spec => []LogInv
  <1>1. LogInv <=> /\ Lives /\ TokensAreDurable /\ ReturnedStand
                   /\ Approvals /\ WaitingInFile /\ ClockRead
    BY DEF LogInv, Lives, ReturnedStand, Approvals, ClockRead
  <1>2. IInv /\ LogInv /\ [Next]_vars => LogInv'
    <2> SUFFICES ASSUME IInv, LogInv, [Next]_vars PROVE LogInv'
      OBVIOUS
    <2>1. Lives' /\ TokensAreDurable' /\ ReturnedStand'
      BY <1>1, LivesKeep, TokensKeep, ReturnedKeep
    <2>2. Approvals' /\ WaitingInFile' /\ ClockRead'
      BY <1>1, ApprovalsKeep, WaitingKeeps, ClockKeeps
    <2>3. QED
      BY <2>1, <2>2 DEF LogInv, Lives, ReturnedStand, Approvals, ClockRead
  <1>3. QED
    BY <1>2, LogInit, Invariance, PTL DEF Spec

\* A reservation is reserved once, under the ALLOW of its own action, and
\* settled once at most, by whoever comes first (gate.py's submit, execute,
\* settle and sweep).
THEOREM OneLifeHolds == Spec => []OneLife
  <1>1. LogInv => OneLife
    BY DEF LogInv
  <1>2. QED
    BY <1>1, LogInvariance, PTL

\* No token is out whose reservation a restart would not find (gate.py's submit
\* mints it after the append of its reservation has returned).
THEOREM TokensStayDurable == Spec => []TokensAreDurable
  <1>1. LogInv => TokensAreDurable
    BY DEF LogInv
  <1>2. QED
    BY <1>1, LogInvariance, PTL

\* A result that execute() returned is committed on disk, with the labels of
\* the tool that produced it (gate.py's execute and _settle).
THEOREM ReturnedStaysCommitted == Spec => []ReturnedIsCommitted
  <1>1. LogInv => ReturnedIsCommitted
    BY DEF LogInv
  <1>2. QED
    BY <1>1, LogInvariance, PTL

\* An approval pays for one reservation at most: each reservation under an
\* approval has a line that took one, each such line a grant (gate.py's submit).
THEOREM ApprovalPays == Spec => []ApprovalPaysOnce
  <1>1. IInv /\ LogInv => ApprovalPaysOnce
    <2> SUFFICES ASSUME IInv, LogInv, NEW a \in Acts
                 PROVE  Cardinality(PaidByApproval(a)) <= Cardinality(Grants(a))
      BY DEF ApprovalPaysOnce
    <2>1. Len(log) \in Nat
      BY DEF IInv, TypeOK
    <2>2. /\ PaidByApproval(a) \in SUBSET (1 .. Len(log))
          /\ Takes(a) \in SUBSET (1 .. Len(log))
          /\ Grants(a) \in SUBSET (1 .. Len(log))
      BY DEF PaidByApproval, Takes, Grants
    <2>3. /\ Cardinality(PaidByApproval(a)) \in Nat
          /\ Cardinality(Takes(a)) \in Nat
          /\ Cardinality(Grants(a)) \in Nat
      BY <2>1, <2>2, CountLines
    <2>4. /\ Cardinality(PaidByApproval(a)) <= Cardinality(Takes(a))
          /\ Cardinality(Takes(a)) <= Cardinality(Grants(a))
      BY DEF LogInv, ApprovalsBalance
    <2>5. QED
      BY <2>3, <2>4
  <1>2. QED
    BY <1>1, Invariance, LogInvariance, PTL

\* pending() lists every decision that asked for an approval and has had none
\* granted since (gate.py's pending, from the memory and the records).
THEOREM WaitingStaysListed == Spec => []WaitingIsListed
  <1>1. IInv /\ LogInv => WaitingIsListed
    BY DEF IInv, LogInv, WaitingIsListed, WaitingInFile, Pending
  <1>2. QED
    BY <1>1, Invariance, LogInvariance, PTL

\* A sweep takes no reservation whose token still verifies (gate.py's sweep and
\* tokens.py's verify).
THEOREM SweepSparesLive == Spec => SweepSparesLiveTokens
  <1> DEFINE Spared == \A t \in Threads, r \in durable.reserved \ durable'.reserved :
                         pc[t] = "sweeping" /\ lock = t => r.expires < now
  <1>1. IInv /\ LogInv /\ [Next]_vars => [Spared]_vars
    BY SweepSpares DEF LogInv, ClockRead
  <1>2. QED
    BY <1>1, Invariance, LogInvariance, PTL DEF Spec, SweepSparesLiveTokens

----------------------------------------------------------------------------
(* The contract.                                                           *)

\* The contract's own copy of the ledger's operators says the same.
LEMMA SameLedger ==
  /\ Session!Reservation = Reservation
  /\ \A R, c : Session!Held(R, c) = Held(R, c)
  BY DEF Session!Reservation, Session!Deltas, Reservation, Deltas,
         Session!Held, Session!UnitsHeld, Session!Cardinality, Held, UnitsHeld,
         Cardinality

Issued ==
  {log[i].reservation : i \in {j \in 1 .. Len(log) : log[j].kind = "reserved"}}

\* The numbers used are those there were, and that of a new reservation.
LEMMA IssuedGrows ==
  ASSUME IInv, NEW t \in Threads, Writes(t)
  PROVE  /\ EventOf(t).kind = "reserved" =>
              Issued' = Issued \cup {EventOf(t).reservation}
         /\ EventOf(t).kind # "reserved" => Issued' = Issued
  <1> DEFINE Lines == {i \in 1 .. Len(log) : log[i].kind = "reserved"}
             Lines1 == {i \in 1 .. Len(log') : log'[i].kind = "reserved"}
             n == Len(log) + 1
  <1>1. /\ Issued = {log[i].reservation : i \in Lines}
        /\ Issued' = {log'[i].reservation : i \in Lines1}
    BY DEF Issued
  <1>2. /\ log'[n] = EventOf(t)
        /\ \A i \in Lines : log'[i] = log[i]
    BY LineAdded
  <1>3. /\ EventOf(t).kind = "reserved" => Lines1 = Lines \cup {n}
        /\ EventOf(t).kind # "reserved" => Lines1 = Lines
    BY LineAdded
  <1> HIDE DEF Lines, Lines1, n
  <1>4. QED
    BY <1>1, <1>2, <1>3

\* A reservation written is one the contract lets be held: a number never used,
\* the action's cost, room under the cap.
LEMMA HoldsSpend ==
  ASSUME IInv, LogInv, NEW t \in Threads, Writes(t), EventOf(t).kind = "reserved"
  PROVE  Session!ContractNext
  <1> DEFINE e == EventOf(t)
             r == [reservation |-> e.reservation, act |-> e.act,
                   deltas |-> e.deltas, expires |-> e.expires]
             id == call[t].token.reservation
  <1>1. pc[t] = "reserve"
    BY OfferedAt DEF Writes
  <1>2. /\ e.reservation = id /\ e.act = call[t].act /\ e.deltas = Cost[e.act]
    BY <1>1, OffersReservation
  <1>3. /\ WellFormed(durable) /\ e \in Event /\ Accepts(durable, e)
        /\ durable' = Apply(durable, e) /\ state = durable
    BY DEF Writes, IInv
  <1>4. r \in Reservation
    BY <1>3 DEF Event, Reservation
  <1>5. durable'.reserved = durable.reserved \cup {r}
    BY <1>3, ApplyReserved
  <1>6. Reserved(durable, e.reservation) = {}
    BY <1>3 DEF Accepts
  <1>7. r \notin durable.reserved
    BY <1>6 DEF Reserved
  <1>8. e.reservation \notin Issued
    BY <1>1, <1>2 DEF LogInv, AllowedOnce, Places, Issued
  <1>9. /\ durable'.committed = durable.committed
        /\ durable'.labels = durable.labels
        /\ durable'.approvals = durable.approvals
    BY <1>3, ApplyCommitted, ApplyApprovals
  <1>10. Issued' = Issued \cup {e.reservation}
    BY IssuedGrows
  <1>11. ASSUME NEW c \in Counters
         PROVE  \/ r.deltas[c] = 0
                \/ durable.committed[c] + Held(durable.reserved, c) + r.deltas[c] <= Cap[c]
    <2>1. Cost[call[t].act][c] = 0 \/ Used(durable)[c] + Cost[call[t].act][c] <= Cap[c]
      BY <1>1, <1>3 DEF IInv, CallOk, Room
    <2>2. Used(durable)[c] = durable.committed[c] + Held(durable.reserved, c)
      BY <1>3, UsedType
    <2>3. QED
      BY <1>2, <2>1, <2>2
  <1>12. /\ r.reservation = e.reservation /\ r.act = e.act /\ r.deltas = e.deltas
    OBVIOUS
  <1> HIDE DEF e, r, id
  <1>13. PICK q : q = r
    OBVIOUS
  <1>14. Session!HoldSpend(q)
    BY <1>2, <1>4, <1>5, <1>8, <1>9, <1>10, <1>11, <1>12, <1>13, SameLedger
       DEF Session!HoldSpend, Session!Total, Issued
  <1>15. q \in (durable.reserved)' /\ q \notin durable.reserved
    BY <1>5, <1>7, <1>13
  <1>16. QED
    BY <1>14, <1>15 DEF Session!ContractNext

\* A settlement written commits the open reservation's deltas and its tool's
\* labels, or returns them.
LEMMA SettlesSpend ==
  ASSUME IInv, LogInv, NEW t \in Threads, Writes(t), EventOf(t).kind = "settled"
  PROVE  Session!ContractNext
  <1> DEFINE e == EventOf(t)
             r == Entry(durable, e.reservation)
  <1>1. /\ WellFormed(durable) /\ e \in Event /\ Accepts(durable, e)
        /\ durable' = Apply(durable, e) /\ state = durable
    BY DEF Writes, IInv
  <1>2. Reserved(durable, e.reservation) # {}
    BY <1>1 DEF Accepts
  <1>3. /\ r \in durable.reserved /\ r.reservation = e.reservation
        /\ Reserved(durable, e.reservation) = {r}
    BY <1>1, <1>2, EntryIsOpen
  <1>4. durable'.reserved = durable.reserved \ {r}
    BY <1>1, <1>3, ApplyReserved
  <1>5. Issued' = Issued /\ durable'.approvals = durable.approvals
    BY <1>1, IssuedGrows, ApplyApprovals
  <1>6. CASE e.outcome = "committed"
    <2>1. /\ durable'.committed = [c \in Counters |-> durable.committed[c] + r.deltas[c]]
          /\ durable'.labels = durable.labels \cup e.labels
      BY <1>1, <1>6, ApplyCommitted
    <2>2. log[r.reservation + 1].act = r.act
      <3>1. PICK i \in Places("reserved", r.reservation) : log[i].act = r.act
        BY <1>3 DEF LogInv, OpenIsUnsettled
      <3>2. /\ i \in 1 .. Len(log) /\ log[i].kind = "reserved"
            /\ log[i].reservation = r.reservation
        BY <3>1 DEF Places
      <3>3. log[log[i].reservation + 1].act = log[i].act
        BY <3>2 DEF LogInv, OneLife
      <3>4. QED
        BY <3>1, <3>2, <3>3
    <2>3. e.labels = LabelsOf(e.reservation, e.outcome)
      BY DEF EventOf, Settled, Writes, AtAppend, Appending
    <2>4. e.labels = ResultLabels[r.act]
      BY <1>3, <1>6, <2>2, <2>3 DEF LabelsOf
    <2> HIDE DEF e, r
    <2>5. Session!CommitSpend(r)
      BY <1>4, <1>5, <2>1, <2>4 DEF Session!CommitSpend, Issued
    <2>6. QED
      BY <1>3, <2>5 DEF Session!ContractNext
  <1>7. CASE e.outcome = "released"
    <2>1. durable'.committed = durable.committed /\ durable'.labels = durable.labels
      BY <1>1, <1>7, ApplyCommitted
    <2> HIDE DEF e, r
    <2>2. Session!ReturnSpend(r)
      BY <1>4, <1>5, <2>1 DEF Session!ReturnSpend, Issued
    <2>3. QED
      BY <1>3, <2>2 DEF Session!ContractNext
  <1>8. e.outcome \in {"committed", "released"}
    BY <1>1 DEF Event, Outcomes
  <1>9. QED
    BY <1>6, <1>7, <1>8

\* A line about approvals grants or takes one; the others the contract does not
\* see.
LEMMA MovesApprovals ==
  ASSUME IInv, LogInv, NEW t \in Threads, Writes(t),
         EventOf(t).kind \notin {"reserved", "settled"}
  PROVE  Session!ContractNext \/ UNCHANGED Session!contractVars
  <1> DEFINE e == EventOf(t)
  <1>1. /\ WellFormed(durable) /\ e \in Event /\ Accepts(durable, e)
        /\ durable' = Apply(durable, e)
    BY DEF Writes, IInv
  <1>2. /\ durable'.reserved = durable.reserved
        /\ durable'.committed = durable.committed
        /\ durable'.labels = durable.labels
    BY <1>1, ApplyReserved, ApplyCommitted
  <1>3. Issued' = Issued
    BY IssuedGrows
  <1>4. /\ e.kind = "approval_granted" => durable'.approvals = durable.approvals \cup {e.act}
        /\ e.kind = "approval_consumed" => durable'.approvals = durable.approvals \ {e.act}
        /\ e.kind \notin {"approval_granted", "approval_consumed"} =>
             durable'.approvals = durable.approvals
    BY <1>1, ApplyApprovals
  <1>5. CASE e.kind = "approval_granted"
    <2>1. e.act \in Acts
      BY <1>1, <1>5 DEF Event
    <2> HIDE DEF e
    <2>2. Session!Grant(e.act)
      BY <1>2, <1>3, <1>4, <1>5 DEF Session!Grant, Issued
    <2>3. QED
      BY <2>1, <2>2 DEF Session!ContractNext
  <1>6. CASE e.kind = "approval_consumed"
    <2>1. e.act \in Acts /\ e.act \in durable.approvals
      BY <1>1, <1>6 DEF Event, Accepts
    <2> HIDE DEF e
    <2>2. Session!Take(e.act)
      BY <1>2, <1>3, <1>4, <1>6, <2>1 DEF Session!Take, Issued
    <2>3. QED
      BY <2>1, <2>2 DEF Session!ContractNext
  <1>7. CASE e.kind \notin {"approval_granted", "approval_consumed"}
    <2> HIDE DEF e
    <2>1. UNCHANGED Session!contractVars
      BY <1>2, <1>3, <1>4, <1>7 DEF Session!contractVars, Issued
    <2>2. QED
      BY <2>1
  <1>8. QED
    BY <1>5, <1>6, <1>7

\* The gate, whatever its threads, faults and crashes do, takes a session only
\* through steps of the contract.
THEOREM GateImplementsContract == Spec => ImplementsContract
  <1>1. Init => Session!ContractInit
    <2> SUFFICES ASSUME Init PROVE Session!ContractInit
      OBVIOUS
    <2>1. durable = InitialState /\ log = <<>>
      BY DEF Init
    <2>2. Issued = {}
      BY <2>1 DEF Issued
    <2>3. QED
      BY <2>1, <2>2 DEF Session!ContractInit, InitialState, Issued
  <1>2. IInv /\ LogInv /\ [Next]_vars => [Session!ContractNext]_(Session!contractVars)
    <2> SUFFICES ASSUME IInv, LogInv, [Next]_vars
                 PROVE  Session!ContractNext \/ UNCHANGED Session!contractVars
      OBVIOUS
    <2>1. CASE UNCHANGED vars \/ Quiet
      BY <2>1 DEF vars, Quiet, Session!contractVars
    <2>2. ASSUME NEW t \in Threads, Writes(t)
          PROVE  Session!ContractNext \/ UNCHANGED Session!contractVars
      BY <2>2, HoldsSpend, SettlesSpend, MovesApprovals
    <2>3. QED
      BY <2>1, <2>2, LogMoves
  <1>3. QED
    BY <1>1, <1>2, Invariance, LogInvariance, PTL
       DEF Spec, ImplementsContract, Session!ContractSpec

----------------------------------------------------------------------------
(* Replay.                                                                 *)

\* f is the trail of the first n lines: the state before each, and the one they
\* end in.
IsTrail(f, lines, n) ==
  f = [i \in 1 .. n + 1 |->
         IF i = 1 THEN InitialState ELSE Apply(f[i - 1], lines[i - 1])]

LEMMA TrailGrows ==
  ASSUME NEW lines, NEW n \in Nat \ {0}, NEW f, IsTrail(f, lines, n - 1)
  PROVE  \E g : IsTrail(g, lines, n)
  <1> DEFINE g == [i \in 1 .. n + 1 |->
                     IF i = n + 1 THEN Apply(f[n], lines[n]) ELSE f[i]]
  <1>1. f = [i \in 1 .. n |->
               IF i = 1 THEN InitialState ELSE Apply(f[i - 1], lines[i - 1])]
    BY DEF IsTrail
  <1>2. ASSUME NEW i \in 1 .. n + 1
        PROVE  g[i] = IF i = 1 THEN InitialState ELSE Apply(g[i - 1], lines[i - 1])
    <2>1. CASE i = n + 1
      <3>1. g[i] = Apply(f[n], lines[n]) /\ i - 1 = n /\ i # 1
        BY <2>1
      <3>2. n \in 1 .. n + 1 /\ n # n + 1
        OBVIOUS
      <3>3. g[n] = f[n]
        BY <3>2
      <3>4. QED
        BY <3>1, <3>3
    <2>2. CASE i \in 1 .. n
      <3>1. g[i] = f[i] /\ (i # 1 => g[i - 1] = f[i - 1])
        BY <2>2
      <3>2. f[i] = IF i = 1 THEN InitialState ELSE Apply(f[i - 1], lines[i - 1])
        BY <1>1, <2>2
      <3>3. QED
        BY <3>1, <3>2
    <2>3. QED
      BY <2>1, <2>2
  <1>3. IsTrail(g, lines, n)
    BY <1>2, Zenon DEF IsTrail
  <1>4. QED
    BY <1>3

\* Every sequence of records has a trail, and Trail is it.
LEMMA TrailIs ==
  ASSUME NEW lines, Len(lines) \in Nat
  PROVE  IsTrail(Trail(lines), lines, Len(lines))
  <1> DEFINE Short == {n \in Nat : ~ \E f : IsTrail(f, lines, n)}
  <1>1. ASSUME Short # {}
        PROVE  FALSE
    <2>1. Short \in SUBSET Nat
      OBVIOUS
    <2>2. PICK n \in Short : \A m \in Short : n <= m
      <3> HIDE DEF Short
      <3>1. QED
        BY <1>1, <2>1, Least
    <2>3. n \in Nat /\ ~ \E f : IsTrail(f, lines, n)
      OBVIOUS
    <2>4. n # 0
      <3>1. IsTrail([i \in 1 .. 1 |-> InitialState], lines, 0)
        BY DEF IsTrail
      <3>2. QED
        BY <2>3, <3>1
    <2>5. n - 1 \in Nat /\ n - 1 \notin Short
      <3> HIDE DEF Short
      <3>1. QED
        BY <2>2, <2>3, <2>4
    <2>6. \E f : IsTrail(f, lines, n - 1)
      BY <2>5
    <2>7. QED
      BY <2>3, <2>4, <2>6, TrailGrows
  <1>2. \E f : IsTrail(f, lines, Len(lines))
    BY <1>1
  <1>3. Trail(lines) = CHOOSE f : IsTrail(f, lines, Len(lines))
    BY DEF Trail, IsTrail
  <1>4. QED
    BY <1>2, <1>3

\* The trail, place by place.
LEMMA TrailSteps ==
  ASSUME NEW lines, Len(lines) \in Nat
  PROVE  /\ Trail(lines)[1] = InitialState
         /\ \A i \in 1 .. Len(lines) :
              Trail(lines)[i + 1] = Apply(Trail(lines)[i], lines[i])
  <1>1. IsTrail(Trail(lines), lines, Len(lines))
    BY TrailIs
  <1> DEFINE f == Trail(lines)
  <1>2. f = [i \in 1 .. Len(lines) + 1 |->
               IF i = 1 THEN InitialState ELSE Apply(f[i - 1], lines[i - 1])]
    BY <1>1 DEF IsTrail
  <1> HIDE DEF f
  <1>3. f[1] = InitialState
    BY <1>2
  <1>4. ASSUME NEW i \in 1 .. Len(lines)
        PROVE  f[i + 1] = Apply(f[i], lines[i])
    <2>1. i + 1 \in 1 .. Len(lines) + 1 /\ i + 1 # 1 /\ (i + 1) - 1 = i
      OBVIOUS
    <2>2. f[i + 1] = Apply(f[(i + 1) - 1], lines[(i + 1) - 1])
      BY <1>2, <2>1
    <2>3. QED
      BY <2>1, <2>2
  <1>5. QED
    BY <1>3, <1>4 DEF f

\* The state before a record depends on the records before it alone.
LEMMA TrailOfPrefix ==
  ASSUME NEW lines, Len(lines) \in Nat, NEW other, Len(other) \in Nat,
         NEW k \in Nat, k <= Len(lines) + 1, k <= Len(other) + 1,
         \A i \in 1 .. k - 1 : lines[i] = other[i]
  PROVE  \A i \in 1 .. k : Trail(lines)[i] = Trail(other)[i]
  <1> DEFINE Differ == {i \in 1 .. k : Trail(lines)[i] # Trail(other)[i]}
  <1> SUFFICES ASSUME Differ # {} PROVE FALSE
    OBVIOUS
  <1>1. Differ \in SUBSET Nat
    OBVIOUS
  <1>2. PICK i \in Differ : \A j \in Differ : i <= j
    <2> HIDE DEF Differ
    <2>1. QED
      BY <1>1, Least
  <1>3. i \in 1 .. k /\ Trail(lines)[i] # Trail(other)[i]
    OBVIOUS
  <1>4. i # 1
    BY <1>3, TrailSteps
  <1>5. /\ i - 1 \in 1 .. Len(lines) /\ i - 1 \in 1 .. Len(other)
        /\ i - 1 \in 1 .. k - 1
        /\ i - 1 \notin Differ /\ (i - 1) + 1 = i
    BY <1>2, <1>3, <1>4
  <1>6. Trail(lines)[i - 1] = Trail(other)[i - 1] /\ lines[i - 1] = other[i - 1]
    BY <1>5
  <1>7. /\ Trail(lines)[(i - 1) + 1] = Apply(Trail(lines)[i - 1], lines[i - 1])
        /\ Trail(other)[(i - 1) + 1] = Apply(Trail(other)[i - 1], other[i - 1])
    BY <1>5, TrailSteps
  <1>8. QED
    BY <1>3, <1>5, <1>6, <1>7

\* The file folds to what the process had when it wrote it, and every record
\* in it replays on the state of those before.
Followed ==
  /\ durable = Fold(log)
  /\ \A i \in DOMAIN log : Replays(Trail(log)[i], log[i])

\* The event a thread adds replays on the state it was decided in.
LEMMA NewReplays ==
  ASSUME IInv, NEW t \in Threads, Writes(t)
  PROVE  Replays(durable, EventOf(t))
  <1>1. Accepts(durable, EventOf(t))
    BY DEF Writes
  <1>2. ASSUME EventOf(t).kind = "decided"
        PROVE  Exact(durable, EventOf(t))
    <2>1. pc[t] = "submit" /\ state = durable
      BY <1>2, OfferedAt DEF Writes
    <2>2. /\ EventOf(t).act = call[t].act
          /\ EventOf(t).snapshot = Snapshot(durable, call[t].facts)
          /\ EventOf(t).verdict = Verdict(call[t].act, Snapshot(durable, call[t].facts))
      BY <2>1, OffersDecision DEF Decision
    <2>3. Snapshot(durable, call[t].facts).facts = call[t].facts
      BY DEF Snapshot
    <2>4. QED
      BY <2>2, <2>3 DEF Exact
  <1>3. QED
    BY <1>1, <1>2 DEF Replays

LEMMA FollowedKeeps ==
  ASSUME IInv, Followed, [Next]_vars
  PROVE  Followed'
  <1>1. CASE UNCHANGED vars \/ Quiet
    BY <1>1 DEF vars, Quiet, Followed
  <1>2. ASSUME NEW t \in Threads, Writes(t)
        PROVE  Followed'
    <2> DEFINE e == EventOf(t)
               n == Len(log)
    <2>1. /\ n \in Nat /\ Len(log') = n + 1
          /\ log' \in Seq(Event)
          /\ log'[n + 1] = e
          /\ \A i \in 1 .. n : log'[i] = log[i]
      BY <1>2, LineAdded
    <2>2. PICK old : old = log
      OBVIOUS
    <2>3. PICK new : new = log'
      OBVIOUS
    <2>4. \A i \in 1 .. n + 1 : Trail(old)[i] = Trail(new)[i]
      BY <2>1, <2>2, <2>3, TrailOfPrefix
    <2>5. Trail(new)[n + 2] = Apply(Trail(new)[n + 1], e)
      <3>1. n + 1 \in 1 .. Len(new) /\ Len(new) \in Nat /\ (n + 1) + 1 = n + 2
        BY <2>1, <2>3
      <3>2. Trail(new)[(n + 1) + 1] = Apply(Trail(new)[n + 1], new[n + 1])
        BY <3>1, TrailSteps
      <3>3. QED
        BY <2>1, <2>3, <3>1, <3>2
    <2>6. durable = Trail(old)[n + 1] /\ durable' = Apply(durable, e)
      BY <1>2, <2>2 DEF Followed, Fold, Writes
    <2>7. durable' = Fold(new)
      <3>1. Trail(old)[n + 1] = Trail(new)[n + 1]
        BY <2>1, <2>4
      <3>2. Fold(new) = Trail(new)[n + 2]
        BY <2>1, <2>3 DEF Fold
      <3>3. QED
        BY <2>5, <2>6, <3>1, <3>2
    <2>8. ASSUME NEW i \in DOMAIN new
          PROVE  Replays(Trail(new)[i], new[i])
      <3>1. i \in 1 .. n + 1
        BY <2>1, <2>3
      <3>2. CASE i = n + 1
        BY <1>2, <2>1, <2>3, <2>4, <2>6, <3>1, <3>2, NewReplays
      <3>3. CASE i \in 1 .. n
        <4>1. i \in DOMAIN log /\ new[i] = log[i]
          BY <2>1, <2>3, <3>3 DEF IInv, TypeOK
        <4>2. Replays(Trail(log)[i], log[i])
          BY <4>1 DEF Followed
        <4>3. QED
          BY <2>2, <2>4, <3>1, <4>1, <4>2
      <3>4. QED
        BY <2>1, <3>1, <3>2, <3>3
    <2>9. QED
      BY <2>3, <2>7, <2>8 DEF Followed
  <1>3. QED
    BY <1>1, <1>2, LogMoves

LEMMA FollowedInit == Init => Followed
  <1> SUFFICES ASSUME Init PROVE Followed
    OBVIOUS
  <1>1. log = <<>> /\ durable = InitialState
    BY DEF Init
  <1>2. Len(log) = 0 /\ DOMAIN log = {}
    BY <1>1
  <1>3. Trail(log)[1] = InitialState
    BY <1>2, TrailSteps
  <1>4. QED
    BY <1>1, <1>2, <1>3 DEF Followed, Fold

LEMMA FollowedThroughout == Spec => []Followed
  <1>1. QED
    BY FollowedInit, FollowedKeeps, Invariance, PTL DEF Spec

\* What the file folds to is what the process believes, unless a write has
\* failed (session.py's append and load, core/ledger.py's fold).
THEOREM MemoryIsTheFold == Spec => []StateIsFold
  <1>1. IInv /\ Followed => StateIsFold
    BY DEF IInv, Followed, StateIsFold
  <1>2. QED
    BY <1>1, Invariance, FollowedThroughout, PTL

\* A session replays exactly (shell/replay.py on what shell/gate.py wrote).
THEOREM SessionsReplay == Spec => []AlwaysReplays
  <1>1. Followed => AlwaysReplays
    BY DEF Followed, AlwaysReplays, ReplayOk
  <1>2. QED
    BY <1>1, FollowedThroughout, PTL

\* A record left out: one fewer, and the last still the last.
LEMMA LeftOut ==
  ASSUME NEW lines \in Seq(Event), NEW i \in 1 .. Len(lines) - 1
  PROVE  LET rest == RemoveAt(lines, i) IN
         /\ rest \in Seq(Event)
         /\ Len(rest) = Len(lines) - 1
         /\ rest[Len(lines) - 1] = lines[Len(lines)]
  <1> DEFINE n == Len(lines)
             before == SubSeq(lines, 1, i - 1)
             after == SubSeq(lines, i + 1, n)
  <1>1. n \in Nat /\ i \in Nat /\ 1 <= i /\ i <= n - 1
    OBVIOUS
  <1>2. before \in Seq(Event) /\ Len(before) = i - 1
    BY <1>1
  <1>3. /\ after \in Seq(Event) /\ Len(after) = n - i
        /\ after[n - i] = lines[n]
    BY <1>1
  <1> HIDE DEF before, after
  <1>4. before \o after \in Seq(Event) /\ Len(before \o after) = n - 1
    <2>1. /\ before \o after \in Seq(Event)
          /\ Len(before \o after) = Len(before) + Len(after)
      BY <1>2, <1>3, ConcatProperties
    <2>2. QED
      BY <1>1, <1>2, <1>3, <2>1
  <1>5. (before \o after)[n - 1] = after[(n - 1) - (i - 1)]
    BY <1>1, <1>2, <1>3
  <1>6. QED
    BY <1>1, <1>3, <1>4, <1>5 DEF RemoveAt, before, after

\* Numbering a chain again changes its numbers alone.
LEMMA SealedAgain ==
  ASSUME NEW lines \in Seq(Event)
  PROVE  /\ DOMAIN Resealed(lines) = 1 .. Len(lines)
         /\ Len(Resealed(lines)) = Len(lines)
         /\ \A i \in 1 .. Len(lines) :
              Resealed(lines)[i] = [lines[i] EXCEPT !.seq = i - 1]
  <1> DEFINE sealed == [i \in 1 .. Len(lines) |-> [lines[i] EXCEPT !.seq = i - 1]]
             S == {[lines[i] EXCEPT !.seq = i - 1] : i \in 1 .. Len(lines)}
  <1>1. DOMAIN lines = 1 .. Len(lines) /\ Len(lines) \in Nat
    OBVIOUS
  <1>2. Resealed(lines) = sealed
    BY <1>1 DEF Resealed
  <1>3. sealed \in [1 .. Len(lines) -> S]
    OBVIOUS
  <1>4. sealed \in Seq(S)
    <2> HIDE DEF sealed, S
    <2>1. QED
      BY <1>1, <1>3, SeqDef
  <1>5. DOMAIN sealed = 1 .. Len(sealed) /\ Len(sealed) \in Nat
    <2> HIDE DEF sealed, S
    <2>1. QED
      BY <1>4, LenProperties
  <1>6. Len(sealed) = Len(lines)
    BY <1>1, <1>5
  <1>7. QED
    BY <1>1, <1>2, <1>6

\* A decision names the number of events before it twice: as its own number,
\* and as that of the snapshot it was taken on.
LEMMA NumberedTwice ==
  ASSUME NEW s, NEW e, e.kind = "decided", Replays(s, e)
  PROVE  e.seq = s.seq /\ e.snapshot.seq = s.seq
  BY DEF Replays, Accepts, InSequence, Exact, Snapshot

\* So a record left out shows, however the rest is numbered.
LEMMA RemovalShows ==
  ASSUME NEW lines \in Seq(Event), NEW n \in Nat, Len(lines) = n + 1,
         lines[n + 1].kind = "decided", lines[n + 1].snapshot.seq = n,
         NEW i \in 1 .. n
  PROVE  ~ReplayOk(Resealed(RemoveAt(lines, i)))
  <1> SUFFICES ASSUME ReplayOk(Resealed(RemoveAt(lines, i))) PROVE FALSE
    OBVIOUS
  <1> DEFINE rest == RemoveAt(lines, i)
             last == lines[n + 1]
  <1>1. rest \in Seq(Event) /\ Len(rest) = n /\ rest[n] = last
    BY LeftOut
  <1>2. n \in 1 .. n
    OBVIOUS
  <1>3. /\ n \in DOMAIN Resealed(rest)
        /\ Resealed(rest)[n] = [last EXCEPT !.seq = n - 1]
    <2> HIDE DEF rest
    <2>1. /\ DOMAIN Resealed(rest) = 1 .. n
          /\ \A j \in 1 .. n : Resealed(rest)[j] = [rest[j] EXCEPT !.seq = j - 1]
      BY <1>1, SealedAgain
    <2>2. QED
      BY <1>1, <1>2, <2>1
  <1>4. Replays(Trail(Resealed(rest))[n], Resealed(rest)[n])
    BY <1>3 DEF ReplayOk
  <1>5. last \in Event
    BY <1>1, <1>2
  <1>6. last \in [kind : {"decided"}, seq : Nat, act : Acts,
                  snapshot : SnapshotType, verdict : Verdicts]
    BY <1>5 DEF Event
  <1> DEFINE e == [last EXCEPT !.seq = n - 1]
  <1>7. e.kind = "decided" /\ e.seq = n - 1 /\ e.snapshot.seq = n
    BY <1>6
  <1> HIDE DEF e, last, rest
  <1>8. e.seq = e.snapshot.seq
    <2>1. Replays(Trail(Resealed(rest))[n], e)
      BY <1>3, <1>4 DEF e
    <2>2. QED
      BY <1>7, <2>1, NumberedTwice
  <1>9. QED
    BY <1>7, <1>8

\* The states of records that are accepted where they stand.
LEMMA TrailWellFormed ==
  ASSUME NEW lines \in Seq(Event),
         \A i \in 1 .. Len(lines) : Accepts(Trail(lines)[i], lines[i])
  PROVE  \A i \in 1 .. Len(lines) + 1 : WellFormed(Trail(lines)[i])
  <1> DEFINE Ill == {i \in 1 .. Len(lines) + 1 : ~WellFormed(Trail(lines)[i])}
  <1> SUFFICES ASSUME Ill # {} PROVE FALSE
    OBVIOUS
  <1>1. Ill \in SUBSET Nat /\ Len(lines) \in Nat
    OBVIOUS
  <1>2. PICK i \in Ill : \A j \in Ill : i <= j
    <2> HIDE DEF Ill
    <2>1. QED
      BY <1>1, Least
  <1>3. i \in 1 .. Len(lines) + 1 /\ ~WellFormed(Trail(lines)[i])
    OBVIOUS
  <1>4. i # 1
    BY <1>1, <1>3, TrailSteps, InitialWellFormed
  <1>5. i - 1 \in 1 .. Len(lines) /\ (i - 1) + 1 = i /\ i - 1 \notin Ill
    BY <1>1, <1>2, <1>3, <1>4
  <1>6. /\ WellFormed(Trail(lines)[i - 1])
        /\ Accepts(Trail(lines)[i - 1], lines[i - 1])
        /\ lines[i - 1] \in Event
    BY <1>1, <1>5
  <1>7. Trail(lines)[i] = Apply(Trail(lines)[i - 1], lines[i - 1])
    BY <1>1, <1>5, TrailSteps
  <1>8. QED
    BY <1>3, <1>6, <1>7, ApplyWellFormed

\* Two states with the same reservations open, one of which has committed d more
\* of counter c: an event both accept keeps them apart by as much.
Apart(s, u, c, d) ==
  s.reserved = u.reserved /\ s.committed[c] = u.committed[c] + d

LEMMA StayApart ==
  ASSUME NEW s, WellFormed(s), NEW u, WellFormed(u), NEW e \in Event,
         Accepts(s, e), Accepts(u, e),
         NEW c \in Counters, NEW d \in Nat, Apart(s, u, c, d)
  PROVE  Apart(Apply(s, e), Apply(u, e), c, d)
  <1>1. Apply(s, e).reserved = Apply(u, e).reserved
    <2>1. Reserved(s, e.reservation) = Reserved(u, e.reservation)
      BY DEF Apart, Reserved
    <2>2. CASE e.kind = "reserved"
      <3> DEFINE r == [reservation |-> e.reservation, act |-> e.act,
                       deltas |-> e.deltas, expires |-> e.expires]
      <3>1. /\ Apply(s, e).reserved = s.reserved \cup {r}
            /\ Apply(u, e).reserved = u.reserved \cup {r}
        BY <2>2, ApplyReserved
      <3> HIDE DEF r
      <3>2. QED
        BY <3>1 DEF Apart
    <2>3. CASE e.kind = "settled"
      <3>1. /\ Apply(s, e).reserved = s.reserved \ Reserved(s, e.reservation)
            /\ Apply(u, e).reserved = u.reserved \ Reserved(u, e.reservation)
        BY <2>3, ApplyReserved
      <3>2. QED
        BY <2>1, <3>1 DEF Apart
    <2>4. CASE e.kind \notin {"reserved", "settled"}
      BY <2>4, ApplyReserved DEF Apart
    <2>5. QED
      BY <2>2, <2>3, <2>4
  <1>2. /\ s.committed \in Deltas /\ u.committed \in Deltas
        /\ s.committed[c] \in Nat /\ u.committed[c] \in Nat
    BY DEF WellFormed, LedgerState, Deltas
  <1>3. CASE e.kind = "settled" /\ e.outcome = "committed"
    <2>1. /\ Apply(s, e).committed[c] = s.committed[c] + Entry(s, e.reservation).deltas[c]
          /\ Apply(u, e).committed[c] = u.committed[c] + Entry(u, e.reservation).deltas[c]
      <3>1. Apply(s, e).committed
              = [k \in Counters |-> s.committed[k] + Entry(s, e.reservation).deltas[k]]
        BY <1>3, ApplyCommitted
      <3>2. Apply(u, e).committed
              = [k \in Counters |-> u.committed[k] + Entry(u, e.reservation).deltas[k]]
        BY <1>3, ApplyCommitted
      <3>3. QED
        BY <3>1, <3>2
    <2>2. Entry(s, e.reservation) = Entry(u, e.reservation)
      BY DEF Entry, Apart
    <2>3. Entry(s, e.reservation).deltas[c] \in Nat
      <3>1. Reserved(s, e.reservation) # {}
        BY <1>3 DEF Accepts
      <3>2. Entry(s, e.reservation) \in Reservation
        BY <3>1, EntryIsOpen DEF WellFormed, LedgerState
      <3>3. QED
        BY <3>2 DEF Reservation, Deltas
    <2>4. QED
      BY <1>1, <1>2, <2>1, <2>2, <2>3 DEF Apart
  <1>4. CASE ~(e.kind = "settled" /\ e.outcome = "committed")
    <2>1. Apply(s, e).committed = s.committed /\ Apply(u, e).committed = u.committed
      BY <1>4, ApplyCommitted
    <2>2. QED
      BY <1>1, <2>1 DEF Apart
  <1>5. QED
    BY <1>3, <1>4

\* A commitment turned into a release leaves the counters lower ever after, so
\* the snapshot of the next decision is not the one it recorded.
LEMMA ReversalShows ==
  ASSUME NEW lines \in Seq(Event), NEW n \in Nat, Len(lines) = n + 1,
         \A i \in DOMAIN lines : Replays(Trail(lines)[i], lines[i]),
         lines[n + 1].kind = "decided",
         NEW i \in 1 .. n, CommitsSpend(lines, i)
  PROVE  ~ReplayOk(Reversed(lines, i))
  <1> SUFFICES ASSUME ReplayOk(Reversed(lines, i)) PROVE FALSE
    OBVIOUS
  <1> DEFINE turned == [lines[i] EXCEPT !.outcome = "released", !.labels = {}]
             other == Reversed(lines, i)
             T == Trail(lines)
             U == Trail(other)
             r == Entry(T[i], lines[i].reservation)
  <1>1. i \in 1 .. Len(lines) /\ lines[i] \in Event /\ DOMAIN lines = 1 .. n + 1
    OBVIOUS
  <1>2. lines[i].kind = "settled" /\ lines[i].outcome = "committed"
    BY DEF CommitsSpend
  <1>3. lines[i] \in [kind : {"settled"}, seq : Nat, reservation : Nat,
                      outcome : Outcomes, labels : SUBSET Labels]
    BY <1>1, <1>2 DEF Event
  <1>4. /\ turned \in Event /\ turned.kind = "settled"
        /\ turned.outcome = "released" /\ turned.reservation = lines[i].reservation
    BY <1>3 DEF Event, Outcomes
  <1>5. other = [lines EXCEPT ![i] = turned]
    BY DEF Reversed
  <1>6. /\ other \in Seq(Event) /\ Len(other) = n + 1
        /\ \A j \in 1 .. n + 1 : other[j] = IF j = i THEN turned ELSE lines[j]
    <2> HIDE DEF turned, other
    <2>1. QED
      BY <1>1, <1>4, <1>5, ExceptSeq
  <1> HIDE DEF turned, other
  <1>7. \A j \in 1 .. n + 1 : Replays(U[j], other[j])
    <2>1. DOMAIN other = 1 .. n + 1
      BY <1>6
    <2>2. QED
      BY <2>1 DEF ReplayOk, other
  <1>8. \A j \in 1 .. n + 1 : Accepts(T[j], lines[j]) /\ Accepts(U[j], other[j])
    BY <1>1, <1>7 DEF Replays
  <1>9. \A j \in 1 .. n + 1 : WellFormed(T[j]) /\ WellFormed(U[j])
    BY <1>6, <1>8, TrailWellFormed
  <1>10. \A j \in 1 .. n : T[j + 1] = Apply(T[j], lines[j])
                          /\ U[j + 1] = Apply(U[j], other[j])
    <2>1. Len(lines) \in Nat /\ Len(other) \in Nat
      BY <1>6
    <2>2. /\ \A j \in 1 .. Len(lines) : T[j + 1] = Apply(T[j], lines[j])
          /\ \A j \in 1 .. Len(other) : U[j + 1] = Apply(U[j], other[j])
      BY <2>1, TrailSteps
    <2> HIDE DEF T, U
    <2>3. QED
      BY <1>6, <2>2
  <1>11. T[i] = U[i]
    <2>1. \A j \in 1 .. i - 1 : lines[j] = other[j]
      BY <1>6
    <2>2. /\ Len(lines) \in Nat /\ Len(other) \in Nat /\ i \in Nat
          /\ i <= Len(lines) + 1 /\ i <= Len(other) + 1 /\ i \in 1 .. i
      BY <1>6
    <2>3. \A j \in 1 .. i : Trail(lines)[j] = Trail(other)[j]
      BY <2>1, <2>2, TrailOfPrefix
    <2>4. QED
      BY <2>2, <2>3
  <1>12. PICK c \in Counters : r.deltas[c] > 0
    BY DEF CommitsSpend
  <1>13. r \in Reservation /\ r.deltas[c] \in Nat
    <2>1. Reserved(T[i], lines[i].reservation) # {}
      BY <1>1, <1>2, <1>8 DEF Accepts
    <2>2. WellFormed(T[i])
      BY <1>1, <1>9
    <2>3. r \in Reservation
      BY <2>1, <2>2, EntryIsOpen DEF WellFormed, LedgerState
    <2>4. QED
      BY <2>3 DEF Reservation, Deltas
  <1>14. PICK d \in Nat : d = r.deltas[c]
    BY <1>13
  <1>15. Apart(T[i + 1], U[i + 1], c, d)
    <2>1. /\ WellFormed(T[i]) /\ Accepts(T[i], lines[i])
          /\ T[i + 1] = Apply(T[i], lines[i])
          /\ U[i + 1] = Apply(T[i], turned) /\ Accepts(T[i], turned)
      BY <1>1, <1>6, <1>8, <1>9, <1>10, <1>11
    <2>2. T[i + 1].reserved = U[i + 1].reserved
      <3>1. T[i + 1].reserved = T[i].reserved \ Reserved(T[i], lines[i].reservation)
        BY <1>1, <1>2, <2>1, ApplyReserved
      <3>2. U[i + 1].reserved = T[i].reserved \ Reserved(T[i], turned.reservation)
        BY <1>4, <2>1, ApplyReserved
      <3>3. QED
        BY <1>4, <3>1, <3>2
    <2>3. T[i + 1].committed
            = [k \in Counters |-> T[i].committed[k] + Entry(T[i], lines[i].reservation).deltas[k]]
      BY <1>1, <1>2, <2>1, ApplyCommitted
    <2>4. U[i + 1].committed = T[i].committed
      BY <1>4, <2>1, ApplyCommitted
    <2>5. T[i + 1].committed[c] = U[i + 1].committed[c] + d
      BY <1>14, <2>3, <2>4
    <2>6. QED
      BY <2>2, <2>5 DEF Apart
  <1>16. \A j \in i + 1 .. n + 1 : Apart(T[j], U[j], c, d)
    <2> DEFINE Met == {j \in i + 1 .. n + 1 : ~Apart(T[j], U[j], c, d)}
    <2> SUFFICES ASSUME Met # {} PROVE FALSE
      OBVIOUS
    <2>1. Met \in SUBSET Nat
      OBVIOUS
    <2>2. PICK j \in Met : \A k \in Met : j <= k
      <3> HIDE DEF Met
      <3>1. QED
        BY <2>1, Least
    <2>3. j \in i + 1 .. n + 1 /\ ~Apart(T[j], U[j], c, d)
      OBVIOUS
    <2>4. j # i + 1
      BY <1>15, <2>3
    <2>5. /\ j - 1 \in 1 .. n /\ j - 1 \in i + 1 .. n + 1 /\ j - 1 # i
          /\ (j - 1) + 1 = j /\ j - 1 \notin Met
      <3>1. j - 1 \notin Met
        <4> HIDE DEF Met
        <4>1. QED
          BY <2>1, <2>2
      <3>2. QED
        BY <2>3, <2>4, <3>1
    <2>6. Apart(T[j - 1], U[j - 1], c, d)
      BY <2>5
    <2>7. /\ WellFormed(T[j - 1]) /\ WellFormed(U[j - 1])
          /\ lines[j - 1] \in Event /\ other[j - 1] = lines[j - 1]
          /\ Accepts(T[j - 1], lines[j - 1]) /\ Accepts(U[j - 1], lines[j - 1])
          /\ T[j] = Apply(T[j - 1], lines[j - 1])
          /\ U[j] = Apply(U[j - 1], lines[j - 1])
      BY <1>6, <1>8, <1>9, <1>10, <2>5
    <2>8. QED
      BY <2>3, <2>6, <2>7, StayApart
  <1>17. n + 1 \in i + 1 .. n + 1 /\ n + 1 \in 1 .. n + 1 /\ n + 1 # i
    OBVIOUS
  <1>18. Used(T[n + 1]) = Used(U[n + 1])
    <2>1. /\ Replays(T[n + 1], lines[n + 1]) /\ Replays(U[n + 1], lines[n + 1])
      BY <1>1, <1>6, <1>7, <1>17
    <2>2. /\ lines[n + 1].snapshot.counters = Used(T[n + 1])
          /\ lines[n + 1].snapshot.counters = Used(U[n + 1])
      BY <2>1 DEF Replays, Exact, Snapshot
    <2>3. QED
      BY <2>2
  <1>19. Apart(T[n + 1], U[n + 1], c, d) /\ WellFormed(T[n + 1]) /\ WellFormed(U[n + 1])
    BY <1>9, <1>16, <1>17
  <1>20. QED
    <2> HIDE DEF T, U, r
    <2>1. /\ Used(T[n + 1])[c] = T[n + 1].committed[c] + Held(T[n + 1].reserved, c)
          /\ Used(U[n + 1])[c] = U[n + 1].committed[c] + Held(U[n + 1].reserved, c)
          /\ T[n + 1].committed[c] \in Nat /\ U[n + 1].committed[c] \in Nat
          /\ Held(U[n + 1].reserved, c) \in Nat
      BY <1>19, UsedType, HeldType DEF WellFormed, LedgerState, Deltas
    <2>2. d > 0
      BY <1>12, <1>14
    <2>3. QED
      BY <1>18, <1>19, <2>1, <2>2 DEF Apart

\* What an edit of a chain that ends in a decision leaves to be seen: a record
\* left out shifts the decision's number away from its snapshot's, a spend said
\* to be released lowers the counters it saw (shell/replay.py's _check_decision).
THEOREM EditsAreSeen == Spec => EditsShow
  <1> DEFINE Seen == DecisionAdded =>
               \A i \in DOMAIN log :
                 /\ ~ReplayOk(Resealed(RemoveAt(log', i)))
                 /\ CommitsSpend(log', i) => ~ReplayOk(Reversed(log', i))
  <1>1. ASSUME IInv, Followed, [Next]_vars, DecisionAdded, NEW i \in DOMAIN log
        PROVE  /\ ~ReplayOk(Resealed(RemoveAt(log', i)))
               /\ CommitsSpend(log', i) => ~ReplayOk(Reversed(log', i))
    <2>1. Len(log) \in Nat /\ i \in 1 .. Len(log)
      BY <1>1 DEF IInv, TypeOK
    <2>2. log' # log
      BY <1>1, <2>1 DEF DecisionAdded
    <2>3. PICK t \in Threads : Writes(t)
      BY <1>1, <2>2, LogMoves DEF Quiet, vars
    <2>4. Followed'
      BY <1>1, FollowedKeeps
    <2>5. PICK n \in Nat : n = Len(log)
      BY <2>1
    <2>6. PICK lines : lines = log'
      OBVIOUS
    <2>7. /\ lines \in Seq(Event) /\ Len(lines) = n + 1
          /\ lines[n + 1] = EventOf(t)
      BY <1>1, <2>3, <2>5, <2>6, LineAdded
    <2>8. \A j \in DOMAIN lines : Replays(Trail(lines)[j], lines[j])
      BY <2>4, <2>6 DEF Followed
    <2>9. lines[n + 1].kind = "decided"
      BY <1>1, <2>6, <2>7 DEF DecisionAdded, Last
    <2>10. lines[n + 1].snapshot.seq = n
      <3>1. pc[t] = "submit" /\ state = durable /\ records = n
            /\ Accepts(durable, EventOf(t))
        BY <2>3, <2>5, <2>7, <2>9, OfferedAt DEF Writes
      <3>2. EventOf(t).snapshot.seq = durable.seq
        <4>1. EventOf(t).snapshot = Snapshot(durable, call[t].facts)
          BY <3>1, OffersDecision
        <4>2. QED
          BY <4>1 DEF Snapshot
      <3>3. EventOf(t).seq = durable.seq /\ EventOf(t).seq = records
        BY <2>3, <3>1, OffersNumber DEF Writes, AtAppend, Accepts, InSequence
      <3>4. QED
        BY <2>7, <3>1, <3>2, <3>3
    <2>11. ~ReplayOk(Resealed(RemoveAt(lines, i)))
      BY <2>1, <2>5, <2>7, <2>9, <2>10, RemovalShows
    <2>12. CommitsSpend(lines, i) => ~ReplayOk(Reversed(lines, i))
      BY <2>1, <2>5, <2>7, <2>8, <2>9, ReversalShows
    <2>13. QED
      BY <2>6, <2>11, <2>12
  <1>2. IInv /\ Followed /\ [Next]_vars => [Seen]_vars
    BY <1>1
  <1>3. QED
    BY <1>2, Invariance, FollowedThroughout, PTL DEF Spec, EditsShow

----------------------------------------------------------------------------
(* A candidate bundle and the decisions there are.                         *)

\* A candidate that asks for more puts to a human what was allowed without one
\* of the actions it asks for, and decides all else as before.
LEMMA CandidateVerdict ==
  ASSUME CandidateAsks, NEW a \in Acts, NEW snapshot \in SnapshotType
  PROVE  Candidate!Verdict(a, snapshot) =
           IF Verdict(a, snapshot) = "ALLOW" /\ a \in Asked \ snapshot.approvals
           THEN "REQUIRE_APPROVAL" ELSE Verdict(a, snapshot)
  <1> DEFINE ctx(approved) == BuildContext(snapshot, approved)
  <1>1. /\ Candidate!ValidInput(a, snapshot) = ValidInput(a, snapshot)
        /\ \A approved : Candidate!BuildContext(snapshot, approved) = ctx(approved)
    BY DEF Candidate!ValidInput, ValidInput, Candidate!BuildContext, BuildContext
  <1>2. CASE ~ValidInput(a, snapshot)
    BY <1>1, <1>2 DEF Verdict, Candidate!Verdict
  <1>3. CASE ValidInput(a, snapshot)
    <2>1. \A approved \in BOOLEAN : ctx(approved) \in Context
      <3>1. snapshot.counters \in [Counters -> 0 .. MaxCounter]
        BY <1>3, DecideAssumption DEF ValidInput, SnapshotType, Deltas
      <3> QED BY <3>1 DEF BuildContext, Context, SnapshotType
    <2>2. \A approved \in BOOLEAN :
            /\ ctx(approved).approved = approved
            /\ BuildContext(ctx(approved), TRUE) = ctx(TRUE)
      BY DEF BuildContext
    <2> HIDE DEF ctx
    <2>3. \A approved \in BOOLEAN :
            /\ CandidatePermits(a, ctx(approved))
                 <=> Permits(a, ctx(approved)) /\ (a \in Asked => approved)
            /\ Allowed(a, ctx(approved)) => Allowed(a, ctx(TRUE))
      BY <2>1, <2>2 DEF CandidateAsks
    <2>4. \A approved \in BOOLEAN :
            /\ Candidate!Allowed(a, ctx(approved))
                 <=> Allowed(a, ctx(approved)) /\ (a \in Asked => approved)
            /\ Candidate!DeniedByDefault(a, ctx(approved))
                 <=> \/ DeniedByDefault(a, ctx(approved))
                     \/ Allowed(a, ctx(approved)) /\ a \in Asked /\ ~approved
      BY <2>3 DEF Allowed, DeniedByDefault, Candidate!Allowed, Candidate!DeniedByDefault
    <2>5. PICK approved \in BOOLEAN : approved = (a \in snapshot.approvals)
      <3>1. CASE a \in snapshot.approvals
        BY <3>1, (a \in snapshot.approvals) = TRUE
      <3>2. CASE a \notin snapshot.approvals
        BY <3>2, (a \in snapshot.approvals) = FALSE
      <3> QED BY <3>1, <3>2
    <2>6. Verdict(a, snapshot) =
            IF Allowed(a, ctx(approved)) THEN "ALLOW"
            ELSE IF DeniedByDefault(a, ctx(approved)) /\ ~approved /\ Allowed(a, ctx(TRUE))
                 THEN "REQUIRE_APPROVAL" ELSE "DENY"
      BY <1>3, <2>5 DEF Verdict, ctx
    <2>7. Candidate!Verdict(a, snapshot) =
            IF Candidate!Allowed(a, ctx(approved)) THEN "ALLOW"
            ELSE IF /\ Candidate!DeniedByDefault(a, ctx(approved))
                    /\ ~approved /\ Candidate!Allowed(a, ctx(TRUE))
                 THEN "REQUIRE_APPROVAL" ELSE "DENY"
      BY <1>1, <1>3, <2>5 DEF Candidate!Verdict, ctx
    <2>8. ~(Allowed(a, ctx(approved)) /\ DeniedByDefault(a, ctx(approved)))
      BY DEF Allowed, DeniedByDefault
    <2>9. CASE Allowed(a, ctx(approved)) /\ a \in Asked /\ ~approved
      BY <2>3, <2>4, <2>5, <2>6, <2>7, <2>9
    <2>10. CASE ~(Allowed(a, ctx(approved)) /\ a \in Asked /\ ~approved)
      BY <2>3, <2>4, <2>5, <2>6, <2>7, <2>8, <2>10
    <2> QED BY <2>9, <2>10
  <1> QED BY <1>2, <1>3

\* history_impact of such a candidate names exactly what the candidate would have
\* put to a human: on any session's log, for any policy in which an approval takes
\* nothing away.
THEOREM HistoryIsNamed ==
  ASSUME CandidateAsks
  PROVE  Spec => HistoryNamesTheRefused
  <1>1. ASSUME NEW history \in Seq(Event), ReplayOk(history)
        PROVE  NamesTheRefused(history)
    <2> DEFINE snapshots == Rederived(history)
               verdicts  == [i \in Decisions(history) |->
                               Candidate!Verdict(history[i].act, snapshots[i])]
               asked(i)  == /\ history[i].verdict = "ALLOW"
                            /\ history[i].act \in Asked \ history[i].snapshot.approvals
    <2>1. ASSUME NEW i \in Decisions(history)
          PROVE  /\ history[i].act \in Acts
                 /\ history[i].snapshot \in SnapshotType
                 /\ snapshots[i] = history[i].snapshot
                 /\ history[i].verdict = Verdict(history[i].act, history[i].snapshot)
      <3>1. i \in DOMAIN history /\ history[i].kind = "decided"
        BY DEF Decisions
      <3>2. history[i] \in Event
        BY <3>1
      <3>3. history[i].act \in Acts /\ history[i].snapshot \in SnapshotType
        BY <3>1, <3>2 DEF Event
      <3>4. Exact(Trail(history)[i], history[i])
        BY <1>1, <3>1 DEF ReplayOk, Replays
      <3> QED BY <3>3, <3>4 DEF Exact, Rederived
    <2> HIDE DEF snapshots
    <2>2. ASSUME NEW i \in Decisions(history)
          PROVE  verdicts[i] = IF asked(i) THEN "REQUIRE_APPROVAL" ELSE history[i].verdict
      BY <2>1, CandidateVerdict
    <2> HIDE DEF verdicts
    <2>3. HistoryImpact(history, verdicts) = {i \in Decisions(history) : asked(i)}
      BY <2>2 DEF HistoryImpact
    <2>4. \A i \in HistoryImpact(history, verdicts) : verdicts[i] = "REQUIRE_APPROVAL"
      BY <2>2, <2>3
    <2> QED BY <2>3, <2>4 DEF NamesTheRefused, snapshots, verdicts
  <1>2. TypeOK' /\ AlwaysReplays' => [DecisionAdded => NamesTheRefused(log')]_vars
    <2> SUFFICES ASSUME TypeOK', AlwaysReplays', DecisionAdded
                 PROVE  NamesTheRefused(log')
      OBVIOUS
    <2>1. log' \in Seq(Event)
      BY DEF TypeOK
    <2>2. Decisions(log') # {}
      <3>1. Len(log) \in Int /\ Len(log') > Len(log)
        BY DEF DecisionAdded
      <3> QED BY <2>1, <3>1 DEF DecisionAdded, Last, Decisions
    <2>3. ReplayOk(log')
      BY <2>2 DEF AlwaysReplays
    <2> QED BY <1>1, <2>1, <2>3
  <1> QED BY <1>2, TypeCorrect, SessionsReplay, PTL DEF HistoryNamesTheRefused
=============================================================================
