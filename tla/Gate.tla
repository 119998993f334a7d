-------------------------------- MODULE Gate --------------------------------
(***************************************************************************)
(* One gate process serving one session (shell/gate.py, shell/session.py,  *)
(* shell/log.py, shell/tokens.py): threads that call submit, execute,      *)
(* settle, sweep and approve at once, the session lock, the session state  *)
(* in memory, the event log on disk, the tokens handed out, the tools the  *)
(* tokens run, failing writes, and crashes of the process.                 *)
(*                                                                         *)
(* A step is a stretch of code no other thread can observe the middle of:  *)
(* what runs between two acquisitions of the session lock, or, inside one  *)
(* critical section, what runs between two writes of the log (a crash can  *)
(* fall between them).                                                     *)
(***************************************************************************)
EXTENDS Decide

CONSTANTS
  Threads,       \* concurrent callers
  Settlers,      \* callers that run tools themselves and call settle()
  Free,          \* the session lock when no thread holds it
  None,          \* a local variable a call does not use
  ResultLabels,  \* the manifest's result_labels of each action's tool
  PinnedActs,    \* actions with a URL argument, which egress_pins resolves
  Ttl,           \* token_ttl_ms
  MaxTime,       \* bound on the clock
  MaxCalls,      \* bound on the calls made
  MaxFaults      \* bound on failing writes and crashes together

ASSUME GateAssumption ==
  /\ Free \notin Threads
  /\ Settlers \subseteq Threads
  /\ None \notin Facts
  /\ ResultLabels \in [Acts -> SUBSET Labels]
  /\ Ttl \in Nat

VARIABLES
  state,     \* Session._state: what this process believes
  records,   \* len(EventLog.records): the lines this process knows of
  log,       \* the lines of the session's file
  durable,   \* the state those lines fold to (history)
  lock,      \* the holder of the session lock
  pc,        \* where each thread's call stands
  call,      \* each thread's local variables
  now,       \* the wall clock, which does not run backwards
  tokens,    \* the tokens minted so far
  ran,       \* the tool runs so far (history)
  returned,  \* reservations whose result execute() returned (history)
  calls,     \* calls begun
  faults     \* faults so far

vars == <<state, records, log, durable, lock, pc, call, now, tokens, ran,
          returned, calls, faults>>

----------------------------------------------------------------------------
(* Tokens, calls and where a call can stand.                               *)

Token == [act : Acts, expires : Nat, reservation : Nat]

\* A call's locals: the action and facts submitted, who calls, the token in
\* hand (a submit fills it in before it is minted), a clock read before the
\* lock was taken, an outcome to settle with.  Unused ones hold None.
NoCall == [act |-> None, facts |-> None, who |-> None, token |-> None,
           at |-> 0, outcome |-> None]

Call == [act : Acts \cup {None}, facts : Facts \cup {None},
         who : Principals \cup {None}, token : Token \cup {None}, at : Nat,
         outcome : Outcomes \cup {None}]

\* open    store.open is about to ask whether the session has a principal
\* opening it had none: about to append session_opened
\* submit  about to take the lock and decide
\* consume, reserve   inside submit's critical section, after an ALLOW
\* approve about to append approval_granted
\* redeem  the token verified: about to take the lock and look it up
\* run     found open and the lock released: about to call the runner
\* settle  about to append settled, for execute;  close  the same, for a
\*         caller of settle() that ran the tool itself
\* sweep   the clock is read: about to take the lock
\* sweeping inside sweep's critical section
PCs == {"idle", "open", "opening", "submit", "consume", "reserve", "approve",
        "redeem", "run", "settle", "close", "sweep", "sweeping"}

\* The places from which the next step appends an event.
Appending == {"opening", "submit", "consume", "reserve", "approve", "settle",
              "close", "sweeping"}

TypeOK ==
  /\ state \in LedgerState
  /\ records \in Nat
  /\ log \in Seq(Event)
  /\ durable \in LedgerState
  /\ lock \in Threads \cup {Free}
  /\ pc \in [Threads -> PCs]
  /\ call \in [Threads -> Call]
  /\ now \in Nat
  /\ tokens \subseteq Token
  /\ ran \subseteq [token : Token, ok : BOOLEAN]
  /\ returned \subseteq Nat
  /\ calls \in Nat
  /\ faults \in Nat

Init ==
  /\ state = InitialState
  /\ records = 0
  /\ log = <<>>
  /\ durable = InitialState
  /\ lock = Free
  /\ pc = [t \in Threads |-> "idle"]
  /\ call = [t \in Threads |-> NoCall]
  /\ now = 0
  /\ tokens = {}
  /\ ran = {}
  /\ returned = {}
  /\ calls = 0
  /\ faults = 0

----------------------------------------------------------------------------
(* Helpers.                                                                *)

\* Mutant: no lock.
NoLock(t) == TRUE

\* The lock is re-entrant: append takes it inside a transaction too.
MayLock(t) == lock \in {Free, t}

Goto(t, place) == pc' = [pc EXCEPT ![t] = place]

\* Mutant: an exception or a refusal leaves the lock taken.
ReturnHoldingLock(t) ==
  /\ Goto(t, "idle")
  /\ call' = [call EXCEPT ![t] = NoCall]
  /\ UNCHANGED lock

\* The call ends, by a result or an exception: the locals go, and leaving a
\* `with` block releases the lock.
Return(t) ==
  /\ Goto(t, "idle")
  /\ call' = [call EXCEPT ![t] = NoCall]
  /\ lock' = IF lock = t THEN Free ELSE lock

\* A new call of thread t, its locals as given.
Begin(t, place, locals) ==
  /\ pc[t] = "idle"
  /\ calls < MaxCalls
  /\ calls' = calls + 1
  /\ Goto(t, place)
  /\ call' = [call EXCEPT ![t] = locals]
  /\ UNCHANGED <<state, records, log, durable, lock, now, tokens, ran,
                 returned, faults>>

\* Mutant: a token's last moment counts as past.
ExpiredInclusive(t) == {r \in state.reserved : r.expires <= call[t].at}

\* Reservations the sweep in thread t finds expired.
Expired(t) == {r \in state.reserved : r.expires < call[t].at}

\* list(state.reserved) is sorted: the smallest reservation goes first.
NextExpired(t) ==
  CHOOSE r \in Expired(t) : \A q \in Expired(t) : r.reservation <= q.reservation

\* Mutant: labels are left to the caller, who gives none.
LabelsForgotten(reservation, outcome) == {}

\* Labels come from the manifest, for the tool the decision record names.
LabelsOf(reservation, outcome) ==
  IF outcome = "committed" THEN ResultLabels[log[reservation + 1].act] ELSE {}

\* Mutant: the decision is taken on committed spend alone.
DecisionOnCommitted(t) ==
  Verdict(call[t].act,
          [Snapshot(state, call[t].facts) EXCEPT !.counters = state.committed])

\* The verdict of the decision thread t is about to record.
Decision(t) == Verdict(call[t].act, Snapshot(state, call[t].facts))

Settled(reservation, outcome) ==
  [kind |-> "settled", seq |-> records, reservation |-> reservation,
   outcome |-> outcome, labels |-> LabelsOf(reservation, outcome)]

\* The event thread t appends next.  Its seq is the number of records.
EventOf(t) ==
  CASE pc[t] = "opening" ->
         [kind |-> "session_opened", seq |-> records, principal |-> call[t].who]
    [] pc[t] = "submit" ->
         [kind |-> "decided", seq |-> records, act |-> call[t].act,
          snapshot |-> Snapshot(state, call[t].facts), verdict |-> Decision(t)]
    [] pc[t] = "consume" ->
         [kind |-> "approval_consumed", seq |-> records, act |-> call[t].act]
    [] pc[t] = "reserve" ->
         [kind |-> "reserved", seq |-> records,
          reservation |-> call[t].token.reservation, act |-> call[t].act,
          deltas |-> Cost[call[t].act], expires |-> call[t].token.expires]
    [] pc[t] = "approve" ->
         [kind |-> "approval_granted", seq |-> records, act |-> call[t].act]
    [] pc[t] \in {"settle", "close"} ->
         Settled(call[t].token.reservation, call[t].outcome)
    [] pc[t] = "sweeping" -> Settled(NextExpired(t).reservation, "released")

\* Thread t is at an append and nothing keeps it from the lock.
AtAppend(t) ==
  /\ pc[t] \in Appending
  /\ MayLock(t)
  /\ pc[t] = "sweeping" => Expired(t) # {}

\* Mutant: the line stays in a buffer; there is no flush and no fsync.
AppendsBuffered(t) ==
  /\ AtAppend(t)
  /\ Accepts(state, EventOf(t))
  /\ state' = Apply(state, EventOf(t))
  /\ records' = records + 1
  /\ UNCHANGED <<log, durable>>

\* Session.append up to its return: the ledger accepts the event, the state
\* moves, the line is on disk.
Appends(t) ==
  LET e == EventOf(t) IN
  /\ AtAppend(t)
  /\ Accepts(state, e)
  /\ state' = Apply(state, e)
  /\ log' = Append(log, e)
  /\ records' = records + 1
  /\ durable' = Apply(durable, e)

----------------------------------------------------------------------------
(* store.open: the check for a principal and the append of session_opened  *)
(* are two critical sections.                                              *)

\* Where a call goes once the session is open: submit() carries facts.
AfterOpen(t) == IF call[t].facts = None THEN "approve" ELSE "submit"

Open(t) ==
  /\ pc[t] = "open"
  /\ MayLock(t)
  /\ Goto(t, IF state.principal = Nobody THEN "opening" ELSE AfterOpen(t))
  /\ UNCHANGED <<state, records, log, durable, lock, call, now, tokens, ran,
                 returned, calls, faults>>

AppendOpened(t) ==
  /\ pc[t] = "opening"
  /\ Appends(t)
  /\ Goto(t, AfterOpen(t))
  /\ UNCHANGED <<lock, call, now, tokens, ran, returned, calls, faults>>

----------------------------------------------------------------------------
(* submit: one critical section with one to three appends.                 *)

Submit(t, a, facts, who) ==
  Begin(t, "open", [NoCall EXCEPT !.act = a, !.facts = facts, !.who = who])

\* Mutant: the ALLOW leaves the approval it used in place.
ApprovalKept(t) == "reserve"

\* An ALLOW of an approved action spends the approval, needed or not.
AfterAllow(t) == IF call[t].act \in state.approvals THEN "consume" ELSE "reserve"

SubmitDecides(t) ==
  /\ pc[t] = "submit"
  /\ Appends(t)
  /\ IF Decision(t) # "ALLOW"
     THEN Return(t)
     ELSE /\ lock' = t
          /\ Goto(t, AfterAllow(t))
          /\ call' = [call EXCEPT ![t].token =
               [act |-> call[t].act, expires |-> now + Ttl,
                reservation |-> records]]
  /\ UNCHANGED <<now, tokens, ran, returned, calls, faults>>

SubmitConsumes(t) ==
  /\ pc[t] = "consume"
  /\ Appends(t)
  /\ Goto(t, "reserve")
  /\ UNCHANGED <<lock, call, now, tokens, ran, returned, calls, faults>>

\* The reservation is on disk before the token exists.
SubmitReserves(t) ==
  /\ pc[t] = "reserve"
  /\ Appends(t)
  /\ tokens' = tokens \cup {call[t].token}
  /\ Return(t)
  /\ UNCHANGED <<now, ran, returned, calls, faults>>

----------------------------------------------------------------------------
(* approve *)

Approve(t, a, who) ==
  Begin(t, "open", [NoCall EXCEPT !.act = a, !.who = who])

AppendGranted(t) ==
  /\ pc[t] = "approve"
  /\ Appends(t)
  /\ Return(t)
  /\ UNCHANGED <<now, tokens, ran, returned, calls, faults>>

----------------------------------------------------------------------------
(* execute: verify against a clock read outside the lock, look the         *)
(* reservation up inside it, run the tool outside it, settle inside it.    *)

Execute(t, token) ==
  /\ now <= token.expires
  /\ Begin(t, "redeem", [NoCall EXCEPT !.token = token])

\* The reservation the token names is open, for the token's action.
Redeemable(token) ==
  \E r \in Reserved(state, token.reservation) : r.act = token.act

\* reservation_not_open, action_mismatch, or egress_pins refuses the host.
RedeemRefused(t) ==
  /\ pc[t] = "redeem"
  /\ MayLock(t)
  /\ ~Redeemable(call[t].token) \/ call[t].token.act \in PinnedActs
  /\ Return(t)
  /\ UNCHANGED <<state, records, log, durable, now, tokens, ran, returned,
                 calls, faults>>

Redeem(t) ==
  /\ pc[t] = "redeem"
  /\ MayLock(t)
  /\ Redeemable(call[t].token)
  /\ Goto(t, "run")
  /\ UNCHANGED <<state, records, log, durable, lock, call, now, tokens, ran,
                 returned, calls, faults>>

\* Mutant: a runner's exception is passed on without settling.
RunForgetsToRelease(t, ok) ==
  /\ pc[t] = "run"
  /\ IF ok THEN Goto(t, "settle") ELSE Goto(t, "idle")
  /\ ran' = ran \cup {[token |-> call[t].token, ok |-> ok]}
  /\ call' = [call EXCEPT ![t].outcome = "committed"]
  /\ UNCHANGED <<state, records, log, durable, lock, now, tokens, returned,
                 calls, faults>>

\* The runner returns (ok) or raises; either way settle comes next.
Run(t, ok) ==
  /\ pc[t] = "run"
  /\ ran' = ran \cup {[token |-> call[t].token, ok |-> ok]}
  /\ call' = [call EXCEPT ![t].outcome = IF ok THEN "committed" ELSE "released"]
  /\ Goto(t, "settle")
  /\ UNCHANGED <<state, records, log, durable, lock, now, tokens, returned,
                 calls, faults>>

\* Only after a committed settlement does execute() return the result.
ExecuteSettles(t) ==
  /\ pc[t] = "settle"
  /\ Appends(t)
  /\ returned' = IF call[t].outcome = "committed"
                 THEN returned \cup {call[t].token.reservation} ELSE returned
  /\ Return(t)
  /\ UNCHANGED <<now, tokens, ran, calls, faults>>

----------------------------------------------------------------------------
(* settle(), called by one who ran the tool without execute, and sweep.    *)

Settle(t, token, outcome) ==
  /\ t \in Settlers
  /\ Begin(t, "close", [NoCall EXCEPT !.token = token, !.outcome = outcome])

SettleCloses(t) ==
  /\ pc[t] = "close"
  /\ Appends(t)
  /\ Return(t)
  /\ UNCHANGED <<now, tokens, ran, returned, calls, faults>>

Sweep(t) == Begin(t, "sweep", [NoCall EXCEPT !.at = now])

SweepLocks(t) ==
  /\ pc[t] = "sweep"
  /\ lock = Free
  /\ lock' = t
  /\ Goto(t, "sweeping")
  /\ UNCHANGED <<state, records, log, durable, call, now, tokens, ran,
                 returned, calls, faults>>

SweepReleases(t) ==
  /\ pc[t] = "sweeping"
  /\ Appends(t)
  /\ UNCHANGED <<lock, pc, call, now, tokens, ran, returned, calls, faults>>

SweepEnds(t) ==
  /\ pc[t] = "sweeping"
  /\ Expired(t) = {}
  /\ Return(t)
  /\ UNCHANGED <<state, records, log, durable, now, tokens, ran, returned,
                 calls, faults>>

----------------------------------------------------------------------------
(* pending, which reads the state and the records in one critical section. *)

\* Mutant: an approval once granted counts for ever.
PendingUnlessGranted(s, lines) ==
  {i \in Decisions(lines) :
     /\ lines[i].verdict = "REQUIRE_APPROVAL"
     /\ \A j \in DOMAIN lines :
          lines[j].kind = "approval_granted" => lines[j].act # lines[i].act}

\* pending(): what is listed for a human.
Pending(s, lines) ==
  {i \in Decisions(lines) :
     lines[i].verdict = "REQUIRE_APPROVAL" /\ lines[i].act \notin s.approvals}

----------------------------------------------------------------------------
(* What goes wrong.                                                        *)

\* The ledger refuses the event: append raises, nothing has changed.
AppendRefused(t) ==
  /\ AtAppend(t)
  /\ ~Accepts(state, EventOf(t))
  /\ Return(t)
  /\ UNCHANGED <<state, records, log, durable, now, tokens, ran, returned,
                 calls, faults>>

\* The write or the fsync raises: the state has moved already, the records
\* have not, and the line may or may not have reached the file.
WriteFails(t) ==
  LET e == EventOf(t) IN
  /\ faults < MaxFaults
  /\ AtAppend(t)
  /\ Accepts(state, e)
  /\ state' = Apply(state, e)
  /\ \/ log' = Append(log, e) /\ durable' = Apply(durable, e)
     \/ UNCHANGED <<log, durable>>
  /\ faults' = faults + 1
  /\ Return(t)
  /\ UNCHANGED <<records, now, tokens, ran, returned, calls>>

\* The process dies and a new one folds the file.  Tokens outlive it: the
\* key is a file next to the sessions.
Crash ==
  /\ faults < MaxFaults
  /\ faults' = faults + 1
  /\ state' = durable
  /\ records' = Len(log)
  /\ lock' = Free
  /\ pc' = [t \in Threads |-> "idle"]
  /\ call' = [t \in Threads |-> NoCall]
  /\ UNCHANGED <<log, durable, now, tokens, ran, returned, calls>>

Tick ==
  /\ now < MaxTime
  /\ now' = now + 1
  /\ UNCHANGED <<state, records, log, durable, lock, pc, call, tokens, ran,
                 returned, calls, faults>>

----------------------------------------------------------------------------
Calls(t) ==
  \/ \E a \in Acts, facts \in Facts, who \in Principals : Submit(t, a, facts, who)
  \/ \E a \in Acts \ Malformed, who \in Principals : Approve(t, a, who)
  \/ \E token \in tokens : Execute(t, token)
  \/ \E token \in tokens, outcome \in Outcomes : Settle(t, token, outcome)
  \/ Sweep(t)

\* The steps a call takes once it has begun.
Steps(t) ==
  \/ Open(t) \/ AppendOpened(t)
  \/ SubmitDecides(t) \/ SubmitConsumes(t) \/ SubmitReserves(t)
  \/ AppendGranted(t)
  \/ RedeemRefused(t) \/ Redeem(t)
  \/ \E ok \in BOOLEAN : Run(t, ok)
  \/ ExecuteSettles(t) \/ SettleCloses(t)
  \/ SweepLocks(t) \/ SweepReleases(t) \/ SweepEnds(t)
  \/ AppendRefused(t)

Next ==
  \/ \E t \in Threads : Calls(t) \/ Steps(t) \/ WriteFails(t)
  \/ Crash
  \/ Tick

Spec == Init /\ [][Next]_vars

\* Every call that has begun goes on: threads are scheduled, the session
\* lock is granted to one who keeps waiting, runners return or raise.
Fairness == \A t \in Threads : WF_vars(Steps(t))

FairSpec == Spec /\ Fairness
=============================================================================
