---------------------------- MODULE LedgerProofs ----------------------------
(***************************************************************************)
(* Facts about the ledger's fold, for every set of counters and actions:   *)
(* what reserving and settling do to the total a cap is measured against,  *)
(* and that an accepted event takes a well-formed state to another.        *)
(***************************************************************************)
EXTENDS Ledger, FiniteSetTheorems, TLAPS

----------------------------------------------------------------------------
\* The units of one reservation.
LEMMA OneReservation ==
  ASSUME NEW r \in Reservation, NEW c \in Counters
  PROVE  /\ IsFiniteSet({r} \X (1 .. r.deltas[c]))
         /\ Cardinality({r} \X (1 .. r.deltas[c])) = r.deltas[c]
  <1>1. r.deltas[c] \in Nat
    BY DEF Reservation, Deltas
  <1>2. ASSUME NEW n \in Nat
        PROVE  IsFiniteSet(1 .. n) /\ Cardinality(1 .. n) = n
    <2>1. 1 \in Int /\ n \in Int
      OBVIOUS
    <2>2. /\ IsFiniteSet(1 .. n)
          /\ Cardinality(1 .. n) = IF 1 > n THEN 0 ELSE n - 1 + 1
      BY <2>1, FS_Interval
    <2>3. QED
      BY <2>2
  <1>3. IsFiniteSet({r}) /\ Cardinality({r}) = 1
    BY FS_Singleton
  <1>4. ASSUME NEW T, IsFiniteSet(T), Cardinality(T) \in Nat
        PROVE  /\ IsFiniteSet({r} \X T)
               /\ Cardinality({r} \X T) = Cardinality(T)
    <2>1. /\ IsFiniteSet({r} \X T)
          /\ Cardinality({r} \X T) = Cardinality({r}) * Cardinality(T)
      BY <1>3, <1>4, FS_Product
    <2>2. QED
      BY <1>3, <1>4, <2>1
  <1>5. QED
    BY <1>1, <1>2, <1>4

\* What is held is a natural number, and zero when nothing is reserved.
LEMMA HeldType ==
  ASSUME NEW R, NEW c, IsFiniteSet(UnitsHeld(R, c))
  PROVE  Held(R, c) \in Nat
  BY FS_CardinalityType DEF Held

LEMMA HeldNothing ==
  ASSUME NEW c
  PROVE  /\ IsFiniteSet(UnitsHeld({}, c))
         /\ Held({}, c) = 0
  <1>1. UnitsHeld({}, c) = {}
    BY DEF UnitsHeld
  <1>2. QED
    BY <1>1, FS_EmptySet DEF Held

\* The fold begins well-formed.
LEMMA InitialWellFormed ==
  /\ InitialState \in LedgerState
  /\ InitialState.reserved = {}
  /\ InitialState.committed = [c \in Counters |-> 0]
  /\ InitialState.seq = 0
  /\ WellFormed(InitialState)
<1>1. InitialState \in LedgerState
  BY DEF InitialState, LedgerState, Deltas
<1>2. /\ InitialState.reserved = {}
      /\ InitialState.committed = [c \in Counters |-> 0]
      /\ InitialState.seq = 0
  BY DEF InitialState
<1>3. WellFormed(InitialState)
  BY <1>1, <1>2, HeldNothing DEF WellFormed
<1> QED  BY <1>1, <1>2, <1>3

\* Reserving adds exactly the reservation's delta to what is held.
LEMMA HeldAdd ==
  ASSUME NEW R \in SUBSET Reservation, NEW r \in Reservation, r \notin R,
         NEW c \in Counters, IsFiniteSet(UnitsHeld(R, c))
  PROVE  /\ IsFiniteSet(UnitsHeld(R \cup {r}, c))
         /\ Held(R \cup {r}, c) = Held(R, c) + r.deltas[c]
  <1> DEFINE own == {r} \X (1 .. r.deltas[c])
  <1>1. UnitsHeld(R \cup {r}, c) = UnitsHeld(R, c) \cup own
    BY DEF UnitsHeld
  <1>2. UnitsHeld(R, c) \cap own = {}
    BY DEF UnitsHeld
  <1>3. IsFiniteSet(own) /\ Cardinality(own) = r.deltas[c]
    BY OneReservation
  <1>4. /\ IsFiniteSet(UnitsHeld(R, c) \cup own)
        /\ Cardinality(UnitsHeld(R, c) \cup own)
             = Cardinality(UnitsHeld(R, c)) + Cardinality(own)
               - Cardinality(UnitsHeld(R, c) \cap own)
    BY <1>3, FS_Union
  <1>5. Cardinality(UnitsHeld(R, c)) \in Nat /\ r.deltas[c] \in Nat
    BY FS_CardinalityType DEF Reservation, Deltas
  <1>6. Cardinality(UnitsHeld(R, c) \cap own) = 0
    BY <1>2, FS_EmptySet
  <1> HIDE DEF own
  <1>7. Cardinality(UnitsHeld(R, c) \cup own)
          = Cardinality(UnitsHeld(R, c)) + r.deltas[c]
    BY <1>3, <1>4, <1>5, <1>6
  <1>8. QED
    BY <1>1, <1>4, <1>7 DEF Held

\* Settling takes exactly that delta off again.
LEMMA HeldRemove ==
  ASSUME NEW R \in SUBSET Reservation, NEW r \in R, NEW c \in Counters,
         IsFiniteSet(UnitsHeld(R, c))
  PROVE  /\ IsFiniteSet(UnitsHeld(R \ {r}, c))
         /\ Held(R, c) = Held(R \ {r}, c) + r.deltas[c]
  <1>1. UnitsHeld(R \ {r}, c) \in SUBSET UnitsHeld(R, c)
    BY DEF UnitsHeld
  <1>2. IsFiniteSet(UnitsHeld(R \ {r}, c))
    BY <1>1, FS_Subset
  <1>3. (R \ {r}) \cup {r} = R
    OBVIOUS
  <1>4. R \ {r} \in SUBSET Reservation /\ r \in Reservation /\ r \notin R \ {r}
    OBVIOUS
  <1>5. Held((R \ {r}) \cup {r}, c) = Held(R \ {r}, c) + r.deltas[c]
    BY <1>2, <1>4, HeldAdd
  <1>6. QED
    BY <1>2, <1>3, <1>5

\* The total a cap is measured against is a vector of naturals.
LEMMA UsedType ==
  ASSUME NEW s, WellFormed(s)
  PROVE  /\ Used(s) \in Deltas
         /\ \A c \in Counters : Used(s)[c] = s.committed[c] + Held(s.reserved, c)
  <1>1. \A c \in Counters : Held(s.reserved, c) \in Nat
    BY HeldType DEF WellFormed
  <1>2. s.committed \in Deltas
    BY DEF WellFormed, LedgerState
  <1>3. QED
    BY <1>1, <1>2 DEF Used, Deltas

----------------------------------------------------------------------------
\* The reservation a settlement names is one of the open ones, and the only
\* one of its number.
LEMMA EntryIsOpen ==
  ASSUME NEW s, WellFormed(s), NEW id, Reserved(s, id) # {}
  PROVE  /\ Entry(s, id) \in s.reserved
         /\ Entry(s, id).reservation = id
         /\ Reserved(s, id) = {Entry(s, id)}
  <1>1. \E r \in s.reserved : r.reservation = id
    BY DEF Reserved
  <1>2. Entry(s, id) \in s.reserved /\ Entry(s, id).reservation = id
    BY <1>1 DEF Entry
  <1>3. QED
    BY <1>2 DEF WellFormed, Reserved

\* A release leaves a well-formed state that counts no more than before, and
\* less by the entry's delta.
LEMMA ReleaseWellFormed ==
  ASSUME NEW s, WellFormed(s), NEW id, Reserved(s, id) # {}
  PROVE  /\ WellFormed(Release(s, id))
         /\ Release(s, id).committed = s.committed
         /\ \A c \in Counters :
              Held(s.reserved, c)
                = Held(Release(s, id).reserved, c) + Entry(s, id).deltas[c]
  <1> DEFINE r == Entry(s, id)
  <1>1. r \in s.reserved /\ Reserved(s, id) = {r}
    BY EntryIsOpen
  <1>2. s \in LedgerState /\ s.reserved \in SUBSET Reservation
    BY DEF WellFormed, LedgerState
  <1>3. Release(s, id) = [s EXCEPT !.reserved = s.reserved \ {r}]
    BY <1>1, <1>2 DEF Release, LedgerState
  <1> HIDE DEF r
  <1>4. /\ Release(s, id) \in LedgerState
        /\ Release(s, id).reserved = s.reserved \ {r}
        /\ Release(s, id).committed = s.committed
    BY <1>2, <1>3 DEF LedgerState
  <1>5. \A c \in Counters :
          /\ IsFiniteSet(UnitsHeld(s.reserved \ {r}, c))
          /\ Held(s.reserved, c) = Held(s.reserved \ {r}, c) + r.deltas[c]
    BY <1>1, <1>2, HeldRemove DEF WellFormed
  <1>6. \A p, q \in s.reserved \ {r} : p.reservation = q.reservation => p = q
    BY DEF WellFormed
  <1>7. QED
    BY <1>4, <1>5, <1>6 DEF WellFormed, r

\* A commit moves the entry's delta from held to committed: the total stays.
LEMMA CommitWellFormed ==
  ASSUME NEW s, WellFormed(s), NEW id, Reserved(s, id) # {},
         NEW labels \in SUBSET Labels
  PROVE  /\ WellFormed(Commit(s, id, labels))
         /\ Commit(s, id, labels).labels = s.labels \cup labels
         /\ \A c \in Counters :
              /\ s.committed[c] <= Commit(s, id, labels).committed[c]
              /\ Used(Commit(s, id, labels))[c] = Used(s)[c]
  <1> DEFINE r  == Entry(s, id)
             s1 == Release(s, id)
             s2 == Commit(s, id, labels)
  <1>1. r \in Reservation
    BY EntryIsOpen DEF WellFormed, LedgerState
  <1>2. \A c \in Counters : r.deltas[c] \in Nat /\ s.committed[c] \in Nat
    BY <1>1 DEF Reservation, Deltas, WellFormed, LedgerState
  <1>3. /\ WellFormed(s1)
        /\ s1.committed = s.committed
        /\ \A c \in Counters :
             Held(s.reserved, c) = Held(s1.reserved, c) + r.deltas[c]
    BY ReleaseWellFormed
  <1>4. s1 \in LedgerState /\ s1.labels = s.labels
    BY <1>3 DEF WellFormed, Release, LedgerState
  <1>5. s2 = [s1 EXCEPT !.committed = [c \in Counters |-> s1.committed[c] + r.deltas[c]],
                        !.labels = s1.labels \cup labels]
    BY DEF Commit
  <1> HIDE DEF r, s1, s2
  <1>6. [c \in Counters |-> s1.committed[c] + r.deltas[c]] \in Deltas
    BY <1>2, <1>3 DEF Deltas
  <1>7. /\ s2 \in LedgerState
        /\ s2.reserved = s1.reserved
        /\ s2.committed = [c \in Counters |-> s1.committed[c] + r.deltas[c]]
        /\ s2.labels = s.labels \cup labels
    BY <1>4, <1>5, <1>6 DEF LedgerState
  <1>8. WellFormed(s2)
    BY <1>3, <1>7 DEF WellFormed
  <1>9. ASSUME NEW c \in Counters
        PROVE  /\ s.committed[c] <= s2.committed[c]
               /\ Used(s2)[c] = Used(s)[c]
    <2>1. s2.committed[c] = s.committed[c] + r.deltas[c]
      BY <1>3, <1>7
    <2>2. /\ Used(s)[c] = s.committed[c] + Held(s.reserved, c)
          /\ Used(s2)[c] = s2.committed[c] + Held(s1.reserved, c)
      BY <1>7, <1>8, UsedType
    <2>3. Held(s1.reserved, c) \in Nat
      BY <1>3, HeldType DEF WellFormed
    <2>4. QED
      BY <1>2, <1>3, <2>1, <2>2, <2>3
  <1>10. QED
    BY <1>7, <1>8, <1>9 DEF s2

\* A reservation of a new number adds its deltas to the total.
LEMMA ReserveWellFormed ==
  ASSUME NEW s, WellFormed(s), NEW e \in Event, e.kind = "reserved",
         Reserved(s, e.reservation) = {}
  PROVE  /\ WellFormed(Reserve(s, e))
         /\ \A c \in Counters : Used(Reserve(s, e))[c] = Used(s)[c] + e.deltas[c]
  <1> DEFINE r == [reservation |-> e.reservation, act |-> e.act,
                   deltas |-> e.deltas, expires |-> e.expires]
             s1 == Reserve(s, e)
  <1>1. r \in Reservation
    BY DEF Event, Reservation
  <1>2. \A q \in s.reserved : q.reservation # r.reservation
    BY DEF Reserved
  <1>3. r \notin s.reserved
    BY <1>2
  <1>4. s1 = [s EXCEPT !.reserved = s.reserved \cup {r}]
    BY DEF Reserve
  <1>5. r.deltas = e.deltas
    OBVIOUS
  <1> HIDE DEF r, s1
  <1>6. s \in LedgerState /\ s.reserved \in SUBSET Reservation
    BY DEF WellFormed, LedgerState
  <1>7. /\ s1 \in LedgerState
        /\ s1.reserved = s.reserved \cup {r}
        /\ s1.committed = s.committed
    BY <1>1, <1>4, <1>6 DEF LedgerState
  <1>8. \A c \in Counters :
          /\ IsFiniteSet(UnitsHeld(s1.reserved, c))
          /\ Held(s1.reserved, c) = Held(s.reserved, c) + r.deltas[c]
    <2>1. ASSUME NEW c \in Counters
          PROVE  /\ IsFiniteSet(UnitsHeld(s.reserved \cup {r}, c))
                 /\ Held(s.reserved \cup {r}, c) = Held(s.reserved, c) + r.deltas[c]
      <3>1. IsFiniteSet(UnitsHeld(s.reserved, c))
        BY DEF WellFormed
      <3>2. QED
        BY <1>1, <1>3, <1>6, <3>1, HeldAdd
    <2>2. QED
      BY <1>7, <2>1
  <1>9. WellFormed(s1)
    BY <1>2, <1>7, <1>8 DEF WellFormed
  <1>10. ASSUME NEW c \in Counters
         PROVE  Used(s1)[c] = Used(s)[c] + e.deltas[c]
    <2>1. /\ Used(s)[c] = s.committed[c] + Held(s.reserved, c)
          /\ Used(s1)[c] = s1.committed[c] + Held(s1.reserved, c)
      BY <1>9, UsedType
    <2>2. Held(s.reserved, c) \in Nat
      BY HeldType DEF WellFormed
    <2>3. s.committed[c] \in Nat /\ r.deltas[c] \in Nat
      BY <1>1, <1>6 DEF LedgerState, Deltas, Reservation
    <2>4. /\ s1.committed[c] = s.committed[c]
          /\ Held(s1.reserved, c) = Held(s.reserved, c) + r.deltas[c]
          /\ r.deltas[c] = e.deltas[c]
      BY <1>5, <1>7, <1>8
    <2>5. QED
      BY <2>1, <2>2, <2>3, <2>4
  <1>11. QED
    BY <1>9, <1>10 DEF s1

----------------------------------------------------------------------------
\* An accepted event takes a well-formed state to a well-formed one, one
\* number further.  The total moves only by a reservation's deltas, or down;
\* labels and committed spend only grow.
LEMMA ApplyWellFormed ==
  ASSUME NEW s, WellFormed(s), NEW e \in Event, Accepts(s, e)
  PROVE  /\ WellFormed(Apply(s, e))
         /\ Apply(s, e).seq = s.seq + 1
         /\ s.labels \subseteq Apply(s, e).labels
         /\ \A c \in Counters :
              /\ s.committed[c] <= Apply(s, e).committed[c]
              /\ e.kind = "reserved" =>
                   Used(Apply(s, e))[c] = Used(s)[c] + e.deltas[c]
              /\ e.kind # "reserved" => Used(Apply(s, e))[c] <= Used(s)[c]
  <1> DEFINE s1 == Effect(s, e)
             s2 == Apply(s, e)
  <1>1. /\ WellFormed(s1)
        /\ s1.seq = s.seq
        /\ s.labels \subseteq s1.labels
        /\ \A c \in Counters :
             /\ s.committed[c] <= s1.committed[c]
             /\ e.kind = "reserved" => Used(s1)[c] = Used(s)[c] + e.deltas[c]
             /\ e.kind # "reserved" => Used(s1)[c] <= Used(s)[c]
    <2>1. s \in LedgerState /\ Used(s) \in Deltas
      BY UsedType DEF WellFormed
    <2>2. \A c \in Counters : s.committed[c] \in Nat /\ Used(s)[c] \in Nat
      BY <2>1 DEF LedgerState, Deltas
    <2>3. CASE e.kind \in {"session_opened", "decided", "approval_granted",
                          "approval_consumed"}
      <3>1. /\ s1 \in LedgerState
            /\ s1.reserved = s.reserved
            /\ s1.committed = s.committed
            /\ s1.labels = s.labels
            /\ s1.seq = s.seq
        <4>1. CASE e.kind = "session_opened"
          BY <2>1, <4>1 DEF Effect, LedgerState, Event
        <4>2. CASE e.kind = "decided"
          BY <2>1, <4>2 DEF Effect
        <4>3. CASE e.kind = "approval_granted"
          BY <2>1, <4>3 DEF Effect, LedgerState, Event
        <4>4. CASE e.kind = "approval_consumed"
          BY <2>1, <4>4 DEF Effect, LedgerState, Event
        <4>5. QED
          BY <2>3, <4>1, <4>2, <4>3, <4>4
      <3>2. Used(s1) = Used(s)
        BY <3>1 DEF Used
      <3>3. WellFormed(s1)
        BY <3>1 DEF WellFormed
      <3>4. QED
        BY <2>2, <2>3, <3>1, <3>2, <3>3
    <2>4. CASE e.kind = "reserved"
      <3>1. s1 = Reserve(s, e) /\ Reserved(s, e.reservation) = {}
        BY <2>4 DEF Effect, Accepts
      <3>2. /\ WellFormed(s1)
            /\ \A c \in Counters : Used(s1)[c] = Used(s)[c] + e.deltas[c]
        BY <2>4, <3>1, ReserveWellFormed
      <3>3. s1.seq = s.seq /\ s1.labels = s.labels /\ s1.committed = s.committed
        BY <2>1, <3>1 DEF Reserve, LedgerState
      <3>4. QED
        BY <2>2, <2>4, <3>2, <3>3
    <2>5. CASE e.kind = "settled" /\ e.outcome = "committed"
      <3>1. /\ s1 = Commit(s, e.reservation, e.labels)
            /\ Reserved(s, e.reservation) # {}
            /\ e.labels \in SUBSET Labels
        BY <2>5 DEF Effect, Accepts, Event
      <3>2. /\ WellFormed(s1)
            /\ s1.labels = s.labels \cup e.labels
            /\ \A c \in Counters :
                 /\ s.committed[c] <= s1.committed[c]
                 /\ Used(s1)[c] = Used(s)[c]
        BY <3>1, CommitWellFormed
      <3>3. s1.seq = s.seq
        BY <2>1, <3>1 DEF Commit, Release, LedgerState
      <3>4. QED
        BY <2>2, <2>5, <3>2, <3>3
    <2>6. CASE e.kind = "settled" /\ e.outcome = "released"
      <3>1. s1 = Release(s, e.reservation) /\ Reserved(s, e.reservation) # {}
        BY <2>6 DEF Effect, Accepts
      <3>2. /\ WellFormed(s1)
            /\ s1.committed = s.committed
            /\ \A c \in Counters :
                 Held(s.reserved, c)
                   = Held(s1.reserved, c) + Entry(s, e.reservation).deltas[c]
        BY <3>1, ReleaseWellFormed
      <3>3. s1.seq = s.seq /\ s1.labels = s.labels
        BY <2>1, <3>1 DEF Release, LedgerState
      <3>4. Entry(s, e.reservation) \in Reservation
        BY <2>1, <3>1, EntryIsOpen DEF LedgerState
      <3>5. ASSUME NEW c \in Counters
            PROVE  Used(s1)[c] <= Used(s)[c]
        <4>1. /\ Used(s)[c] = s.committed[c] + Held(s.reserved, c)
              /\ Used(s1)[c] = s1.committed[c] + Held(s1.reserved, c)
          BY <3>2, UsedType
        <4>2. Held(s1.reserved, c) \in Nat
          BY <3>2, HeldType DEF WellFormed
        <4>3. Entry(s, e.reservation).deltas[c] \in Nat
          BY <3>4 DEF Reservation, Deltas
        <4>4. QED
          BY <2>2, <3>2, <4>1, <4>2, <4>3
      <3>6. QED
        BY <2>2, <2>6, <3>2, <3>3, <3>5
    <2>7. /\ e.kind \in {"session_opened", "decided", "reserved", "settled",
                        "approval_granted", "approval_consumed"}
          /\ e.kind = "settled" => e.outcome \in {"committed", "released"}
      BY DEF Event, Outcomes
    <2>8. QED
      BY <2>3, <2>4, <2>5, <2>6, <2>7
  <1>2. s1 \in LedgerState /\ s2 = [s1 EXCEPT !.seq = s.seq + 1] /\ s.seq \in Nat
    BY <1>1 DEF WellFormed, Apply, LedgerState
  <1> HIDE DEF s1, s2
  <1>3. /\ s2 \in LedgerState
        /\ s2.seq = s.seq + 1
        /\ s2.reserved = s1.reserved
        /\ s2.committed = s1.committed
        /\ s2.labels = s1.labels
    BY <1>2 DEF LedgerState
  <1>4. WellFormed(s2) /\ Used(s2) = Used(s1)
    BY <1>1, <1>3 DEF WellFormed, Used
  <1>5. QED
    BY <1>1, <1>3, <1>4 DEF s2

\* What an accepted event does to each part of the state: what it reserves or
\* settles,
LEMMA ApplyReserved ==
  ASSUME NEW s, WellFormed(s), NEW e \in Event, Accepts(s, e)
  PROVE  /\ e.kind = "reserved" =>
              Apply(s, e).reserved =
                s.reserved \cup {[reservation |-> e.reservation, act |-> e.act,
                                  deltas |-> e.deltas, expires |-> e.expires]}
         /\ e.kind = "settled" =>
              Apply(s, e).reserved = s.reserved \ Reserved(s, e.reservation)
         /\ e.kind \notin {"reserved", "settled"} =>
              Apply(s, e).reserved = s.reserved
  <1>1. s \in LedgerState
    BY DEF WellFormed
  <1>2. CASE e.kind = "reserved"
    BY <1>1, <1>2 DEF Apply, Effect, Reserve, LedgerState
  <1>3. CASE e.kind = "settled" /\ e.outcome = "committed"
    BY <1>1, <1>3 DEF Apply, Effect, Commit, Release, LedgerState
  <1>4. CASE e.kind = "settled" /\ e.outcome = "released"
    BY <1>1, <1>4 DEF Apply, Effect, Release, LedgerState
  <1>5. CASE e.kind \notin {"reserved", "settled"}
    BY <1>1, <1>5 DEF Apply, Effect, LedgerState, Event
  <1>6. e.kind = "settled" => e.outcome \in {"committed", "released"}
    BY DEF Event, Outcomes
  <1>7. QED
    BY <1>2, <1>3, <1>4, <1>5, <1>6

\* what it commits,
LEMMA ApplyCommitted ==
  ASSUME NEW s, WellFormed(s), NEW e \in Event, Accepts(s, e)
  PROVE  /\ e.kind = "settled" /\ e.outcome = "committed" =>
              /\ Apply(s, e).committed =
                   [c \in Counters |->
                      s.committed[c] + Entry(s, e.reservation).deltas[c]]
              /\ Apply(s, e).labels = s.labels \cup e.labels
         /\ ~(e.kind = "settled" /\ e.outcome = "committed") =>
              /\ Apply(s, e).committed = s.committed
              /\ Apply(s, e).labels = s.labels
  <1>1. s \in LedgerState
    BY DEF WellFormed
  <1>2. CASE e.kind = "reserved"
    BY <1>1, <1>2 DEF Apply, Effect, Reserve, LedgerState
  <1>3. CASE e.kind = "settled" /\ e.outcome = "committed"
    BY <1>1, <1>3 DEF Apply, Effect, Commit, Release, LedgerState
  <1>4. CASE e.kind = "settled" /\ e.outcome = "released"
    BY <1>1, <1>4 DEF Apply, Effect, Release, LedgerState
  <1>5. CASE e.kind \notin {"reserved", "settled"}
    BY <1>1, <1>5 DEF Apply, Effect, LedgerState, Event
  <1>6. e.kind = "settled" => e.outcome \in {"committed", "released"}
    BY DEF Event, Outcomes
  <1>7. QED
    BY <1>2, <1>3, <1>4, <1>5, <1>6

\* and what it does to the approvals.
LEMMA ApplyApprovals ==
  ASSUME NEW s, WellFormed(s), NEW e \in Event, Accepts(s, e)
  PROVE  /\ e.kind = "approval_granted" =>
              Apply(s, e).approvals = s.approvals \cup {e.act}
         /\ e.kind = "approval_consumed" =>
              Apply(s, e).approvals = s.approvals \ {e.act}
         /\ e.kind \notin {"approval_granted", "approval_consumed"} =>
              Apply(s, e).approvals = s.approvals
  <1>1. s \in LedgerState
    BY DEF WellFormed
  <1>2. CASE e.kind = "reserved"
    BY <1>1, <1>2 DEF Apply, Effect, Reserve, LedgerState
  <1>3. CASE e.kind = "settled" /\ e.outcome = "committed"
    BY <1>1, <1>3 DEF Apply, Effect, Commit, Release, LedgerState
  <1>4. CASE e.kind = "settled" /\ e.outcome = "released"
    BY <1>1, <1>4 DEF Apply, Effect, Release, LedgerState
  <1>5. CASE e.kind \notin {"reserved", "settled"}
    BY <1>1, <1>5 DEF Apply, Effect, LedgerState, Event
  <1>6. e.kind = "settled" => e.outcome \in {"committed", "released"}
    BY DEF Event, Outcomes
  <1>7. QED
    BY <1>2, <1>3, <1>4, <1>5, <1>6
=============================================================================
