-------------------------- MODULE AdmissionProofs ---------------------------
(***************************************************************************)
(* What loading a bundle is worth, for any declarations, calls, facts and  *)
(* allowlist: every call ends in a verdict, its reservation is an amount,  *)
(* the allowlist means what it lists, the store has no entity twice; an    *)
(* amount is what was written, a path stays in its sandbox, and what runs  *)
(* is what was decided.  The last three are about loops over sequences of  *)
(* any length: they are proved by induction over a set of sequences, which *)
(* the well-foundedness of < gives without an operator parameter.          *)
(***************************************************************************)
EXTENDS Admission, SequenceTheorems, WellFoundedInduction, TLAPS

----------------------------------------------------------------------------
(* Induction over sequences, and loops. *)

\* The least of a set of naturals.
LEMMA LeastNat ==
  ASSUME NEW S \in SUBSET Nat, S # {}
  PROVE  \E m \in S : \A n \in S : m <= n
<1>1. PICK m \in S : \A n \in S : ~(<<n, m>> \in OpToRel(<, Nat))
  BY NatLessThanWellFounded, WFMin, Zenon
<1>2. \A n \in S : ~(n < m)
  BY <1>1 DEF OpToRel
<1> QED BY <1>2

\* Induction over the naturals, for a set of them.
LEMMA NatInductionSet ==
  ASSUME NEW P, 0 \in P, \A n \in Nat : n \in P => n + 1 \in P
  PROVE  Nat \subseteq P
<1> DEFINE Q == Nat \ P
<1>1. ASSUME Q # {}
      PROVE  FALSE
  <2>1. Q \in SUBSET Nat
    OBVIOUS
  <2>2. PICK m \in Q : \A n \in Q : m <= n
    <3> HIDE DEF Q
    <3> QED BY <1>1, <2>1, LeastNat
  <2>3. m \in Nat /\ m # 0
    OBVIOUS
  <2>4. m - 1 \in Nat /\ (m - 1) + 1 = m /\ ~(m <= m - 1)
    BY <2>3
  <2>5. m - 1 \notin P
    BY <2>3, <2>4
  <2> QED BY <2>2, <2>4, <2>5
<1> QED BY <1>1

\* Induction over sequences, for a set of them, from the back.
LEMMA SeqInduction ==
  ASSUME NEW E, NEW P, <<>> \in P,
         \A s \in Seq(E) : \A e \in E : s \in P => Append(s, e) \in P
  PROVE  Seq(E) \subseteq P
<1> DEFINE Q == {n \in Nat : \A s \in Seq(E) : Len(s) = n => s \in P}
<1>1. 0 \in Q
  BY EmptySeq
<1>2. ASSUME NEW n \in Nat, n \in Q
      PROVE  n + 1 \in Q
  <2> SUFFICES ASSUME NEW s \in Seq(E), Len(s) = n + 1
               PROVE  s \in P
    OBVIOUS
  <2>1. s # <<>>
    BY EmptySeq
  <2>2. PICK r \in Seq(E), e \in E : s = Append(r, e)
    BY <2>1, SequenceEmptyOrAppend
  <2>3. Len(r) = n
    BY <2>2, AppendProperties, LenProperties
  <2> QED BY <1>2, <2>2, <2>3
<1>3. Nat \subseteq Q
  <2> HIDE DEF Q
  <2> QED BY <1>1, <1>2, NatInductionSet
<1>4. \A s \in Seq(E) : Len(s) \in Nat
  BY LenProperties
<1> QED BY <1>3, <1>4

\* f says what a loop has after each of its first n steps.
IsLoop(f, step, first, seq, n) ==
  f = [i \in 0 .. n |-> IF i = 0 THEN first ELSE step[f[i - 1]][seq[i]]]

\* There is such an f.
LEMMA LoopExists ==
  ASSUME NEW step, NEW first, NEW seq, NEW n \in Nat
  PROVE  \E f : IsLoop(f, step, first, seq, n)
<1> DEFINE P == {k \in Nat : \E f : IsLoop(f, step, first, seq, k)}
<1>1. 0 \in P
  <2>1. IsLoop([i \in 0 .. 0 |-> first], step, first, seq, 0)
    BY DEF IsLoop
  <2> QED BY <2>1
<1>2. ASSUME NEW k \in Nat, k \in P
      PROVE  k + 1 \in P
  <2>1. PICK f : IsLoop(f, step, first, seq, k)
    BY <1>2
  <2> DEFINE g == [i \in 0 .. k + 1 |-> IF i = k + 1 THEN step[f[k]][seq[k + 1]] ELSE f[i]]
  <2>2. f = [i \in 0 .. k |-> IF i = 0 THEN first ELSE step[f[i - 1]][seq[i]]]
    BY <2>1 DEF IsLoop
  <2>3. ASSUME NEW i \in 0 .. k + 1
        PROVE  g[i] = IF i = 0 THEN first ELSE step[g[i - 1]][seq[i]]
    <3>1. CASE i = k + 1
      <4>1. k \in 0 .. k + 1 /\ k # k + 1 /\ i - 1 = k /\ i # 0
        BY <3>1
      <4>2. g[k] = f[k] /\ g[i] = step[f[k]][seq[k + 1]]
        BY <3>1, <4>1
      <4> QED BY <3>1, <4>1, <4>2
    <3>2. CASE i \in 1 .. k
      <4>1. g[i] = f[i] /\ g[i - 1] = f[i - 1]
        BY <3>2
      <4>2. f[i] = step[f[i - 1]][seq[i]]
        BY <2>2, <3>2
      <4> QED BY <3>2, <4>1, <4>2
    <3>3. CASE i = 0
      <4>1. f[0] = first
        BY <2>2
      <4>2. 0 \in 0 .. k + 1 /\ 0 # k + 1
        OBVIOUS
      <4>3. g[0] = f[0]
        BY <4>2
      <4> QED BY <3>3, <4>1, <4>3
    <3> QED BY <3>1, <3>2, <3>3
  <2>4. IsLoop(g, step, first, seq, k + 1)
    BY <2>3, Zenon DEF IsLoop
  <2> QED BY <2>4
<1>3. Nat \subseteq P
  <2> HIDE DEF P
  <2> QED BY <1>1, <1>2, NatInductionSet
<1> QED BY <1>3

\* What a loop has after its last step, from what it has after each.
LEMMA FoldedSteps ==
  ASSUME NEW step, NEW first, NEW seq, Len(seq) \in Nat
  PROVE  \E f : /\ f[0] = first
                /\ \A i \in 1 .. Len(seq) : f[i] = step[f[i - 1]][seq[i]]
                /\ Folded(step, first, seq) = f[Len(seq)]
<1> DEFINE f == CHOOSE f : IsLoop(f, step, first, seq, Len(seq))
<1>1. IsLoop(f, step, first, seq, Len(seq))
  BY LoopExists
<1>2. Folded(step, first, seq) = f[Len(seq)]
  BY DEF Folded, IsLoop
<1> HIDE DEF f
<1>3. f = [i \in 0 .. Len(seq) |-> IF i = 0 THEN first ELSE step[f[i - 1]][seq[i]]]
  BY <1>1 DEF IsLoop
<1>4. f[0] = first /\ \A i \in 1 .. Len(seq) : f[i] = step[f[i - 1]][seq[i]]
  BY <1>3
<1> QED BY <1>2, <1>4

\* A loop over nothing, and over one element more.
LEMMA FoldedEmpty ==
  ASSUME NEW step, NEW first
  PROVE  Folded(step, first, <<>>) = first
<1>1. Len(<<>>) = 0
  OBVIOUS
<1> QED BY <1>1, FoldedSteps

LEMMA FoldedAppend ==
  ASSUME NEW step, NEW first, NEW E, NEW s \in Seq(E), NEW e \in E
  PROVE  Folded(step, first, Append(s, e)) = step[Folded(step, first, s)][e]
<1> DEFINE n == Len(s)
           t == Append(s, e)
<1>1. n \in Nat /\ Len(t) = n + 1 /\ t[n + 1] = e /\ \A i \in 1 .. n : t[i] = s[i]
  BY AppendProperties, LenProperties
<1> HIDE DEF t
<1>2. PICK f : /\ f[0] = first
               /\ \A i \in 1 .. n : f[i] = step[f[i - 1]][s[i]]
               /\ Folded(step, first, s) = f[n]
  BY <1>1, FoldedSteps
<1>3. PICK g : /\ g[0] = first
               /\ \A i \in 1 .. n + 1 : g[i] = step[g[i - 1]][t[i]]
               /\ Folded(step, first, t) = g[n + 1]
  <2>1. Len(t) \in Nat
    BY <1>1
  <2> QED BY <1>1, <2>1, FoldedSteps
<1> DEFINE P == {k \in Nat : k <= n => f[k] = g[k]}
<1>4. 0 \in P
  BY <1>2, <1>3
<1>5. ASSUME NEW k \in Nat, k \in P
      PROVE  k + 1 \in P
  <2> SUFFICES ASSUME k + 1 <= n PROVE f[k + 1] = g[k + 1]
    OBVIOUS
  <2>1. k + 1 \in 1 .. n /\ k + 1 \in 1 .. n + 1 /\ (k + 1) - 1 = k /\ k <= n
    BY <1>1
  <2>2. f[k] = g[k]
    BY <1>5, <2>1
  <2>3. f[k + 1] = step[f[k]][s[k + 1]] /\ g[k + 1] = step[g[k]][t[k + 1]]
    BY <1>2, <1>3, <2>1
  <2> QED BY <1>1, <2>1, <2>2, <2>3
<1>6. Nat \subseteq P
  <2> HIDE DEF P
  <2> QED BY <1>4, <1>5, NatInductionSet
<1>7. f[n] = g[n]
  BY <1>1, <1>6
<1>8. g[n + 1] = step[g[n]][t[n + 1]]
  <2>1. n + 1 \in 1 .. n + 1 /\ (n + 1) - 1 = n
    BY <1>1
  <2> QED BY <1>3, <2>1
<1> QED BY <1>1, <1>2, <1>3, <1>7, <1>8 DEF t

----------------------------------------------------------------------------
(* Money. *)

Digit == 0 .. 9

\* One digit more.
LEMMA NumberIs ==
  ASSUME NEW s \in Seq(Digit), NEW d \in Digit
  PROVE  /\ Number(<<>>) = 0
         /\ Number(s) \in Nat
         /\ Number(Append(s, d)) = 10 * Number(s) + d
<1> DEFINE step == [n \in Nat |-> [c \in 0 .. 9 |-> 10 * n + c]]
           P == {t \in Seq(Digit) : Number(t) \in Nat}
<1>1. \A t : Number(t) = Folded(step, 0, t)
  BY DEF Number
<1>2. \A n \in Nat, c \in Digit : step[n][c] = 10 * n + c /\ step[n][c] \in Nat
  BY DEF Digit
<1> HIDE DEF step
<1>3. Number(<<>>) = 0
  BY <1>1, FoldedEmpty
<1>4. \A t \in Seq(Digit), c \in Digit : Number(Append(t, c)) = step[Number(t)][c]
  BY <1>1, FoldedAppend
<1>5. <<>> \in P
  BY <1>3
<1>6. \A t \in Seq(Digit) : \A c \in Digit : t \in P => Append(t, c) \in P
  BY <1>2, <1>4, AppendProperties
<1>7. Seq(Digit) \subseteq P
  <2> HIDE DEF P
  <2> QED BY <1>5, <1>6, SeqInduction
<1> QED BY <1>2, <1>3, <1>4, <1>7

\* A sequence with k zeros written behind it.
LEMMA ZerosBehind ==
  ASSUME NEW s \in Seq(Digit), NEW k \in Nat
  PROVE  /\ s \o [i \in 1 .. k |-> 0] \in Seq(Digit)
         /\ s \o [i \in 1 .. 0 |-> 0] = s
         /\ s \o [i \in 1 .. k + 1 |-> 0] = Append(s \o [i \in 1 .. k |-> 0], 0)
<1> DEFINE zeros(n) == [i \in 1 .. n |-> 0]
<1>1. \A n \in Nat : zeros(n) \in Seq(Digit) /\ Len(zeros(n)) = n
  <2> TAKE n \in Nat
  <2>1. zeros(n) \in [1 .. n -> Digit]
    BY DEF Digit
  <2>2. zeros(n) \in Seq(Digit)
    BY <2>1, SeqDef
  <2>3. Len(zeros(n)) \in Nat /\ 1 .. Len(zeros(n)) = 1 .. n
    BY <2>2, LenProperties
  <2> QED BY <2>2, <2>3
<1>2. zeros(0) = <<>>
  BY <1>1, EmptySeq
<1>3. zeros(k + 1) = Append(zeros(k), 0)
  <2>1. /\ Append(zeros(k), 0) \in Seq(Digit) /\ Len(Append(zeros(k), 0)) = k + 1
        /\ \A i \in 1 .. k : Append(zeros(k), 0)[i] = zeros(k)[i]
        /\ Append(zeros(k), 0)[k + 1] = 0
    BY <1>1, AppendProperties DEF Digit
  <2>2. \A i \in 1 .. k + 1 : zeros(k + 1)[i] = Append(zeros(k), 0)[i]
    BY <2>1
  <2>3. zeros(k + 1) \in Seq(Digit) /\ Len(zeros(k + 1)) = k + 1
    BY <1>1
  <2> HIDE DEF zeros
  <2> QED BY <2>1, <2>2, <2>3, SeqEqual
<1>4. s \o zeros(k) \in Seq(Digit)
  BY <1>1, ConcatProperties
<1>5. s \o <<>> = s
  BY ConcatEmptySeq
<1>6. s \o Append(zeros(k), 0) = Append(s \o zeros(k), 0)
  <2>1. zeros(k) \in Seq(Digit) /\ 0 \in Digit /\ <<0>> \in Seq(Digit)
    BY <1>1 DEF Digit
  <2> HIDE DEF zeros
  <2>2. Append(zeros(k), 0) = zeros(k) \o <<0>>
    BY <2>1, AppendIsConcat
  <2>3. Append(s \o zeros(k), 0) = (s \o zeros(k)) \o <<0>>
    BY <1>4, <2>1, AppendIsConcat
  <2> QED BY <2>1, <2>2, <2>3, ConcatAssociative
<1> QED BY <1>2, <1>3, <1>4, <1>5, <1>6

\* Each zero behind a number multiplies it by ten.
LEMMA ZeroIsTenfold ==
  ASSUME NEW s \in Seq(Digit), NEW k \in Nat, NEW n, n = k + 1
  PROVE  /\ Number(s \o [i \in 1 .. k |-> 0]) \in Nat
         /\ Number(s \o [i \in 1 .. n |-> 0]) = 10 * Number(s \o [i \in 1 .. k |-> 0])
<1>1. PICK z \in Seq(Digit) : z = s \o [i \in 1 .. k |-> 0]
  BY ZerosBehind
<1>2. s \o [i \in 1 .. n |-> 0] = Append(z, 0)
  BY <1>1, ZerosBehind
<1>3. Number(z) \in Nat /\ Number(Append(z, 0)) = 10 * Number(z) + 0
  BY NumberIs DEF Digit
<1>4. Number(Append(z, 0)) = 10 * Number(z)
  BY <1>3
<1> QED BY <1>1, <1>2, <1>3, <1>4

\* Up to three digits written behind a number, which is all a currency has.
LEMMA PaddedNumber ==
  ASSUME NEW s \in Seq(Digit), NEW k \in 0 .. 3
  PROVE  /\ s \o [i \in 1 .. k |-> 0] \in Seq(Digit)
         /\ Number(s) \in Nat
         /\ Number(s \o [i \in 1 .. k |-> 0]) = Number(s) * 10 ^ k
<1>1. s \o [i \in 1 .. k |-> 0] \in Seq(Digit)
  <2>1. k \in Nat
    OBVIOUS
  <2> QED BY <2>1, ZerosBehind
<1>2. s \o [i \in 1 .. 0 |-> 0] = s
  BY ZerosBehind
<1> DEFINE n0 == Number(s)
           n1 == Number(s \o [i \in 1 .. 1 |-> 0])
           n2 == Number(s \o [i \in 1 .. 2 |-> 0])
           n3 == Number(s \o [i \in 1 .. 3 |-> 0])
<1>3. n0 \in Nat /\ n1 = 10 * n0
  <2>1. 1 = 0 + 1
    OBVIOUS
  <2>2. /\ Number(s \o [i \in 1 .. 0 |-> 0]) \in Nat
        /\ n1 = 10 * Number(s \o [i \in 1 .. 0 |-> 0])
    BY <2>1, ZeroIsTenfold
  <2> QED BY <1>2, <2>2
<1>4. n2 = 10 * n1
  <2>1. 2 = 1 + 1
    OBVIOUS
  <2> QED BY <2>1, ZeroIsTenfold
<1>5. n3 = 10 * n2
  <2>1. 3 = 2 + 1
    OBVIOUS
  <2> QED BY <2>1, ZeroIsTenfold
<1>6. 10 ^ 0 = 1 /\ 10 ^ 1 = 10 /\ 10 ^ 2 = 100 /\ 10 ^ 3 = 1000
  OBVIOUS
<1>7. n1 = n0 * 10 ^ 1 /\ n2 = n0 * 10 ^ 2 /\ n3 = n0 * 10 ^ 3 /\ n0 = n0 * 10 ^ 0
  <2> HIDE DEF n0, n1, n2, n3
  <2> QED BY <1>3, <1>4, <1>5, <1>6
<1>8. CASE k = 0
  BY <1>1, <1>2, <1>3, <1>7, <1>8
<1>9. CASE k = 1
  BY <1>1, <1>3, <1>7, <1>9
<1>10. CASE k = 2
  BY <1>1, <1>3, <1>7, <1>10
<1>11. CASE k = 3
  BY <1>1, <1>3, <1>7, <1>11
<1> QED BY <1>8, <1>9, <1>10, <1>11

\* The powers of ten an amount meets: of the digits written, of those that are
\* left out, and of all that its currency has.
Powers(p, q, r) ==
  <<p, q, r>> \in
    {<<1, 1, 1>>, <<1, 100, 100>>, <<10, 10, 100>>, <<100, 1, 100>>, <<1, 1000, 1000>>,
     <<10, 100, 1000>>, <<100, 10, 1000>>, <<1000, 1, 1000>>}

LEMMA Tens ==
  ASSUME NEW e \in {0, 2, 3}, NEW l \in 0 .. e
  PROVE  Powers(10 ^ l, 10 ^ (e - l), 10 ^ e)
<1>1. 10 ^ 0 = 1 /\ 10 ^ 1 = 10 /\ 10 ^ 2 = 100 /\ 10 ^ 3 = 1000
  OBVIOUS
<1>5. e \in Nat /\ l \in Nat /\ l <= e
  OBVIOUS
<1>2. CASE e = 0
  <2>1. l = 0
    BY <1>2, <1>5
  <2>3. e - l = 0
    BY <1>2, <2>1
  <2>2. 10 ^ l = 1 /\ 10 ^ (e - l) = 1 /\ 10 ^ e = 1
    BY <1>1, <1>2, <2>1, <2>3
  <2> QED BY <2>2 DEF Powers
<1>3. CASE e = 2
  <2>1. CASE l = 0
    <3>1. e - l = 2
      BY <1>3, <2>1
    <3>2. 10 ^ l = 1 /\ 10 ^ (e - l) = 100 /\ 10 ^ e = 100
      BY <1>1, <1>3, <2>1, <3>1
    <3> QED BY <3>2 DEF Powers
  <2>2. CASE l = 1
    <3>1. e - l = 1
      BY <1>3, <2>2
    <3>2. 10 ^ l = 10 /\ 10 ^ (e - l) = 10 /\ 10 ^ e = 100
      BY <1>1, <1>3, <2>2, <3>1
    <3> QED BY <3>2 DEF Powers
  <2>3. CASE l = 2
    <3>1. e - l = 0
      BY <1>3, <2>3
    <3>2. 10 ^ l = 100 /\ 10 ^ (e - l) = 1 /\ 10 ^ e = 100
      BY <1>1, <1>3, <2>3, <3>1
    <3> QED BY <3>2 DEF Powers
  <2> QED BY <1>3, <1>5, <2>1, <2>2, <2>3
<1>4. CASE e = 3
  <2>1. CASE l = 0
    <3>1. e - l = 3
      BY <1>4, <2>1
    <3>2. 10 ^ l = 1 /\ 10 ^ (e - l) = 1000 /\ 10 ^ e = 1000
      BY <1>1, <1>4, <2>1, <3>1
    <3> QED BY <3>2 DEF Powers
  <2>2. CASE l = 1
    <3>1. e - l = 2
      BY <1>4, <2>2
    <3>2. 10 ^ l = 10 /\ 10 ^ (e - l) = 100 /\ 10 ^ e = 1000
      BY <1>1, <1>4, <2>2, <3>1
    <3> QED BY <3>2 DEF Powers
  <2>3. CASE l = 2
    <3>1. e - l = 1
      BY <1>4, <2>3
    <3>2. 10 ^ l = 100 /\ 10 ^ (e - l) = 10 /\ 10 ^ e = 1000
      BY <1>1, <1>4, <2>3, <3>1
    <3> QED BY <3>2 DEF Powers
  <2>4. CASE l = 3
    <3>1. e - l = 0
      BY <1>4, <2>4
    <3>2. 10 ^ l = 1000 /\ 10 ^ (e - l) = 1 /\ 10 ^ e = 1000
      BY <1>1, <1>4, <2>4, <3>1
    <3> QED BY <3>2 DEF Powers
  <2> QED BY <1>4, <1>5, <2>1, <2>2, <2>3, <2>4
<1> QED BY <1>2, <1>3, <1>4

\* The last digit of a number.
LEMMA LastDigit ==
  ASSUME NEW n \in Nat, NEW m, m = n + 1, NEW t \in Seq(Digit), Len(t) = m
  PROVE  /\ t[m] \in Digit
         /\ \E r \in Seq(Digit) : /\ Len(r) = n
                                  /\ \A i \in 1 .. n : t[i] = r[i]
                                  /\ Number(t) = 10 * Number(r) + t[m]
<1>1. t # <<>>
  <2>1. Len(t) # 0
    OBVIOUS
  <2> QED BY <2>1, EmptySeq
<1>2. PICK r \in Seq(Digit), b \in Digit : t = Append(r, b)
  BY <1>1, SequenceEmptyOrAppend
<1>3. Len(r) \in Nat
  BY LenProperties
<1>4. /\ Len(t) = Len(r) + 1 /\ t[Len(r) + 1] = b
      /\ \A i \in 1 .. Len(r) : t[i] = r[i]
  BY <1>2, AppendProperties
<1>5. Len(r) = n /\ t[m] = b
  BY <1>3, <1>4
<1>6. Number(t) = 10 * Number(r) + b
  BY <1>2, NumberIs
<1> QED BY <1>4, <1>5, <1>6

\* A number of two digits, or of three.
LEMMA NumberOfDigits ==
  ASSUME NEW d \in Seq(Digit)
  PROVE  /\ Len(d) = 0 => Number(d) = 0
         /\ Len(d) = 2 => Number(d) = 10 * d[1] + d[2]
         /\ Len(d) = 3 => Number(d) = 10 * (10 * d[1] + d[2]) + d[3]
<1>1. \A t \in Seq(Digit) : Len(t) = 0 => Number(t) = 0
  BY EmptySeq, NumberIs DEF Digit
<1>2. ASSUME NEW t \in Seq(Digit), Len(t) = 2
      PROVE  Number(t) = 10 * t[1] + t[2]
  <2>1. 2 = 1 + 1 /\ 1 = 0 + 1 /\ 0 \in Nat /\ 1 \in Nat
    OBVIOUS
  <2>2. PICK r \in Seq(Digit) : Len(r) = 1 /\ (\A i \in 1 .. 1 : t[i] = r[i])
                                 /\ Number(t) = 10 * Number(r) + t[2]
    BY <1>2, <2>1, LastDigit
  <2>3. PICK q \in Seq(Digit) : Len(q) = 0 /\ Number(r) = 10 * Number(q) + r[1] /\ r[1] \in Digit
    BY <2>1, <2>2, LastDigit
  <2>4. Number(q) = 0
    BY <1>1, <2>3
  <2>5. 1 \in 1 .. 1
    OBVIOUS
  <2>6. t[1] = r[1]
    BY <2>2, <2>5
  <2> QED BY <2>2, <2>3, <2>4, <2>6 DEF Digit
<1>3. ASSUME Len(d) = 3
      PROVE  Number(d) = 10 * (10 * d[1] + d[2]) + d[3]
  <2>1. 3 = 2 + 1 /\ 2 \in Nat
    OBVIOUS
  <2>2. PICK r \in Seq(Digit) : Len(r) = 2 /\ (\A i \in 1 .. 2 : d[i] = r[i])
                                 /\ Number(d) = 10 * Number(r) + d[3]
    BY <1>3, <2>1, LastDigit
  <2>3. Number(r) = 10 * r[1] + r[2] /\ d[1] = r[1] /\ d[2] = r[2]
    BY <1>2, <2>2
  <2> QED BY <2>2, <2>3
<1> QED BY <1>1, <1>2, <1>3

\* What decimal_text() writes of m in a currency with e digits.
WrittenOut(m, e, w, d) ==
  w = m \div 10 ^ e /\ d = [i \in 1 .. e |-> (m \div 10 ^ (e - i)) % 10]

\* What canonical_money() reads where there are e digits.
ReadBack(w, e, d) == w * 10 ^ e + Number(d)

\* It reads what was written out.
LEMMA DigitsAre ==
  ASSUME NEW m \in Nat, NEW e \in {0, 2, 3}, NEW w, NEW d,
         WrittenOut(m, e, w, d)
  PROVE  /\ d \in Seq(Digit) /\ Len(d) = e
         /\ w \in Nat
         /\ ReadBack(w, e, d) = m
<1>1. 10 ^ 0 = 1 /\ 10 ^ 1 = 10 /\ 10 ^ 2 = 100 /\ 10 ^ 3 = 1000
  OBVIOUS
<1>9. w = m \div 10 ^ e /\ d = [i \in 1 .. e |-> (m \div 10 ^ (e - i)) % 10]
  BY DEF WrittenOut
<1>2. \A i \in 1 .. e : 10 ^ (e - i) \in {1, 10, 100}
  <2> TAKE i \in 1 .. e
  <2>1. PICK x : x = e - i
    OBVIOUS
  <2>2. x \in {0, 1, 2}
    <3>1. e = 0 \/ e = 2 \/ e = 3
      OBVIOUS
    <3> QED BY <2>1, <3>1
  <2>3. CASE x = 0
    <3>1. 10 ^ x = 1
      BY <1>1, <2>3
    <3> QED BY <2>1, <3>1
  <2>4. CASE x = 1
    <3>1. 10 ^ x = 10
      BY <1>1, <2>4
    <3> QED BY <2>1, <3>1
  <2>5. CASE x = 2
    <3>1. 10 ^ x = 100
      BY <1>1, <2>5
    <3> QED BY <2>1, <3>1
  <2> QED BY <2>2, <2>3, <2>4, <2>5
<1>3. \A i \in 1 .. e : (m \div 10 ^ (e - i)) % 10 \in Digit
  <2>1. (m \div 1) % 10 \in 0 .. 9 /\ (m \div 10) % 10 \in 0 .. 9 /\ (m \div 100) % 10 \in 0 .. 9
    OBVIOUS
  <2> QED BY <1>2, <2>1 DEF Digit
<1>4. d \in Seq(Digit) /\ Len(d) = e
  <2>1. d \in [1 .. e -> Digit] /\ e \in Nat
    BY <1>3, <1>9
  <2>2. d \in Seq(Digit)
    BY <2>1, SeqDef
  <2>3. Len(d) \in Nat /\ 1 .. Len(d) = 1 .. e
    BY <2>1, <2>2, LenProperties
  <2> QED BY <2>1, <2>2, <2>3
<1>6. CASE e = 0
  <2>1. Number(d) = 0
    BY <1>4, <1>6, NumberOfDigits
  <2> QED BY <1>1, <1>4, <1>9, <1>6, <2>1 DEF ReadBack
<1>7. CASE e = 2
  <2>1. 2 - 1 = 1 /\ 2 - 2 = 0 /\ 1 \in 1 .. e /\ 2 \in 1 .. e
    BY <1>7
  <2>2. d[1] = (m \div 10) % 10 /\ d[2] = (m \div 1) % 10
    BY <1>1, <1>7, <1>9, <2>1
  <2>3. Number(d) = 10 * d[1] + d[2]
    BY <1>4, <1>7, NumberOfDigits
  <2>4. m = 100 * (m \div 100) + (10 * ((m \div 10) % 10) + ((m \div 1) % 10))
    OBVIOUS
  <2>5. m \div 100 \in Nat
    OBVIOUS
  <2> QED BY <1>1, <1>4, <1>9, <1>7, <2>2, <2>3, <2>4, <2>5 DEF ReadBack
<1>8. CASE e = 3
  <2>1. 3 - 1 = 2 /\ 3 - 2 = 1 /\ 3 - 3 = 0 /\ 1 \in 1 .. e /\ 2 \in 1 .. e /\ 3 \in 1 .. e
    BY <1>8
  <2>2. d[1] = (m \div 100) % 10 /\ d[2] = (m \div 10) % 10 /\ d[3] = (m \div 1) % 10
    BY <1>1, <1>8, <1>9, <2>1
  <2>3. Number(d) = 10 * (10 * d[1] + d[2]) + d[3]
    BY <1>4, <1>8, NumberOfDigits
  <2>4. m = 1000 * (m \div 1000)
              + (10 * (10 * ((m \div 100) % 10) + ((m \div 10) % 10)) + ((m \div 1) % 10))
    OBVIOUS
  <2>5. m \div 1000 \in Nat
    OBVIOUS
  <2> QED BY <1>1, <1>4, <1>9, <1>8, <2>2, <2>3, <2>4, <2>5 DEF ReadBack
<1> QED BY <1>6, <1>7, <1>8

\* An amount in text, read again.
LEMMA TextReadsBack ==
  ASSUME NEW arg, NEW cur \in arg.currencies, NEW e \in {0, 2, 3}, Exponent[cur] = e,
         NEW m \in Nat, m \in arg.low .. arg.high
  PROVE  LET c == [kind |-> "money", minor |-> m, currency |-> cur]
         IN  CanonicalMoney(arg, DecimalText(c)) = c
<1> DEFINE c == [kind |-> "money", minor |-> m, currency |-> cur]
<1>1. PICK w, d : WrittenOut(m, e, w, d)
  BY DEF WrittenOut
<1>2. d \in Seq(Digit) /\ Len(d) = e /\ w \in Nat /\ ReadBack(w, e, d) = m
  <2>1. d \in Seq(Digit)
    BY <1>1, DigitsAre
  <2>2. Len(d) = e
    BY <1>1, DigitsAre
  <2>3. w \in Nat
    BY <1>1, DigitsAre
  <2>4. ReadBack(w, e, d) = m
    BY <1>1, DigitsAre
  <2> QED BY <2>1, <2>2, <2>3, <2>4
<1> DEFINE t == [kind |-> "money", currency |-> cur, whole |-> w, digits |-> d]
<1>3. DecimalText(c) = t
  BY <1>1 DEF DecimalText, WrittenOut
<1>4. t.currency = cur /\ t.whole = w /\ t.digits = d
  OBVIOUS
<1> HIDE DEF t
<1>5. Number(Padded(t.digits, Exponent[t.currency])) = Number(d)
  <2>1. e - Len(d) = 0
    BY <1>2
  <2>2. d \o [i \in 1 .. 0 |-> 0] = d
    BY <1>2, ZerosBehind
  <2> QED BY <1>4, <2>1, <2>2 DEF Padded
<1>6. t.whole * 10 ^ Exponent[t.currency] + Number(Padded(t.digits, Exponent[t.currency])) = m
  BY <1>2, <1>4, <1>5 DEF ReadBack
<1>7. t.currency \in arg.currencies /\ Len(t.digits) <= Exponent[t.currency]
  BY <1>2, <1>4
<1>8. CanonicalMoney(arg, t) = c
  BY <1>4, <1>6, <1>7 DEF CanonicalMoney
<1> QED BY <1>3, <1>8

\* canonical_money(): the amount is what was written, and its text is read as it.
LEMMA MoneyIs ==
  ASSUME NEW arg, arg.low \in Nat, arg.high \in Int, arg.currencies \subseteq DOMAIN Exponent,
         NEW v, v.whole \in Nat, v.digits \in Seq(Digit),
         NEW c, c = CanonicalMoney(arg, v), c # Rejection
  PROVE  /\ c.minor * 10 ^ Len(v.digits) =
              (v.whole * 10 ^ Len(v.digits) + Number(v.digits)) * 10 ^ Exponent[v.currency]
         /\ c = [kind |-> "money", minor |-> c.minor, currency |-> c.currency]
         /\ CanonicalMoney(arg, DecimalText(c)) = c
<1> DEFINE e == Exponent[v.currency]
           l == Len(v.digits)
           minor == v.whole * 10 ^ e + Number(Padded(v.digits, e))
<1>1. /\ v.currency \in arg.currencies /\ l <= e /\ minor \in arg.low .. arg.high
      /\ c = [kind |-> "money", minor |-> minor, currency |-> v.currency]
  BY DEF CanonicalMoney
<1>2. e \in {0, 2, 3}
  <2>1. v.currency \in {"JPY", "EUR", "KWD"}
    BY <1>1 DEF Exponent
  <2> QED BY <2>1 DEF Exponent
<1>3. l \in Nat
  BY LenProperties
<1>4. PICK cur : cur = v.currency
  OBVIOUS
<1>5. PICK m \in Nat : m = minor
  <2> HIDE DEF minor
  <2> QED BY <1>1
<1>6. c = [kind |-> "money", minor |-> m, currency |-> cur]
  BY <1>1, <1>4, <1>5
<1>7. m * 10 ^ l = (v.whole * 10 ^ l + Number(v.digits)) * 10 ^ e
  <2>1. e - l \in 0 .. 3 /\ l \in 0 .. e
    BY <1>1, <1>2, <1>3
  <2> HIDE DEF e, l
  <2>2. Padded(v.digits, e) = v.digits \o [i \in 1 .. e - l |-> 0]
    BY DEF Padded, l
  <2>3. PICK n \in Nat : n = Number(v.digits) /\ Number(Padded(v.digits, e)) = n * 10 ^ (e - l)
    BY <2>1, <2>2, PaddedNumber
  <2>4. m = v.whole * 10 ^ e + n * 10 ^ (e - l)
    BY <1>5, <2>3
  <2>5. Powers(10 ^ l, 10 ^ (e - l), 10 ^ e)
    BY <1>2, <2>1, Tens, Zenon
  <2>6. PICK p, q, r : p = 10 ^ l /\ q = 10 ^ (e - l) /\ r = 10 ^ e
    OBVIOUS
  <2>7. PICK w \in Nat : w = v.whole
    OBVIOUS
  <2>8. m = w * r + n * q
    BY <2>4, <2>6, <2>7
  <2>9. Powers(p, q, r)
    BY <2>5, <2>6
  <2>10. m * p = (w * p + n) * r
    BY <2>8, <2>9 DEF Powers
  <2> QED BY <2>3, <2>6, <2>7, <2>10
<1>8. CanonicalMoney(arg, DecimalText(c)) = c
  BY <1>1, <1>2, <1>4, <1>5, <1>6, TextReadsBack
<1> QED BY <1>6, <1>7, <1>8

----------------------------------------------------------------------------
(* Paths. *)

\* The front and the last of a sequence put together.
LEMMA FrontOfAppend ==
  ASSUME NEW E, NEW s \in Seq(E), NEW e \in E
  PROVE  Front(Append(s, e)) = s /\ Last(Append(s, e)) = e
<1> DEFINE t == Append(s, e)
<1>1. /\ t \in Seq(E) /\ Len(t) = Len(s) + 1 /\ t[Len(s) + 1] = e
      /\ \A i \in 1 .. Len(s) : t[i] = s[i]
  BY AppendProperties
<1>2. Len(s) \in Nat
  BY LenProperties
<1> HIDE DEF t
<1>3. SubSeq(t, 1, Len(s)) = s
  <2>1. \A i \in 1 .. Len(s) : t[i] \in E
    BY <1>1, ElementOfSeq
  <2>2. /\ SubSeq(t, 1, Len(s)) \in Seq(E)
        /\ Len(SubSeq(t, 1, Len(s))) = IF 1 <= Len(s) THEN Len(s) - 1 + 1 ELSE 0
        /\ \A i \in 1 .. Len(s) - 1 + 1 : SubSeq(t, 1, Len(s))[i] = t[1 + i - 1]
    BY <1>2, <2>1, SubSeqProperties
  <2>3. /\ Len(SubSeq(t, 1, Len(s))) = Len(s)
        /\ \A i \in 1 .. Len(s) : SubSeq(t, 1, Len(s))[i] = s[i]
    BY <1>1, <1>2, <2>2
  <2> QED BY <2>2, <2>3, SeqEqual
<1>4. Front(t) = s /\ Last(t) = e
  BY <1>1, <1>2, <1>3 DEF Front, Last
<1> QED BY <1>4 DEF t

LEMMA FrontOfSeq ==
  ASSUME NEW E, NEW s \in Seq(E), s # <<>>
  PROVE  Front(s) \in Seq(E)
<1>1. PICK r \in Seq(E), e \in E : s = Append(r, e)
  BY SequenceEmptyOrAppend
<1> QED BY <1>1, FrontOfAppend

\* What is left when the dots are gone: names that were there, and no dots.
LEMMA DotsAreRemoved ==
  ASSUME NEW names, NEW one, NEW two, NEW E \in SUBSET names, NEW s \in Seq(E)
  PROVE  RemoveDotSegments(s, names, one, two) \in Seq(E \ {one, two})
<1> DEFINE step == [out \in Seq(names) |-> [x \in names |->
                      IF x = one THEN out
                      ELSE IF x # two THEN Append(out, x)
                      ELSE IF out = <<>> THEN out ELSE Front(out)]]
           after(t) == Folded(step, <<>>, t)
           kept == Seq(E \ {one, two})
           P == {t \in Seq(E) : Folded(step, <<>>, t) \in kept}
<1>1. ASSUME NEW out \in kept, NEW x \in E
      PROVE  step[out][x] \in kept
  <2>1. out \in Seq(names) /\ x \in names
    BY SeqMonotonic
  <2>2. step[out][x] = IF x = one THEN out
                       ELSE IF x # two THEN Append(out, x)
                       ELSE IF out = <<>> THEN out ELSE Front(out)
    BY <2>1
  <2>3. x \notin {one, two} => Append(out, x) \in kept
    BY AppendProperties
  <2>4. out # <<>> => Front(out) \in kept
    BY FrontOfSeq
  <2> HIDE DEF step, kept
  <2> QED BY <1>1, <2>2, <2>3, <2>4
<1>2. <<>> \in P
  <2>1. <<>> \in kept
    OBVIOUS
  <2> HIDE DEF step, kept
  <2> QED BY <2>1, FoldedEmpty
<1>3. ASSUME NEW t \in Seq(E), NEW x \in E, t \in P
      PROVE  Append(t, x) \in P
  <2> HIDE DEF step, kept
  <2>1. Folded(step, <<>>, Append(t, x)) = step[Folded(step, <<>>, t)][x]
    BY FoldedAppend
  <2>2. Append(t, x) \in Seq(E)
    BY AppendProperties
  <2> QED BY <1>1, <1>3, <2>1, <2>2
<1>4. Seq(E) \subseteq P
  <2> HIDE DEF P
  <2> QED BY <1>2, <1>3, SeqInduction
<1>5. RemoveDotSegments(s, names, one, two) = Folded(step, <<>>, s)
  BY DEF RemoveDotSegments
<1> QED BY <1>4, <1>5

\* Where there are no dots, nothing is removed.
LEMMA NoDotsToRemove ==
  ASSUME NEW names, NEW one, NEW two, NEW s \in Seq(names \ {one, two})
  PROVE  RemoveDotSegments(s, names, one, two) = s
<1> DEFINE step == [out \in Seq(names) |-> [x \in names |->
                      IF x = one THEN out
                      ELSE IF x # two THEN Append(out, x)
                      ELSE IF out = <<>> THEN out ELSE Front(out)]]
           E == names \ {one, two}
           P == {t \in Seq(E) : Folded(step, <<>>, t) = t}
<1>1. ASSUME NEW t \in Seq(E), NEW x \in E
      PROVE  step[t][x] = Append(t, x)
  <2>1. t \in Seq(names) /\ x \in names
    BY SeqMonotonic
  <2> QED BY <2>1
<1>2. <<>> \in P
  <2>1. <<>> \in Seq(E)
    OBVIOUS
  <2> HIDE DEF step, E
  <2> QED BY <2>1, FoldedEmpty
<1>3. ASSUME NEW t \in Seq(E), NEW x \in E, t \in P
      PROVE  Append(t, x) \in P
  <2> HIDE DEF step, E
  <2>1. Folded(step, <<>>, Append(t, x)) = step[Folded(step, <<>>, t)][x]
    BY FoldedAppend
  <2>2. Append(t, x) \in Seq(E)
    BY AppendProperties
  <2> QED BY <1>1, <1>3, <2>1, <2>2
<1>4. Seq(E) \subseteq P
  <2> HIDE DEF P, E
  <2> QED BY <1>2, <1>3, SeqInduction
<1>5. RemoveDotSegments(s, names, one, two) = Folded(step, <<>>, s)
  BY DEF RemoveDotSegments
<1> QED BY <1>4, <1>5

\* One step of a loop that keeps what is of kept alone.
Drops(step, E, dropped, kept) ==
  /\ kept = E \ dropped
  /\ \A out \in Seq(E), y \in E :
       step[out][y] = IF y \in dropped THEN out ELSE Append(out, y)

\* Dropping some elements: what is left is not of them, and a sequence without
\* them stays as it is.
LEMMA Dropping ==
  ASSUME NEW E, NEW dropped, NEW kept, NEW step, Drops(step, E, dropped, kept),
         NEW s \in Seq(E), NEW x \in E
  PROVE  /\ Folded(step, <<>>, s) \in Seq(kept)
         /\ Folded(step, <<>>, Append(s, x)) =
              IF x \in dropped THEN Folded(step, <<>>, s)
              ELSE Append(Folded(step, <<>>, s), x)
         /\ \A t \in Seq(kept) : Folded(step, <<>>, t) = t
<1> DEFINE P == {t \in Seq(E) : Folded(step, <<>>, t) \in Seq(kept)}
           Q == {t \in Seq(kept) : Folded(step, <<>>, t) = t}
<1>1. ASSUME NEW out \in Seq(kept), NEW y \in E
      PROVE  /\ step[out][y] = IF y \in dropped THEN out ELSE Append(out, y)
             /\ step[out][y] \in Seq(kept)
  <2>1. out \in Seq(E) /\ kept = E \ dropped
    BY SeqMonotonic DEF Drops
  <2>2. step[out][y] = IF y \in dropped THEN out ELSE Append(out, y)
    BY <2>1 DEF Drops
  <2>3. y \notin dropped => Append(out, y) \in Seq(kept)
    BY <2>1, AppendProperties
  <2> QED BY <1>1, <2>2, <2>3
<1>2. <<>> \in Seq(kept) /\ Folded(step, <<>>, <<>>) = <<>>
  BY FoldedEmpty
<1>3. Seq(E) \subseteq P
  <2>1. <<>> \in P
    <3>1. <<>> \in Seq(E)
      OBVIOUS
    <3> QED BY <1>2, <3>1
  <2>2. ASSUME NEW t \in Seq(E), NEW y \in E, t \in P
        PROVE  Append(t, y) \in P
    <3>1. Folded(step, <<>>, Append(t, y)) = step[Folded(step, <<>>, t)][y]
      BY FoldedAppend
    <3>2. Append(t, y) \in Seq(E)
      BY AppendProperties
    <3> QED BY <1>1, <2>2, <3>1, <3>2
  <2> HIDE DEF P
  <2> QED BY <2>1, <2>2, SeqInduction
<1>4. Seq(kept) \subseteq Q
  <2>1. <<>> \in Q
    BY <1>2
  <2>2. ASSUME NEW t \in Seq(kept), NEW y \in kept, t \in Q
        PROVE  Append(t, y) \in Q
    <3>1. Folded(step, <<>>, Append(t, y)) = step[Folded(step, <<>>, t)][y]
      BY FoldedAppend
    <3>2. Append(t, y) \in Seq(kept)
      BY AppendProperties
    <3>3. y \in E /\ y \notin dropped
      BY DEF Drops
    <3> QED BY <1>1, <2>2, <3>1, <3>2, <3>3
  <2> HIDE DEF Q
  <2> QED BY <2>1, <2>2, SeqInduction
<1>5. Folded(step, <<>>, Append(s, x)) = step[Folded(step, <<>>, s)][x]
  BY FoldedAppend
<1> QED BY <1>1, <1>3, <1>4, <1>5

\* A name of a path: neither empty nor dots.
Name == Names \ {Empty, ".", ".."}

\* What is collapsed, one segment more; and a path of names stays as it is.
LEMMA CollapsedIs ==
  ASSUME NEW s \in Seq(Names)
  PROVE  /\ Collapsed(s) \in Seq(Names \ {Empty, "."})
         /\ Collapsed(Append(s, Empty)) = Collapsed(s)
         /\ s \in Seq(Name) => Collapsed(s) = s
<1> DEFINE dropped == {Empty, "."}
           kept == Names \ dropped
           step == [out \in Seq(Names) |-> [y \in Names |->
                      IF y \in dropped THEN out ELSE Append(out, y)]]
<1>1. Drops(step, Names, dropped, kept)
  BY DEF Drops
<1>2. \A t : Collapsed(t) = Folded(step, <<>>, t)
  BY DEF Collapsed
<1>3. PICK empty \in Names : empty \in dropped /\ empty = Empty
  BY CanonicalAssumption
<1>4. s \in Seq(Name) => s \in Seq(kept)
  <2>1. Name \subseteq Names \ dropped
    BY DEF Name
  <2> QED BY <2>1, SeqMonotonic
<1> HIDE DEF dropped, kept, step
<1>5. /\ Folded(step, <<>>, s) \in Seq(kept)
      /\ Folded(step, <<>>, Append(s, empty)) = Folded(step, <<>>, s)
      /\ \A t \in Seq(kept) : Folded(step, <<>>, t) = t
  <2>1. empty \in dropped
    BY <1>3
  <2> QED BY <1>1, <2>1, Dropping
<1> QED BY <1>2, <1>3, <1>4, <1>5 DEF dropped, kept

\* Where a path leads has neither dots nor empty names; a path of names leads
\* where it says.
LEMMA WalkIs ==
  ASSUME NEW s \in Seq(Names)
  PROVE  /\ Walk(s) \in Seq(Name)
         /\ s \in Seq(Name) => Walk(s) = s
<1>1. Collapsed(s) \in Seq(Names \ {Empty, "."})
  BY CollapsedIs
<1>2. Walk(s) \in Seq(Name)
  <2> DEFINE E == Names \ {Empty, "."}
  <2>1. E \in SUBSET Names
    OBVIOUS
  <2>2. E \ {".", ".."} \subseteq Name
    BY DEF Name
  <2> HIDE DEF E
  <2>3. RemoveDotSegments(Collapsed(s), Names, ".", "..") \in Seq(E \ {".", ".."})
    BY <1>1, <2>1, DotsAreRemoved DEF E
  <2> QED BY <2>2, <2>3, SeqMonotonic DEF Walk
<1>3. ASSUME s \in Seq(Name)
      PROVE  Walk(s) = s
  <2>1. Name \subseteq Names \ {".", ".."}
    BY DEF Name
  <2>2. s \in Seq(Names \ {".", ".."})
    BY <1>3, <2>1, SeqMonotonic
  <2>3. RemoveDotSegments(s, Names, ".", "..") = s
    BY <2>2, NoDotsToRemove
  <2>4. Collapsed(s) = s
    BY <1>3, CollapsedIs
  <2> QED BY <2>3, <2>4 DEF Walk
<1> QED BY <1>2, <1>3

\* What is stripped is an end of slashes, and leads where the whole leads.
LEMMA StrippedIs ==
  ASSUME NEW u \in Seq(Names)
  PROVE  Stripped(u) \in Seq(Names) /\ Walk(Stripped(u)) = Walk(u)
<1> DEFINE N == Len(u)
           Tails == {n \in 0 .. N : \A i \in n + 1 .. N : u[i] = Empty}
           Is(n) == /\ \A i \in n + 1 .. N : u[i] = Empty
                    /\ n = 0 \/ u[n] # Empty
           n0 == CHOOSE n \in 0 .. N : Is(n)
<1>1. N \in Nat
  BY LenProperties
<1>2. \E n \in 0 .. N : Is(n)
  <2>1. Tails \in SUBSET Nat /\ N \in Tails
    BY <1>1
  <2>2. PICK m \in Tails : \A n \in Tails : m <= n
    <3> HIDE DEF Tails
    <3> QED BY <2>1, LeastNat
  <2>3. ASSUME m # 0, u[m] = Empty
        PROVE  FALSE
    <3>1. m - 1 \in 0 .. N
      BY <1>1, <2>3
    <3>2. \A i \in (m - 1) + 1 .. N : i = m \/ i \in m + 1 .. N
      BY <1>1
    <3>3. m - 1 \in Tails
      BY <2>3, <3>1, <3>2
    <3>4. m \in Nat /\ ~(m <= m - 1)
      BY <1>1
    <3> HIDE DEF Tails
    <3> QED BY <2>2, <3>3, <3>4
  <2> QED BY <2>2, <2>3
<1>3. n0 \in 0 .. N /\ \A i \in n0 + 1 .. N : u[i] = Empty
  <2>1. n0 \in 0 .. N /\ Is(n0)
    <3> HIDE DEF Is
    <3> QED BY <1>2
  <2> QED BY <2>1
<1>4. Stripped(u) = SubSeq(u, 1, n0)
  BY DEF Stripped
<1> HIDE DEF n0
<1> DEFINE upTo(k) == SubSeq(u, 1, k)
<1>5. \A k \in 0 .. N : upTo(k) \in Seq(Names)
  BY <1>1, ElementOfSeq, SubSeqProperties
<1> DEFINE P == {d \in Nat : n0 + d <= N => Collapsed(upTo(n0 + d)) = Collapsed(upTo(n0))}
<1>6. 0 \in P
  <2>1. n0 + 0 = n0
    BY <1>1, <1>3
  <2> QED BY <2>1
<1>7. ASSUME NEW d \in Nat, d \in P
      PROVE  d + 1 \in P
  <2> SUFFICES ASSUME n0 + (d + 1) <= N
               PROVE  Collapsed(upTo(n0 + (d + 1))) = Collapsed(upTo(n0))
    OBVIOUS
  <2>1. PICK k : k = n0 + d
    OBVIOUS
  <2>2. k \in 0 .. N - 1 /\ k + 1 = n0 + (d + 1) /\ k + 1 \in n0 + 1 .. N /\ k + 1 \in 1 .. N
    BY <1>1, <1>3, <2>1
  <2>3. upTo(k + 1) = upTo(k) \o <<u[k + 1]>>
    <3>1. SubSeq(u, 1, k + 1) = SubSeq(u, 1, (k + 1) - 1) \o <<u[k + 1]>>
      <4>1. 1 \in 1 .. N /\ k + 1 \in 1 .. N
        BY <1>1, <2>2
      <4> QED BY <2>2, <4>1, SubSeqRecursiveSecond
    <3>2. (k + 1) - 1 = k
      BY <2>2
    <3> QED BY <3>1, <3>2
  <2>4. u[k + 1] = Empty /\ Empty \in Names
    BY <1>3, <2>2, CanonicalAssumption
  <2>5. upTo(k) \in Seq(Names)
    BY <1>1, <1>5, <2>2
  <2> HIDE DEF upTo
  <2>6. upTo(k + 1) = Append(upTo(k), Empty)
    BY <2>3, <2>4, <2>5, AppendIsConcat
  <2>7. Collapsed(upTo(k + 1)) = Collapsed(upTo(k))
    BY <2>5, <2>6, CollapsedIs
  <2>8. Collapsed(upTo(k)) = Collapsed(upTo(n0))
    BY <1>1, <1>7, <2>1, <2>2
  <2> QED BY <2>2, <2>7, <2>8
<1>8. Nat \subseteq P
  <2> HIDE DEF P
  <2> QED BY <1>6, <1>7, NatInductionSet
<1>9. Collapsed(upTo(N)) = Collapsed(upTo(n0))
  <2>1. N - n0 \in Nat /\ n0 + (N - n0) = N
    BY <1>1, <1>3
  <2>2. N - n0 \in P
    BY <1>8, <2>1
  <2> QED BY <1>1, <2>1, <2>2
<1>10. upTo(N) = u
  BY SubSeqFull
<1>11. Stripped(u) \in Seq(Names)
  BY <1>3, <1>4, <1>5
<1> QED BY <1>4, <1>9, <1>10, <1>11 DEF Walk

\* A path of names is given back as it is, the root included.
LEMMA JoinedIs ==
  ASSUME NEW s \in Seq(Name)
  PROVE  Joined(s, Empty) \in Seq(Names) /\ Walk(Joined(s, Empty)) = s
<1>1. Name \subseteq Names /\ Empty \in Names
  BY CanonicalAssumption DEF Name
<1>2. CASE s = <<>>
  <2>1. <<Empty>> \in Seq(Names) /\ <<>> \in Seq(Names) /\ <<>> \in Seq(Name)
    BY <1>1
  <2>2. <<Empty>> = Append(<<>>, Empty)
    OBVIOUS
  <2>3. Collapsed(<<Empty>>) = Collapsed(<<>>)
    BY <2>1, <2>2, CollapsedIs
  <2>4. Walk(<<>>) = <<>>
    BY <2>1, WalkIs
  <2> QED BY <1>2, <2>1, <2>3, <2>4 DEF Joined, Walk
<1>3. CASE s # <<>>
  <2>1. s \in Seq(Names)
    BY <1>1, SeqMonotonic
  <2> QED BY <1>3, <2>1, WalkIs DEF Joined
<1> QED BY <1>2, <1>3

\* What a path of names begins with is a path of names.
LEMMA PrefixOfNames ==
  ASSUME NEW s \in Seq(Names), NEW t \in Seq(Name), IsPrefix(s, t)
  PROVE  s \in Seq(Name)
<1> DEFINE m == Len(s)
<1>1. m \in Nat /\ Len(t) \in Nat /\ m <= Len(t)
  BY LenProperties DEF IsPrefix
<1>2. SubSeq(t, 1, m) = s
  BY SubSeqFull DEF IsPrefix
<1>3. \A i \in 1 .. m : t[i] \in Name
  BY <1>1, ElementOfSeq
<1>4. 1 \in Int /\ m \in Int
  BY <1>1
<1> HIDE DEF m
<1> QED BY <1>2, <1>3, <1>4, SubSeqProperties

\* A path inside the sandbox leads into it: what the slashes at the sandbox's end
\* hide is no directory.
LEMMA InsideLeadsInside ==
  ASSUME NEW under \in Seq(Names), NEW s \in Seq(Name), Inside(Joined(s, Empty), under)
  PROVE  IsPrefix(Walk(under), s)
<1> DEFINE path == Joined(s, Empty)
           top == Stripped(under)
<1>1. path \in Seq(Names) /\ Walk(path) = s
  BY JoinedIs
<1>2. top \in Seq(Names) /\ Walk(top) = Walk(under)
  BY StrippedIs
<1>3. CASE path = under
  <2>1. Len(s) \in Nat
    BY LenProperties
  <2> QED BY <1>1, <1>3, <2>1 DEF IsPrefix
<1>4. CASE IsStrictPrefix(top, path)
  <2>1. IsPrefix(top, path) /\ top # path
    BY <1>4 DEF IsStrictPrefix
  <2>2. CASE s # <<>>
    <3>1. path = s
      BY <2>2 DEF Joined
    <3>2. top \in Seq(Name)
      BY <1>2, <2>1, <3>1, PrefixOfNames
    <3>3. Walk(top) = top
      BY <1>2, <3>2, WalkIs
    <3> QED BY <1>2, <2>1, <3>1, <3>3
  <2>3. CASE s = <<>>
    <3>1. path = <<Empty>>
      BY <2>3 DEF Joined
    <3> HIDE DEF path, top
    <3>2. Len(top) \in Nat /\ Len(top) <= 1 /\ SubSeq(path, 1, Len(top)) = top
      BY <1>2, <2>1, <3>1, LenProperties, SubSeqFull DEF IsPrefix
    <3>3. Len(top) # 1
      <4>1. Len(path) = 1
        BY <3>1
      <4> QED BY <1>1, <2>1, <3>2, <4>1, SubSeqFull
    <3>4. top = <<>>
      BY <1>2, <3>2, <3>3, EmptySeq
    <3>5. <<>> \in Seq(Names) /\ <<>> \in Seq(Name)
      OBVIOUS
    <3>6. Walk(top) = <<>>
      BY <3>4, <3>5, WalkIs
    <3> QED BY <1>2, <2>3, <3>6 DEF IsPrefix
  <2> QED BY <2>2, <2>3
<1> QED BY <1>3, <1>4 DEF Inside

\* canonical_path(): the path it gives is one it gives back.
LEMMA PathIs ==
  ASSUME NEW arg, NEW v, v.segments \in Seq(Names), NEW c,
         c = CanonicalPath(arg, v), c # Rejection
  PROVE  /\ c.kind = "path"
         /\ CanonicalPath(arg, [kind |-> "path", absolute |-> TRUE, segments |-> c.segments]) = c
         /\ arg.confined /\ arg.under \in Seq(Names)
              => IsPrefix(Walk(arg.under), Walk(c.segments))
<1> DEFINE s == Walk(v.segments)
<1>1. s \in Seq(Name)
  BY WalkIs
<1>2. /\ arg.confined => Inside(Joined(s, Empty), arg.under)
      /\ c = [kind |-> "path", segments |-> Joined(s, Empty)]
  BY DEF CanonicalPath
<1> HIDE DEF s
<1>3. c.segments = Joined(s, Empty) /\ Walk(Joined(s, Empty)) = s
  BY <1>1, <1>2, JoinedIs
<1>4. CanonicalPath(arg, [kind |-> "path", absolute |-> TRUE, segments |-> c.segments]) = c
  <2> DEFINE w == [kind |-> "path", absolute |-> TRUE, segments |-> c.segments]
  <2>1. w.absolute /\ w.segments = c.segments
    OBVIOUS
  <2> HIDE DEF w
  <2>2. Joined(Walk(w.segments), Empty) = Joined(s, Empty)
    BY <1>3, <2>1
  <2>3. CanonicalPath(arg, w) = [kind |-> "path", segments |-> Joined(s, Empty)]
    BY <1>2, <2>1, <2>2, Zenon DEF CanonicalPath
  <2> QED BY <1>2, <2>3 DEF w
<1>5. arg.confined /\ arg.under \in Seq(Names)
        => IsPrefix(Walk(arg.under), Walk(c.segments))
  BY <1>1, <1>2, <1>3, InsideLeadsInside
<1> QED BY <1>2, <1>3, <1>4, <1>5

----------------------------------------------------------------------------
(* URLs. *)

\* A character that has no escape left to decode; what stands between slashes.
Plain   == {c \in Char : ~(c.depth = 1 /\ c.char # "/")}
Segment == Seq(Plain \ {Slash})

\* The path of a URL that begins at its root.
Rooted == {p \in Seq(Plain) : p # <<>> /\ p[1] = Slash}

LEMMA PlainIs == Plain \subseteq Char /\ Slash \in Plain
<1>1. Slash \in Char
  BY CanonicalAssumption DEF Slash, Char
<1>2. Slash.depth = 0
  BY DEF Slash
<1> QED BY <1>1, <1>2 DEF Plain

\* _percent_normalise(): what it gives has nothing left to decode, and such it
\* leaves alone.
LEMMA PercentIs ==
  ASSUME NEW p \in Seq(Char)
  PROVE  /\ PercentNormalise(p) \in Seq(Plain)
         /\ p = <<>> => PercentNormalise(p) = <<>>
         /\ p # <<>> /\ p[1] = Slash => PercentNormalise(p) \in Rooted
         /\ p \in Seq(Plain) => PercentNormalise(p) = p
<1> DEFINE q == PercentNormalise(p)
           decoded(c) == IF c.depth = 1 /\ c.char # "/" THEN [c EXCEPT !.depth = 0] ELSE c
<1>1. Len(p) \in Nat /\ DOMAIN p = 1 .. Len(p) /\ \A i \in 1 .. Len(p) : p[i] \in Char
  BY LenProperties, ElementOfSeq
<1>2. q = [i \in 1 .. Len(p) |-> decoded(p[i])]
  BY <1>1 DEF PercentNormalise
<1>3. \A c \in Char : decoded(c) \in Plain
  BY DEF Char, Plain
<1>4. \A c \in Plain : decoded(c) = c
  BY DEF Plain
<1> HIDE DEF decoded, q
<1>5. q \in Seq(Plain) /\ Len(q) = Len(p)
  <2>1. q \in [1 .. Len(p) -> Plain]
    BY <1>1, <1>2, <1>3
  <2>2. q \in Seq(Plain)
    BY <1>1, <2>1, SeqDef
  <2>3. Len(q) \in Nat /\ 1 .. Len(q) = 1 .. Len(p)
    BY <2>1, <2>2, LenProperties
  <2> QED BY <1>1, <2>2, <2>3
<1>6. p = <<>> => q = <<>>
  BY <1>5, EmptySeq
<1>7. ASSUME p # <<>>, p[1] = Slash
      PROVE  q \in Rooted
  <2>1. Len(p) # 0 /\ 1 \in 1 .. Len(p)
    BY <1>1, <1>7, EmptySeq
  <2>2. q[1] = decoded(Slash)
    BY <1>2, <1>7, <2>1
  <2>3. q[1] = Slash
    BY <1>4, <2>2, PlainIs
  <2>4. q # <<>>
    BY <1>5, <2>1, EmptySeq
  <2> QED BY <1>5, <2>3, <2>4 DEF Rooted
<1>8. ASSUME p \in Seq(Plain)
      PROVE  q = p
  <2>1. \A i \in 1 .. Len(p) : p[i] \in Plain
    BY <1>8, ElementOfSeq
  <2>2. \A i \in 1 .. Len(p) : q[i] = p[i]
    BY <1>2, <1>4, <2>1
  <2> QED BY <1>5, <1>8, <2>2, SeqEqual
<1> QED BY <1>5, <1>6, <1>7, <1>8 DEF q

\* One character more, split: a slash begins a segment, any other joins the last.
LEMMA SplitAppend ==
  ASSUME NEW p \in Seq(Plain), NEW c \in Plain, Split(p) \in Seq(Segment)
  PROVE  /\ Split(<<>>) = <<>>
         /\ c = Slash => Split(Append(p, c)) = Append(Split(p), <<>>)
         /\ c # Slash => Split(Append(p, c)) = Append(Front(Split(p)), Append(Last(Split(p)), c))
<1> DEFINE step == [out \in Seq(Seq(Char)) |-> [x \in Char |->
                      IF x = Slash THEN Append(out, <<>>)
                      ELSE Append(Front(out), Append(Last(out), x))]]
<1>1. \A t : Split(t) = Folded(step, <<>>, t)
  BY DEF Split
<1>2. Split(p) \in Seq(Seq(Char)) /\ c \in Char
  <2>1. Plain \ {Slash} \subseteq Char
    BY PlainIs
  <2>2. Segment \subseteq Seq(Char)
    BY <2>1, SeqMonotonic DEF Segment
  <2> QED BY <2>2, PlainIs, SeqMonotonic
<1>3. step[Split(p)][c] = IF c = Slash THEN Append(Split(p), <<>>)
                          ELSE Append(Front(Split(p)), Append(Last(Split(p)), c))
  BY <1>2
<1> HIDE DEF step
<1>4. Split(Append(p, c)) = step[Split(p)][c]
  BY <1>1, FoldedAppend
<1>5. Split(<<>>) = <<>>
  BY <1>1, FoldedEmpty
<1> QED BY <1>3, <1>4, <1>5

\* A path that begins at its root is split into one segment at least.
LEMMA SplitIs ==
  ASSUME NEW p \in Rooted
  PROVE  Split(p) \in Seq(Segment) /\ Split(p) # <<>>
<1> DEFINE P == {t \in Seq(Plain) :
                   t \in Rooted => Split(t) \in Seq(Segment) /\ Split(t) # <<>>}
<1>1. <<>> \in P
  <2>1. <<>> \in Seq(Plain) /\ <<>> \notin Rooted
    BY DEF Rooted
  <2> QED BY <2>1
<1>2. ASSUME NEW t \in Seq(Plain), NEW c \in Plain, t \in P
      PROVE  Append(t, c) \in P
  <2>1. Append(t, c) \in Seq(Plain) /\ Append(t, c) # <<>>
    BY AppendProperties
  <2>2. <<>> \in Segment
    BY DEF Segment
  <2> SUFFICES ASSUME Append(t, c) \in Rooted
               PROVE  Split(Append(t, c)) \in Seq(Segment) /\ Split(Append(t, c)) # <<>>
    BY <2>1
  <2>3. CASE t = <<>>
    <3>1. Append(t, c)[1] = c
      BY <2>3
    <3>2. c = Slash
      BY <3>1 DEF Rooted
    <3>3. Split(<<>>) = <<>>
      BY FoldedEmpty DEF Split
    <3>4. <<>> \in Seq(Segment)
      OBVIOUS
    <3>5. Split(t) = <<>> /\ Split(t) \in Seq(Segment)
      BY <2>3, <3>3, <3>4
    <3>6. Split(Append(t, c)) = Append(Split(t), <<>>)
      BY <3>2, <3>5, SplitAppend
    <3> QED BY <2>2, <3>5, <3>6, AppendProperties
  <2>4. CASE t # <<>>
    <3>1. t \in Rooted
      <4>1. Len(t) \in Nat /\ Len(t) # 0
        BY <2>4, EmptySeq
      <4>2. Append(t, c)[1] = t[1]
        BY <4>1, AppendProperties
      <4> QED BY <2>4, <4>2 DEF Rooted
    <3>2. Split(t) \in Seq(Segment) /\ Split(t) # <<>>
      BY <1>2, <3>1
    <3>3. PICK r \in Seq(Segment), s \in Segment : Split(t) = Append(r, s)
      BY <3>2, SequenceEmptyOrAppend
    <3>4. Front(Split(t)) = r /\ Last(Split(t)) = s
      BY <3>3, FrontOfAppend
    <3>5. c # Slash => Append(s, c) \in Segment
      <4>1. c # Slash => c \in Plain \ {Slash}
        OBVIOUS
      <4> QED BY <4>1, AppendProperties DEF Segment
    <3>6. CASE c = Slash
      <4>1. Split(Append(t, c)) = Append(Split(t), <<>>)
        BY <3>2, <3>6, SplitAppend
      <4> QED BY <2>2, <3>2, <4>1, AppendProperties
    <3>7. CASE c # Slash
      <4>1. Split(Append(t, c)) = Append(r, Append(s, c))
        BY <3>2, <3>4, <3>7, SplitAppend
      <4> QED BY <3>5, <3>7, <4>1, AppendProperties
    <3> QED BY <3>6, <3>7
  <2> QED BY <2>3, <2>4
<1>3. Seq(Plain) \subseteq P
  <2> HIDE DEF P
  <2> QED BY <1>1, <1>2, SeqInduction
<1> QED BY <1>3 DEF Rooted

\* A slash and a segment more, split: the segment more.
LEMMA SplitSegment ==
  ASSUME NEW t \in Seq(Plain), NEW s \in Segment, Split(t) \in Seq(Segment)
  PROVE  /\ t \o <<Slash>> \o s \in Seq(Plain)
         /\ Split(t \o <<Slash>> \o s) = Append(Split(t), s)
<1> DEFINE E == Plain \ {Slash}
           u == Append(t, Slash)
           P == {x \in Seq(E) : u \o x \in Seq(Plain) /\ Split(u \o x) = Append(Split(t), x)}
<1>1. u \in Seq(Plain) /\ t \o <<Slash>> = u
  BY PlainIs, AppendProperties, AppendIsConcat
<1>2. Split(u) = Append(Split(t), <<>>)
  BY PlainIs, SplitAppend
<1> HIDE DEF u
<1>3. <<>> \in P
  <2>1. u \o <<>> = u
    BY <1>1, ConcatEmptySeq
  <2> QED BY <1>1, <1>2, <2>1
<1>4. ASSUME NEW x \in Seq(E), NEW c \in E, x \in P
      PROVE  Append(x, c) \in P
  <2>1. x \in Seq(Plain) /\ c \in Plain /\ c # Slash /\ <<c>> \in Seq(Plain)
    BY SeqMonotonic
  <2>2. u \o Append(x, c) = Append(u \o x, c)
    <3>1. Append(x, c) = x \o <<c>> /\ Append(u \o x, c) = (u \o x) \o <<c>>
      BY <1>4, <2>1, AppendIsConcat
    <3> QED BY <1>1, <2>1, <3>1, ConcatAssociative
  <2>3. x \in Segment /\ Append(x, c) \in Seq(E)
    BY AppendProperties DEF Segment
  <2>4. /\ Append(Split(t), x) \in Seq(Segment)
        /\ Front(Append(Split(t), x)) = Split(t) /\ Last(Append(Split(t), x)) = x
    BY <2>3, AppendProperties, FrontOfAppend
  <2>5. u \o x \in Seq(Plain) /\ Split(u \o x) = Append(Split(t), x)
    BY <1>4
  <2>6. Split(Append(u \o x, c)) = Append(Split(t), Append(x, c))
    <3>1. PICK z \in Seq(Plain) : z = u \o x
      BY <2>5
    <3>2. Split(z) = Append(Split(t), x) /\ Split(z) \in Seq(Segment)
      BY <2>4, <2>5, <3>1
    <3>3. Split(Append(z, c)) = Append(Front(Split(z)), Append(Last(Split(z)), c))
      BY <2>1, <3>2, SplitAppend
    <3> QED BY <2>4, <3>1, <3>2, <3>3
  <2>7. Append(u \o x, c) \in Seq(Plain)
    BY <2>1, <2>5, AppendProperties
  <2> QED BY <2>2, <2>3, <2>6, <2>7
<1>5. Seq(E) \subseteq P
  <2> HIDE DEF P, E
  <2> QED BY <1>3, <1>4, SeqInduction
<1>6. s \in P
  BY <1>5 DEF Segment
<1> QED BY <1>1, <1>6

\* Segments written out with a slash before each are split into themselves.
LEMMA TextIs ==
  ASSUME NEW segments \in Seq(Segment)
  PROVE  /\ Text(segments) \in Seq(Plain)
         /\ segments # <<>> => Text(segments) \in Rooted
         /\ Split(Text(segments)) = segments
<1> DEFINE step == [out \in Seq(Char) |-> [s \in Seq(Char) |-> out \o <<Slash>> \o s]]
           P == {r \in Seq(Segment) : /\ Text(r) \in Seq(Plain)
                                      /\ r # <<>> => Text(r) # <<>> /\ Text(r)[1] = Slash
                                      /\ Split(Text(r)) = r}
<1>1. \A r : Text(r) = Folded(step, <<>>, r)
  BY DEF Text
<1>2. Segment \subseteq Seq(Char) /\ Seq(Plain) \subseteq Seq(Char)
  BY PlainIs, SeqMonotonic DEF Segment
<1>3. \A out \in Seq(Plain), s \in Segment : step[out][s] = out \o <<Slash>> \o s
  BY <1>2
<1> HIDE DEF step
<1>4. Text(<<>>) = <<>>
  BY <1>1, FoldedEmpty
<1>5. <<>> \in P
  <2>1. Split(<<>>) = <<>>
    BY FoldedEmpty DEF Split
  <2>2. <<>> \in Seq(Plain) /\ <<>> \in Seq(Segment)
    OBVIOUS
  <2> QED BY <1>4, <2>1, <2>2
<1>6. ASSUME NEW r \in Seq(Segment), NEW s \in Segment, r \in P
      PROVE  Append(r, s) \in P
  <2>1. Text(Append(r, s)) = step[Text(r)][s]
    BY <1>1, FoldedAppend
  <2>2. Text(r) \in Seq(Plain) /\ Split(Text(r)) = r /\ (r # <<>> => Text(r)[1] = Slash)
        /\ (r # <<>> => Text(r) # <<>>)
    BY <1>6
  <2>3. Text(Append(r, s)) = Text(r) \o <<Slash>> \o s
    BY <1>3, <2>1, <2>2
  <2>4. Text(Append(r, s)) \in Seq(Plain) /\ Split(Text(Append(r, s))) = Append(r, s)
    BY <2>2, <2>3, SplitSegment
  <2>5. Text(Append(r, s)) # <<>> /\ Text(Append(r, s))[1] = Slash
    <3>1. s \in Seq(Plain)
      BY SeqMonotonic DEF Segment
    <3>2. PICK t \in Seq(Plain) : t = Text(r)
      BY <2>2
    <3>3. <<Slash>> \in Seq(Plain) /\ Len(<<Slash>>) = 1 /\ <<Slash>>[1] = Slash
      BY PlainIs
    <3>4. Len(t) \in Nat /\ Len(s) \in Nat
      BY <3>1, LenProperties
    <3>5. /\ t \o <<Slash>> \in Seq(Plain) /\ Len(t \o <<Slash>>) = Len(t) + 1
          /\ \A i \in 1 .. Len(t) + 1 :
               (t \o <<Slash>>)[i] = IF i <= Len(t) THEN t[i] ELSE <<Slash>>[i - Len(t)]
      BY <3>3, ConcatProperties
    <3>6. (t \o <<Slash>>)[1] = Slash
      <4>1. CASE t = <<>>
        <5>1. Len(t) = 0
          BY <4>1
        <5> QED BY <3>3, <3>5, <5>1
      <4>2. CASE t # <<>>
        <5>1. Len(t) # 0
          BY <4>2, EmptySeq
        <5>2. t[1] = Slash
          BY <1>4, <2>2, <3>2, <4>2
        <5> QED BY <3>4, <3>5, <5>1, <5>2
      <4> QED BY <4>1, <4>2
    <3>7. PICK w \in Seq(Plain) : w = t \o <<Slash>>
      BY <3>5
    <3>8. Len(w \o s) = Len(w) + Len(s) /\ w \o s \in Seq(Plain)
          /\ \A i \in 1 .. Len(w) + Len(s) :
               (w \o s)[i] = IF i <= Len(w) THEN w[i] ELSE s[i - Len(w)]
      BY <3>1, ConcatProperties
    <3>9. Len(w) = Len(t) + 1 /\ w[1] = Slash
      BY <3>5, <3>6, <3>7
    <3>10. Len(w \o s) # 0 /\ (w \o s)[1] = Slash
      BY <3>4, <3>8, <3>9
    <3> QED BY <2>3, <3>2, <3>7, <3>8, <3>10, EmptySeq
  <2>6. Append(r, s) \in Seq(Segment)
    BY AppendProperties
  <2> QED BY <2>4, <2>5, <2>6
<1>7. Seq(Segment) \subseteq P
  <2> HIDE DEF P
  <2> QED BY <1>5, <1>6, SeqInduction
<1> QED BY <1>7 DEF Rooted

\* _normalise_url_path() after the escapes: it begins at its root, and is itself
\* what it gives of what it gave.
LEMMA WithoutDotsIs ==
  ASSUME NEW p, p = <<>> \/ p \in Rooted
  PROVE  /\ WithoutDots(p) \in Rooted
         /\ WithoutDots(WithoutDots(p)) = WithoutDots(p)
<1> DEFINE one == <<Dot>>
           two == <<Dot, Dot>>
           start(x) == IF x = <<>> THEN <<Slash>> ELSE x
           gone(x) == RemoveDotSegments(Split(start(x)), Seq(Char), one, two)
           kept == Segment \ {one, two}
           j == Joined(gone(p), <<>>)
<1>1. \A x : WithoutDots(x) = Text(Joined(gone(x), <<>>))
  BY DEF WithoutDots
<1>2. start(p) \in Rooted
  <2>1. <<Slash>> \in Seq(Plain) /\ <<Slash>> # <<>> /\ <<Slash>>[1] = Slash
    BY PlainIs
  <2>2. <<Slash>> \in Rooted
    BY <2>1 DEF Rooted
  <2> QED BY <2>2
<1>3. Segment \subseteq Seq(Char)
  BY PlainIs, SeqMonotonic DEF Segment
<1>4. <<>> \in kept /\ kept \subseteq Segment /\ kept \subseteq Seq(Char) \ {one, two}
  <2>1. <<>> \in Segment /\ <<>> # one /\ <<>> # two
    BY DEF Segment
  <2> QED BY <1>3, <2>1
<1>5. gone(p) \in Seq(kept)
  <2>1. Split(start(p)) \in Seq(Segment)
    BY <1>2, SplitIs
  <2>2. Segment \in SUBSET Seq(Char)
    BY <1>3
  <2> HIDE DEF start, one, two
  <2> QED BY <2>1, <2>2, DotsAreRemoved
<1> HIDE DEF kept
<1>6. j \in Seq(kept) /\ j # <<>>
  <2> HIDE DEF gone
  <2>1. <<<<>>>> \in Seq(kept) /\ <<<<>>>> # <<>>
    BY <1>4
  <2> QED BY <1>5, <2>1 DEF Joined
<1> HIDE DEF j
<1>7. j \in Seq(Segment) /\ j \in Seq(Seq(Char) \ {one, two})
  BY <1>4, <1>6, SeqMonotonic
<1>8. Text(j) \in Rooted /\ Split(Text(j)) = j
  BY <1>6, <1>7, TextIs
<1>9. gone(Text(j)) = j
  <2>1. start(Text(j)) = Text(j)
    BY <1>8 DEF Rooted
  <2>2. RemoveDotSegments(j, Seq(Char), one, two) = j
    <3> HIDE DEF one, two
    <3> QED BY <1>7, NoDotsToRemove
  <2> QED BY <1>8, <2>1, <2>2
<1>10. WithoutDots(p) = Text(j)
  BY <1>1 DEF j
<1>11. WithoutDots(Text(j)) = Text(Joined(j, <<>>))
  BY <1>1, <1>9
<1>12. Joined(j, <<>>) = j
  BY <1>6 DEF Joined
<1> QED BY <1>8, <1>10, <1>11, <1>12

\* The path of a URL, once normalised, stays as it is.
LEMMA UrlPathIs ==
  ASSUME NEW p \in Seq(Char), p = <<>> \/ p[1] = Slash
  PROVE  UrlPath(UrlPath(p)) = UrlPath(p)
<1>1. PercentNormalise(p) = <<>> \/ PercentNormalise(p) \in Rooted
  BY PercentIs
<1>2. /\ UrlPath(p) \in Rooted
      /\ WithoutDots(UrlPath(p)) = UrlPath(p)
  BY <1>1, WithoutDotsIs DEF UrlPath
<1>3. UrlPath(p) \in Seq(Plain) /\ UrlPath(p) \in Seq(Char)
  BY <1>2, PlainIs, SeqMonotonic DEF Rooted
<1>4. PercentNormalise(UrlPath(p)) = UrlPath(p)
  BY <1>3, PercentIs
<1> QED BY <1>2, <1>4 DEF UrlPath

\* A host's labels.
LEMMA HostLabels ==
  ASSUME NEW labels \in Seq(STRING)
  PROVE  HostOf(labels) \in Seq(STRING)
<1>1. Len(labels) \in Nat
  OBVIOUS
<1>2. SubSeq(labels, 1, Len(labels) - 1) \in Seq(STRING)
  BY <1>1, SubSeqProperties
<1> QED BY <1>2 DEF HostOf, Front

\* A host without its closing dot has none.
LEMMA HostIs ==
  ASSUME NEW labels \in Seq(STRING), HostOk(HostOf(labels))
  PROVE  HostOf(HostOf(labels)) = HostOf(labels)
<1>1. PICK host : host = HostOf(labels)
  OBVIOUS
<1>2. host \in Seq(STRING) /\ HostOk(host)
  BY <1>1, HostLabels
<1>3. DOMAIN host = 1 .. Len(host) /\ Len(host) \in Nat
  BY <1>2, LenProperties
<1>4. Len(host) \in DOMAIN host
  BY <1>2, <1>3 DEF HostOk
<1>5. Last(host) # Empty
  BY <1>2, <1>4 DEF HostOk, Last
<1> QED BY <1>1, <1>5 DEF HostOf

\* A URL written out again, read again: a port that is the scheme's own is left
\* out, and put back.
LEMMA UrlReadsBack ==
  ASSUME NEW arg, NEW v, v.host \in Seq(STRING),
         v.path \in {<<>>} \cup {p \in Seq(Char) : p[1] = Slash},
         NEW c, c = CanonicalUrl(arg, v), c # Rejection
  PROVE  c.kind = "url" /\ Rebuild(c).kind = "url" /\ CanonicalUrl(arg, Rebuild(c)) = c
<1>1. PICK port, host, path, scheme :
        /\ port = IF v.port = NoPort THEN DefaultPort(v.scheme) ELSE v.port
        /\ host = HostOf(v.host) /\ path = UrlPath(v.path) /\ scheme = v.scheme
  OBVIOUS
<1>2. /\ scheme \in arg.schemes /\ HostOk(host) /\ port \in 1 .. MaxPort
      /\ c = [kind |-> "url", scheme |-> scheme, host |-> host, port |-> port, path |-> path]
  BY <1>1, Zenon DEF CanonicalUrl
<1>3. HostOf(host) = host /\ UrlPath(path) = path
  <2>1. PICK p : p = v.path
    OBVIOUS
  <2>2. p \in Seq(Char) /\ (p = <<>> \/ p[1] = Slash)
    BY <2>1, EmptySeq
  <2>3. UrlPath(path) = path
    BY <1>1, <2>1, <2>2, UrlPathIs
  <2> QED BY <1>1, <1>2, <2>3, HostIs
<1>4. PICK left : left = IF port = DefaultPort(scheme) THEN NoPort ELSE port
  OBVIOUS
<1>5. Rebuild(c) = [kind |-> "url", scheme |-> scheme, host |-> host, port |-> left, path |-> path]
  BY <1>2, <1>4 DEF Rebuild
<1>6. PICK w : w = Rebuild(c)
  OBVIOUS
<1>7. /\ w.kind = "url" /\ w.scheme = scheme /\ w.host = host /\ w.port = left
      /\ w.path = path
  BY <1>5, <1>6
<1>8. (IF left = NoPort THEN DefaultPort(scheme) ELSE left) = port
  <2>1. port # NoPort
    <3>1. \A n \in 1 .. MaxPort : n # NoPort
      BY DEF NoPort, MaxPort
    <3> QED BY <1>2, <3>1
  <2> QED BY <1>4, <2>1
<1>9. CanonicalUrl(arg, w)
        = [kind |-> "url", scheme |-> scheme, host |-> host, port |-> port, path |-> path]
  BY <1>2, <1>3, <1>7, <1>8, Zenon DEF CanonicalUrl
<1> QED BY <1>2, <1>6, <1>7, <1>9

----------------------------------------------------------------------------
(* What is handed to the tool. *)

\* What was decided, handed to the tool and read again, is what was decided.
LEMMA WireReads ==
  ASSUME NEW arg, arg.kind \in Kinds, ArgOk(arg),
         arg.kind = "money" => {arg.low, arg.high} \subseteq Int,
         NEW v \in Value, NEW c, c = CanonicalValue(arg, v), c # Rejection
  PROVE  CanonicalValue(arg, WireValue(c)) = c
<1>1. v.kind = arg.kind
  BY DEF CanonicalValue
<1>2. CASE arg.kind = "money"
  <2>1. v.whole \in Nat /\ v.digits \in Seq(Digit)
    BY <1>1, <1>2 DEF Value, Digit
  <2>2. arg.low \in Nat /\ arg.high \in Int /\ arg.currencies \subseteq DOMAIN Exponent
    BY <1>2 DEF ArgOk
  <2>3. c = CanonicalMoney(arg, v)
    BY <1>1, <1>2 DEF CanonicalValue
  <2>4. /\ c = [kind |-> "money", minor |-> c.minor, currency |-> c.currency]
        /\ CanonicalMoney(arg, DecimalText(c)) = c
    BY <2>1, <2>2, <2>3, MoneyIs
  <2>5. c.kind = "money"
    BY <2>4
  <2>6. WireValue(c) = DecimalText(c)
    BY <2>5 DEF WireValue
  <2>7. DecimalText(c).kind = "money"
    BY DEF DecimalText
  <2>8. CanonicalValue(arg, DecimalText(c)) = CanonicalMoney(arg, DecimalText(c))
    BY <1>2, <2>7 DEF CanonicalValue
  <2> QED BY <2>4, <2>6, <2>8
<1>3. CASE arg.kind = "path"
  <2>1. v.segments \in Seq(Names)
    BY <1>1, <1>3 DEF Value
  <2>2. c = CanonicalPath(arg, v)
    BY <1>1, <1>3 DEF CanonicalValue
  <2> DEFINE w == [kind |-> "path", absolute |-> TRUE, segments |-> c.segments]
  <2>3. CanonicalPath(arg, w) = c
    BY <2>1, <2>2, PathIs
  <2>4. c.kind = "path"
    BY <2>1, <2>2, PathIs
  <2>5. WireValue(c) = w /\ w.kind = "path"
    BY <2>4 DEF WireValue
  <2> HIDE DEF w
  <2>6. CanonicalValue(arg, w) = CanonicalPath(arg, w)
    BY <1>3, <2>5 DEF CanonicalValue
  <2> QED BY <2>3, <2>5, <2>6
<1>4. CASE arg.kind = "url"
  <2>1. /\ v.host \in Seq(STRING)
        /\ v.path \in {<<>>} \cup {p \in Seq(Char) : p[1] = Slash}
    BY <1>1, <1>4 DEF Value
  <2>2. c = CanonicalUrl(arg, v)
    BY <1>1, <1>4 DEF CanonicalValue
  <2>3. c.kind = "url" /\ Rebuild(c).kind = "url" /\ CanonicalUrl(arg, Rebuild(c)) = c
    BY <2>1, <2>2, UrlReadsBack
  <2>4. WireValue(c) = Rebuild(c)
    BY <2>3 DEF WireValue
  <2>5. CanonicalValue(arg, Rebuild(c)) = CanonicalUrl(arg, Rebuild(c))
    BY <1>4, <2>3 DEF CanonicalValue
  <2> QED BY <2>3, <2>4, <2>5
<1>5. CASE arg.kind = "email"
  <2>1. v.domain \in Seq(STRING)
    BY <1>1, <1>5 DEF Value
  <2>2. c = CanonicalEmail(v)
    BY <1>1, <1>5 DEF CanonicalValue
  <2>3. HostOk(HostOf(v.domain)) /\ c = [kind |-> "email", domain |-> HostOf(v.domain)]
    BY <2>2 DEF CanonicalEmail
  <2>4. c.kind = "email" /\ c.domain = HostOf(v.domain)
    BY <2>3
  <2>5. WireValue(c) = c
    BY <2>4 DEF WireValue
  <2>6. CanonicalValue(arg, c) = CanonicalEmail(c)
    BY <1>5, <2>4 DEF CanonicalValue
  <2>7. HostOf(c.domain) = c.domain /\ HostOk(c.domain)
    BY <2>1, <2>3, <2>4, HostIs
  <2> QED BY <2>3, <2>4, <2>5, <2>6, <2>7 DEF CanonicalEmail
<1>6. CASE arg.kind \in {"id", "int", "template"}
  <2>1. c = v
    BY <1>1, <1>6 DEF CanonicalValue, CanonicalTemplate
  <2>2. WireValue(c) = c
    BY <1>1, <1>6, <2>1 DEF WireValue
  <2> QED BY <2>1, <2>2
<1> QED BY <1>2, <1>3, <1>4, <1>5, <1>6 DEF Kinds

----------------------------------------------------------------------------
(* From the declaration to the verdict. *)

\* What has been loaded is what the manifest accepts, what was called is what an
\* agent may send, and the action is what canonicalize() made of it.
AdmissionInv ==
  /\ tool \in Declarations
  /\ stage \in {"declared", "loaded", "refused", "called"}
  /\ stage \in {"loaded", "called"} => ToolOk(tool)
  /\ IF stage = "called"
     THEN /\ call \in Calls(tool.arg) \cup {Omitted}
          /\ action = Canonicalize(tool, call)
     ELSE action = Rejection

LEMMA AdmissionInvariance == AdmissionSpec => []AdmissionInv
<1>1. AdmissionInit => AdmissionInv
  BY DEF AdmissionInit, AdmissionInv
<1>2. AdmissionInv /\ [AdmissionNext]_admissionVars => AdmissionInv'
  <2> SUFFICES ASSUME AdmissionInv, [AdmissionNext]_admissionVars
               PROVE  AdmissionInv'
    OBVIOUS
  <2>1. CASE Load
    BY <2>1 DEF Load, AdmissionInv
  <2>2. ASSUME NEW sent \in Calls(tool.arg) \cup {Omitted}, Submit(sent)
        PROVE  AdmissionInv'
    BY <2>2 DEF Submit, AdmissionInv
  <2>3. CASE UNCHANGED admissionVars
    BY <2>3 DEF admissionVars, AdmissionInv
  <2> QED BY <2>1, <2>2, <2>3 DEF AdmissionNext
<1> QED BY <1>1, <1>2, PTL DEF AdmissionSpec

----------------------------------------------------------------------------
(* What canonicalization returns. *)

\* A canonical value of the kind declared has the fields of its kind; its
\* numbers are in bounds, its hosts and ids sequences of labels.
CanonicalOk(arg, c) ==
  /\ c.kind = arg.kind
  /\ arg.kind = "email" => "domain" \in DOMAIN c /\ c.domain \in Seq(STRING)
  /\ arg.kind = "url" => /\ {"host", "scheme", "port"} \subseteq DOMAIN c
                         /\ c.host \in Seq(STRING)
                         /\ c.port \in 1 .. MaxPort
  /\ arg.kind = "money" => /\ {"minor", "currency"} \subseteq DOMAIN c
                           /\ c.minor \in arg.low .. arg.high
  /\ arg.kind = "template" => "name" \in DOMAIN c
  /\ arg.kind = "int" => c.value \in arg.low .. arg.high
  /\ arg.kind = "id" => c.value \in Seq(STRING)

LEMMA CanonicalValueOk ==
  ASSUME NEW arg, arg.kind \in Kinds, NEW v \in Value, CanonicalValue(arg, v) # Rejection
  PROVE  CanonicalOk(arg, CanonicalValue(arg, v))
<1>1. v.kind = arg.kind
  BY DEF CanonicalValue
<1>2. CASE arg.kind = "email"
  <2>1. v \in [kind : {"email"}, domain : Seq(STRING)]
    BY <1>1, <1>2 DEF Value
  <2>2. CanonicalValue(arg, v) = [kind |-> "email", domain |-> HostOf(v.domain)]
    BY <1>1, <1>2 DEF CanonicalValue, CanonicalEmail
  <2> QED BY <1>2, <2>1, <2>2, HostLabels DEF CanonicalOk
<1>3. CASE arg.kind = "url"
  <2>1. v.host \in Seq(STRING)
    BY <1>1, <1>3 DEF Value
  <2> DEFINE port == IF v.port = NoPort THEN DefaultPort(v.scheme) ELSE v.port
  <2>2. CanonicalValue(arg, v) = CanonicalUrl(arg, v)
    BY <1>1, <1>3 DEF CanonicalValue
  <2>3. /\ port \in 1 .. MaxPort
        /\ CanonicalUrl(arg, v)
             = [kind |-> "url", scheme |-> v.scheme, host |-> HostOf(v.host), port |-> port,
                path |-> UrlPath(v.path)]
    BY <2>2, Zenon DEF CanonicalUrl
  <2> HIDE DEF port
  <2>4. PICK host \in Seq(STRING) : host = HostOf(v.host)
    BY <2>1, HostLabels
  <2>5. PICK path : path = UrlPath(v.path)
    OBVIOUS
  <2>6. CanonicalValue(arg, v)
          = [kind |-> "url", scheme |-> v.scheme, host |-> host, port |-> port, path |-> path]
    BY <2>2, <2>3, <2>4, <2>5
  <2> QED BY <1>3, <2>3, <2>6 DEF CanonicalOk
<1>4. CASE arg.kind = "money"
  <2> DEFINE minor == v.whole * 10 ^ Exponent[v.currency]
                        + Number(Padded(v.digits, Exponent[v.currency]))
  <2>1. /\ minor \in arg.low .. arg.high
        /\ CanonicalValue(arg, v) = [kind |-> "money", minor |-> minor, currency |-> v.currency]
    BY <1>1, <1>4 DEF CanonicalValue, CanonicalMoney
  <2> HIDE DEF minor
  <2> QED BY <1>4, <2>1 DEF CanonicalOk
<1>5. CASE arg.kind = "template"
  <2>1. v \in [kind : {"template"}, name : STRING, param : Int]
    BY <1>1, <1>5 DEF Value
  <2>2. CanonicalValue(arg, v) = v
    BY <1>1, <1>5 DEF CanonicalValue, CanonicalTemplate
  <2> QED BY <1>5, <2>1, <2>2 DEF CanonicalOk
<1>6. CASE arg.kind = "int"
  <2>1. CanonicalValue(arg, v) = v /\ v.value \in arg.low .. arg.high
    BY <1>1, <1>6 DEF CanonicalValue
  <2> QED BY <1>1, <1>6, <2>1 DEF CanonicalOk
<1>7. CASE arg.kind = "id"
  <2>1. CanonicalValue(arg, v) = v
    BY <1>1, <1>7 DEF CanonicalValue
  <2>2. v.value \in Seq(STRING)
    BY <1>1, <1>7 DEF Value
  <2> QED BY <1>1, <1>7, <2>1, <2>2 DEF CanonicalOk
<1>8. CASE arg.kind = "path"
  <2>1. CanonicalValue(arg, v) = CanonicalPath(arg, v)
    BY <1>1, <1>8 DEF CanonicalValue
  <2>2. \/ CanonicalPath(arg, v) = Rejection
        \/ \E path : CanonicalPath(arg, v) = [kind |-> "path", segments |-> path]
    BY Zenon DEF CanonicalPath
  <2> QED BY <1>8, <2>1, <2>2 DEF CanonicalOk
<1> QED BY <1>2, <1>3, <1>4, <1>5, <1>6, <1>7, <1>8 DEF Kinds

\* What is read of a canonical value is there, in a tool the manifest accepts.
LEMMA FieldsAreThere ==
  ASSUME NEW t \in Declarations, ToolOk(t), t.from,
         NEW c, CanonicalOk(t.arg, c)
  PROVE  ~Missing(t, c)
<1>1. t.arg.kind \in {"email", "id", "path", "template", "url"}
  BY DEF ToolOk, ResourceOk
<1>2. CASE t.arg.kind \in {"email", "template", "url"}
  <2>1. t.field \in DOMAIN Fields(t.arg.kind)
    BY <1>2 DEF ToolOk, ResourceOk
  <2>2. DOMAIN Fields("email") = {"domain"} /\ DOMAIN Fields("template") = {"name"}
        /\ DOMAIN Fields("url") = {"host", "scheme", "port"}
    BY DEF Fields
  <2>3. t.field \in DOMAIN c
    BY <1>2, <2>1, <2>2 DEF CanonicalOk
  <2> QED BY <2>3 DEF Missing
<1>3. CASE t.arg.kind \in {"id", "path"}
  BY <1>3 DEF ToolOk, ResourceOk, Missing
<1> QED BY <1>1, <1>2, <1>3

LEMMA Apart ==
  /\ Rejection # Failure /\ Rejection # Omitted /\ Failure # Omitted
  /\ \A v, r, p : LET a == [kind |-> "action", value |-> v, resource |-> r, parents |-> p]
                  IN  a # Rejection /\ a # Failure
  BY DEF Rejection, Failure, Omitted

\* Nothing but an argument that was left out, where a resource is taken from it,
\* makes canonicalize() raise anything but a Rejection: manifest.py's checks of
\* the declaration are those canonical.py relies on.
THEOREM CallsHaveVerdicts == AdmissionSpec => []CallsEndInAVerdict
<1>1. AdmissionInv => CallsEndInAVerdict
  <2> SUFFICES ASSUME AdmissionInv, action = Failure
               PROVE  call = Omitted /\ tool.optional /\ tool.from
    BY DEF CallsEndInAVerdict
  <2> DEFINE value == IF call = Omitted THEN Omitted ELSE CanonicalValue(tool.arg, call)
  <2>1. /\ stage = "called" /\ ToolOk(tool) /\ tool \in Declarations
        /\ call \in Calls(tool.arg) \cup {Omitted}
        /\ Canonicalize(tool, call) = Failure
    BY Apart DEF AdmissionInv
  <2>2. /\ ~((call = Omitted /\ ~tool.optional) \/ value = Rejection)
        /\ tool.from /\ (call = Omitted \/ Missing(tool, value))
    BY <2>1, Apart DEF Canonicalize
  <2>3. ASSUME call # Omitted
        PROVE  FALSE
    <3>1. tool.arg.kind \in Kinds /\ call \in Value
      BY <2>1, <2>3, AdmissionAssumption
    <3>2. CanonicalOk(tool.arg, value)
      BY <2>2, <2>3, <3>1, CanonicalValueOk
    <3> QED BY <2>1, <2>2, <2>3, <3>2, FieldsAreThere
  <2> QED BY <2>2, <2>3
<1> QED BY <1>1, AdmissionInvariance, PTL

\* The value of an action, where the argument was sent.
LEMMA ActedOn ==
  ASSUME AdmissionInv, Acted
  PROVE  LET value == IF call = Omitted THEN Omitted ELSE CanonicalValue(tool.arg, call)
             resource == IF tool.from THEN ResourceOf(tool, value) ELSE <<"fixed">>
         IN  /\ ToolOk(tool) /\ tool \in Declarations
             /\ action = [kind |-> "action", value |-> value, resource |-> resource,
                          parents |-> ParentsOf(tool, resource)]
             /\ tool.from => call # Omitted /\ IsText(tool, value)
             /\ call # Omitted => CanonicalOk(tool.arg, value)
<1> DEFINE value == IF call = Omitted THEN Omitted ELSE CanonicalValue(tool.arg, call)
           resource == IF tool.from THEN ResourceOf(tool, value) ELSE <<"fixed">>
           act == [kind |-> "action", value |-> value, resource |-> resource,
                   parents |-> ParentsOf(tool, resource)]
<1>1. /\ stage = "called" /\ ToolOk(tool) /\ tool \in Declarations
      /\ call \in Calls(tool.arg) \cup {Omitted}
      /\ action = Canonicalize(tool, call) /\ action # Rejection /\ action # Failure
  BY DEF AdmissionInv, Acted
<1>2. /\ value # Rejection
      /\ ~(tool.from /\ (call = Omitted \/ Missing(tool, value)))
      /\ ~(tool.from /\ ~IsText(tool, value))
      /\ action = act
  BY <1>1 DEF Canonicalize
<1>3. ASSUME call # Omitted
      PROVE  CanonicalOk(tool.arg, value)
  <2>1. tool.arg.kind \in Kinds /\ call \in Value
    BY <1>1, <1>3, AdmissionAssumption
  <2> QED BY <1>2, <1>3, <2>1, CanonicalValueOk
<1> QED BY <1>1, <1>2, <1>3

\* What was sent, where something was, and what it was sent for.
LEMMA ValueOf ==
  ASSUME AdmissionInv, Acted, call # Omitted
  PROVE  /\ tool.arg.kind \in Kinds /\ ArgOk(tool.arg) /\ call \in Value
         /\ tool.arg.kind = "money" => {tool.arg.low, tool.arg.high} \subseteq Int
         /\ CanonicalValue(tool.arg, call) # Rejection
<1>1. /\ stage = "called" /\ ToolOk(tool) /\ tool \in Declarations
      /\ call \in Calls(tool.arg)
      /\ action = Canonicalize(tool, call) /\ action # Rejection
  BY DEF AdmissionInv, Acted
<1>2. CanonicalValue(tool.arg, call) # Rejection
  BY <1>1 DEF Canonicalize
<1> QED BY <1>1, <1>2, AdmissionAssumption DEF ToolOk

\* What the runner is handed, read again, is the very value the decision was
\* taken on: canonical.py's wire_value() against canonicalize(), for every
\* argument the manifest accepts.
THEOREM WhatRunsWasDecided == AdmissionSpec => []WireReadsBack
<1>1. AdmissionInv => WireReadsBack
  <2> SUFFICES ASSUME AdmissionInv, Acted, action.value # Omitted
               PROVE  CanonicalValue(tool.arg, WireValue(action.value)) = action.value
    BY DEF WireReadsBack
  <2>1. call # Omitted /\ action.value = CanonicalValue(tool.arg, call)
    BY ActedOn
  <2>2. /\ tool.arg.kind \in Kinds /\ ArgOk(tool.arg) /\ call \in Value
        /\ tool.arg.kind = "money" => {tool.arg.low, tool.arg.high} \subseteq Int
        /\ CanonicalValue(tool.arg, call) # Rejection
    BY <2>1, ValueOf
  <2> QED BY <2>1, <2>2, WireReads
<1> QED BY <1>1, AdmissionInvariance, PTL

\* An amount in minor units is what was written: money.py never rounds, and
\* refuses what its currency cannot hold.
THEOREM AmountsAreExact == AdmissionSpec => []MoneyIsExact
<1>1. AdmissionInv => MoneyIsExact
  <2> SUFFICES ASSUME AdmissionInv, Acted, tool.arg.kind = "money", call # Omitted
               PROVE  action.value.minor * 10 ^ Len(call.digits) =
                        (call.whole * 10 ^ Len(call.digits) + Number(call.digits))
                          * 10 ^ Exponent[call.currency]
    BY DEF MoneyIsExact
  <2>1. action.value = CanonicalValue(tool.arg, call)
    BY ActedOn
  <2>2. /\ ArgOk(tool.arg) /\ call \in Value
        /\ {tool.arg.low, tool.arg.high} \subseteq Int
        /\ CanonicalValue(tool.arg, call) # Rejection
    BY ValueOf
  <2>3. call.kind = "money" /\ CanonicalValue(tool.arg, call) = CanonicalMoney(tool.arg, call)
    BY <2>2 DEF CanonicalValue
  <2>4. call.whole \in Nat /\ call.digits \in Seq(Digit)
    BY <2>2, <2>3 DEF Value, Digit
  <2>5. tool.arg.low \in Nat /\ tool.arg.high \in Int
        /\ tool.arg.currencies \subseteq DOMAIN Exponent
    BY <2>2 DEF ArgOk
  <2> QED BY <2>1, <2>2, <2>3, <2>4, <2>5, MoneyIs
<1> QED BY <1>1, AdmissionInvariance, PTL

\* The file a call opens lies in the sandbox, step by step from the root, however
\* the call and the sandbox are spelt: canonical_path() in url.py.
THEOREM PathsStayInside == AdmissionSpec => []PathStaysInside
<1>1. AdmissionInv => PathStaysInside
  <2> SUFFICES ASSUME AdmissionInv, Acted, tool.arg.kind = "path",
                      action.value # Omitted, tool.arg.confined
               PROVE  IsPrefix(Walk(tool.arg.under), Walk(WireValue(action.value).segments))
    BY DEF PathStaysInside
  <2>1. call # Omitted /\ action.value = CanonicalValue(tool.arg, call)
        /\ tool \in Declarations
    BY ActedOn
  <2>2. call \in Value /\ CanonicalValue(tool.arg, call) # Rejection
    BY <2>1, ValueOf
  <2>3. call.kind = "path" /\ CanonicalValue(tool.arg, call) = CanonicalPath(tool.arg, call)
    BY <2>2 DEF CanonicalValue
  <2>4. call.segments \in Seq(Names)
    BY <2>2, <2>3 DEF Value
  <2>5. tool.arg.under \in Seq(Names)
    BY <2>1, AdmissionAssumption
  <2>6. PICK arg, v, c : arg = tool.arg /\ v = call /\ c = action.value
    OBVIOUS
  <2>7. /\ c.kind = "path"
        /\ IsPrefix(Walk(arg.under), Walk(c.segments))
    <3>1. /\ v.segments \in Seq(Names) /\ c = CanonicalPath(arg, v) /\ c # Rejection
          /\ arg.confined /\ arg.under \in Seq(Names)
      BY <2>1, <2>2, <2>3, <2>4, <2>5, <2>6
    <3>2. c.kind = "path"
      BY <3>1, PathIs
    <3>3. IsPrefix(Walk(arg.under), Walk(c.segments))
      BY <3>1, PathIs
    <3> QED BY <3>2, <3>3
  <2>8. WireValue(c).segments = c.segments
    BY <2>7 DEF WireValue
  <2> QED BY <2>6, <2>7, <2>8
<1> QED BY <1>1, AdmissionInvariance, PTL

----------------------------------------------------------------------------
(* Budgets. *)

\* A tool's budget is an amount the ledger accepts: what manifest.py lets a
\* budget name is a whole number, not negative, of every canonical value
\* (ledger.py's budget_reservation, after an ALLOW).
THEOREM BudgetsFit == AdmissionSpec => []ReservationFits
<1>1. AdmissionInv => ReservationFits
  <2> SUFFICES ASSUME AdmissionInv, Acted
               PROVE  Reservation(tool, action) \in Nat
    BY DEF ReservationFits
  <2> DEFINE c == CanonicalValue(tool.arg, call)
             kind == tool.arg.kind
  <2>1. /\ ToolOk(tool) /\ tool \in Declarations
        /\ action.value = IF call = Omitted THEN Omitted ELSE c
        /\ call # Omitted => CanonicalOk(tool.arg, c)
    BY ActedOn
  <2>2. CASE ~tool.budget \/ call = Omitted
    BY <2>1, <2>2 DEF Reservation
  <2>3. CASE tool.budget /\ call # Omitted
    <3> HIDE DEF c
    <3>1. action.value = c /\ CanonicalOk(tool.arg, c)
      BY <2>1, <2>3
    <3>2. CASE action.value = Omitted
      BY <3>2 DEF Reservation
    <3>3. CASE action.value # Omitted /\ kind = "int"
      <4>1. tool.budgetField = None /\ tool.arg.low >= 0 /\ tool.arg.low \in Int
        BY <2>1, <2>3, <3>3, AdmissionAssumption DEF ToolOk, BudgetOk
      <4>2. c.kind = "int" /\ c.value \in tool.arg.low .. tool.arg.high
        BY <3>1, <3>3 DEF CanonicalOk
      <4>3. Reservation(tool, action) = c.value
        BY <2>3, <3>1, <3>3, <4>1, <4>2 DEF Reservation
      <4> QED BY <4>1, <4>2, <4>3
    <3>4. CASE action.value # Omitted /\ kind # "int"
      <4>1. /\ tool.budgetField \in DOMAIN Fields(kind)
            /\ Fields(kind)[tool.budgetField]
        BY <2>1, <2>3, <3>4 DEF ToolOk, BudgetOk
      <4>2. \/ kind = "money" /\ tool.budgetField = "minor"
            \/ kind = "url" /\ tool.budgetField = "port"
        <5>1. kind \in Kinds
          BY <2>1, AdmissionAssumption
        <5>2. CASE kind \in {"id", "path"}
          <6>1. Fields(kind) = [n \in {} |-> FALSE]
            BY <5>2 DEF Fields
          <6> QED BY <4>1, <6>1
        <5>3. CASE kind \in {"email", "template"}
          <6>1. Fields(kind) = [domain |-> FALSE] \/ Fields(kind) = [name |-> FALSE]
            BY <5>3 DEF Fields
          <6>2. tool.budgetField \in {"domain", "name"} /\ Fields(kind)[tool.budgetField] = FALSE
            BY <4>1, <6>1
          <6> QED BY <4>1, <6>2
        <5>4. CASE kind = "money"
          <6>1. Fields(kind) = [minor |-> TRUE, currency |-> FALSE]
            BY <5>4 DEF Fields
          <6> QED BY <4>1, <5>4, <6>1
        <5>5. CASE kind = "url"
          <6>1. Fields(kind) = [host |-> FALSE, scheme |-> FALSE, port |-> TRUE]
            BY <5>5 DEF Fields
          <6> QED BY <4>1, <5>5, <6>1
        <5> QED BY <3>4, <5>1, <5>2, <5>3, <5>4, <5>5 DEF Kinds
      <4>3. tool.budgetField # None
        BY <4>2, AdmissionAssumption
      <4>4. CASE kind = "money"
        <5>1. /\ "minor" \in DOMAIN c /\ c.minor \in tool.arg.low .. tool.arg.high
              /\ tool.arg.low >= 0 /\ tool.arg.low \in Int
          BY <2>1, <3>1, <4>4, AdmissionAssumption DEF CanonicalOk, ToolOk, ArgOk
        <5>2. Reservation(tool, action) = c["minor"]
          BY <2>3, <3>1, <3>4, <4>2, <4>3, <4>4, <5>1 DEF Reservation
        <5> QED BY <5>1, <5>2
      <4>5. CASE kind = "url"
        <5>1. "port" \in DOMAIN c /\ c.port \in 1 .. MaxPort
          BY <3>1, <4>5 DEF CanonicalOk
        <5>2. Reservation(tool, action) = c["port"]
          BY <2>3, <3>1, <3>4, <4>2, <4>3, <4>5, <5>1 DEF Reservation
        <5> QED BY <5>1, <5>2
      <4> QED BY <4>2, <4>4, <4>5
    <3> QED BY <3>2, <3>3, <3>4
  <2> QED BY <2>2, <2>3
<1> QED BY <1>1, AdmissionInvariance, PTL

----------------------------------------------------------------------------
(* Allowlists. *)

\* A sequence written out by index.
LEMMA LenOfMap ==
  ASSUME NEW m \in Nat, NEW s \in [1 .. m -> STRING]
  PROVE  s \in Seq(STRING) /\ Len(s) = m
<1>1. s \in Seq(STRING)
  BY SeqDef
<1>2. Len(s) \in Nat /\ DOMAIN s = 1 .. Len(s)
  BY <1>1, LenProperties
<1>3. 1 .. m = 1 .. Len(s)
  BY <1>2
<1> QED BY <1>1, <1>2, <1>3

\* A suffix, as what the sequence ends in.
LEMMA SuffixIsTheEnd ==
  ASSUME NEW d \in Seq(STRING), NEW h \in Seq(STRING)
  PROVE  IsSuffix(d, h) <=>
           Len(d) <= Len(h) /\ d = SubSeq(h, Len(h) - Len(d) + 1, Len(h))
<1> DEFINE m == Len(d)
           n == Len(h)
           end == SubSeq(h, n - m + 1, n)
<1>1. m \in Nat /\ n \in Nat
  OBVIOUS
<1>2. /\ Reverse(d) = [i \in 1 .. m |-> d[m - i + 1]]
      /\ Reverse(h) = [i \in 1 .. n |-> h[n - i + 1]]
  BY DEF Reverse
<1>3. /\ Reverse(d) \in [1 .. m -> STRING]
      /\ Reverse(h) \in [1 .. n -> STRING]
  BY <1>1, <1>2
<1>4. /\ Reverse(d) \in Seq(STRING) /\ Len(Reverse(d)) = m
      /\ Reverse(h) \in Seq(STRING) /\ Len(Reverse(h)) = n
  BY <1>1, <1>3, LenOfMap
<1>5. CASE m <= n
  <2>1. IsSuffix(d, h) <=> \A i \in 1 .. m : Reverse(d)[i] = Reverse(h)[i]
    BY <1>1, <1>4, <1>5 DEF IsSuffix, IsPrefix
  <2>2. end \in Seq(STRING) /\ Len(end) = m /\ \A j \in 1 .. m : end[j] = h[n - m + j]
    BY <1>1, <1>5, SubSeqProperties
  <2>3. ASSUME \A i \in 1 .. m : Reverse(d)[i] = Reverse(h)[i]
        PROVE  d = end
    <3>1. ASSUME NEW j \in 1 .. m
          PROVE  d[j] = end[j]
      <4>1. m - j + 1 \in 1 .. m /\ m - j + 1 \in 1 .. n
        BY <1>1, <1>5
      <4>2. /\ Reverse(d)[m - j + 1] = d[m - (m - j + 1) + 1]
            /\ Reverse(h)[m - j + 1] = h[n - (m - j + 1) + 1]
        BY <1>2, <4>1
      <4>3. m - (m - j + 1) + 1 = j /\ n - (m - j + 1) + 1 = n - m + j
        BY <1>1
      <4> QED BY <2>2, <2>3, <4>1, <4>2, <4>3
    <3> QED BY <2>2, <3>1, SeqEqual
  <2>4. ASSUME d = end, NEW i \in 1 .. m
        PROVE  Reverse(d)[i] = Reverse(h)[i]
    <3>1. m - i + 1 \in 1 .. m /\ i \in 1 .. n /\ n - m + (m - i + 1) = n - i + 1
      BY <1>1, <1>5
    <3>2. d[m - i + 1] = h[n - m + (m - i + 1)]
      BY <2>2, <2>4, <3>1
    <3> QED BY <1>2, <3>1, <3>2
  <2> QED BY <1>5, <2>1, <2>3, <2>4
<1>6. CASE ~(m <= n)
  <2>1. ~IsSuffix(d, h)
    BY <1>4, <1>6 DEF IsSuffix, IsPrefix
  <2> QED BY <1>6, <2>1
<1> QED BY <1>5, <1>6

\* host_suffixes() of a sequence of labels: its ends of two labels or more.
LEMMA SuffixesAreEnds ==
  ASSUME NEW d \in Seq(STRING), NEW h \in Seq(STRING)
  PROVE  d \in HostSuffixes(h) <=> Len(d) >= 2 /\ IsSuffix(d, h)
<1> DEFINE n == Len(h)
<1>1. n \in Nat /\ Len(d) \in Nat
  OBVIOUS
<1>2. ASSUME d \in HostSuffixes(h)
      PROVE  Len(d) >= 2 /\ IsSuffix(d, h)
  <2>1. PICK k \in 1 .. n - 1 : d = SubSeq(h, k, n)
    BY <1>2 DEF HostSuffixes
  <2>2. Len(d) = n - k + 1
    BY <1>1, <2>1, SubSeqProperties
  <2>3. n - Len(d) + 1 = k /\ Len(d) >= 2 /\ Len(d) <= n
    BY <1>1, <2>2
  <2> QED BY <2>1, <2>3, SuffixIsTheEnd
<1>3. ASSUME Len(d) >= 2, IsSuffix(d, h)
      PROVE  d \in HostSuffixes(h)
  <2>1. Len(d) <= n /\ d = SubSeq(h, n - Len(d) + 1, n)
    BY <1>3, SuffixIsTheEnd
  <2>2. n - Len(d) + 1 \in 1 .. n - 1
    BY <1>1, <1>3, <2>1
  <2> QED BY <2>1, <2>2 DEF HostSuffixes
<1> QED BY <1>2, <1>3

\* The id of a resource that can have derived parents is a sequence of labels.
LEMMA ResourceLabels ==
  ASSUME AdmissionInv, Acted, tool.parents, tool.arg.kind # "path"
  PROVE  \/ action.resource \in Seq(STRING)
         \/ \E label : action.resource = <<label>>
<1> DEFINE c == CanonicalValue(tool.arg, call)
<1>1. tool.from
  BY ActedOn DEF ToolOk, ResourceOk
<1>2. /\ ToolOk(tool) /\ tool \in Declarations
      /\ call # Omitted /\ CanonicalOk(tool.arg, c)
      /\ action.resource = ResourceOf(tool, c)
  BY <1>1, ActedOn
<1> HIDE DEF c
<1>3. tool.arg.kind \in {"email", "id", "template", "url"}
  BY <1>1, <1>2 DEF ToolOk, ResourceOk
<1>4. tool.arg.kind \in {"email", "template", "url"} =>
        tool.field \in DOMAIN Fields(tool.arg.kind)
  BY <1>1, <1>2 DEF ToolOk, ResourceOk
<1>5. CASE tool.arg.kind = "email"
  <2>1. tool.field = "domain"
    BY <1>4, <1>5 DEF Fields
  <2>2. action.resource = c.domain
    BY <1>2, <1>5, <2>1 DEF ResourceOf, CanonicalOk
  <2> QED BY <1>2, <1>5, <2>2 DEF CanonicalOk
<1>6. CASE tool.arg.kind = "url"
  <2>1. tool.field \in {"host", "scheme"}
    <3>1. tool.field \in {"host", "scheme", "port"}
      BY <1>4, <1>6 DEF Fields
    <3>2. IsText(tool, c) /\ c.kind = "url"
      BY <1>1, <1>2, <1>6, ActedOn DEF c, CanonicalOk
    <3> QED BY <3>1, <3>2 DEF IsText
  <2>2. CASE tool.field = "host"
    <3>1. action.resource = c["host"]
      BY <1>2, <1>6, <2>2 DEF ResourceOf, CanonicalOk
    <3> QED BY <1>2, <1>6, <3>1 DEF CanonicalOk
  <2>3. CASE tool.field = "scheme"
    <3>1. action.resource = <<c["scheme"]>>
      BY <1>2, <1>6, <2>3 DEF ResourceOf, CanonicalOk
    <3> QED BY <3>1
  <2> QED BY <2>1, <2>2, <2>3
<1>7. CASE tool.arg.kind = "template"
  <2>1. tool.field = "name"
    BY <1>4, <1>7 DEF Fields
  <2>2. action.resource = <<c["name"]>>
    BY <1>2, <1>7, <2>1 DEF ResourceOf, CanonicalOk
  <2> QED BY <2>2
<1>8. CASE tool.arg.kind = "id"
  <2>1. tool.field = None
    BY <1>1, <1>2, <1>8 DEF ToolOk, ResourceOk
  <2>2. c.kind = "id" /\ c.value \in Seq(STRING)
    BY <1>2, <1>8 DEF CanonicalOk
  <2>3. action.resource = c.value
    BY <1>2, <2>1, <2>2, AdmissionAssumption DEF ResourceOf
  <2> QED BY <2>2, <2>3
<1> QED BY <1>3, <1>5, <1>6, <1>7, <1>8

\* A resource of one label is beneath nothing, and nothing of two labels is its
\* end.
LEMMA OneLabel ==
  ASSUME NEW label, NEW d \in Seq(STRING), Len(d) >= 2
  PROVE  HostSuffixes(<<label>>) = {} /\ ~IsSuffix(d, <<label>>)
<1>1. HostSuffixes(<<label>>) = {}
  BY DEF HostSuffixes
<1>2. Len(Reverse(d)) = Len(d) /\ Len(Reverse(<<label>>)) = 1
  <2>1. /\ Reverse(d) = [i \in 1 .. Len(d) |-> d[Len(d) - i + 1]]
        /\ Len(d) \in Nat
    BY DEF Reverse
  <2>2. Reverse(<<label>>) = [i \in 1 .. 1 |-> <<label>>[1 - i + 1]]
    BY DEF Reverse
  <2>3. DOMAIN Reverse(d) = 1 .. Len(d) /\ DOMAIN Reverse(<<label>>) = 1 .. 1
    BY <2>1, <2>2
  <2>4. Reverse(d) \in Seq(STRING)
    <3>1. Reverse(d) \in [1 .. Len(d) -> STRING]
      BY <2>1
    <3> QED BY <2>1, <3>1, SeqDef
  <2>5. Reverse(<<label>>) = <<label>>
    BY <2>2
  <2> QED BY <2>1, <2>3, <2>4, <2>5, LenProperties
<1> QED BY <1>1, <1>2 DEF IsSuffix, IsPrefix

\* What evaluate() finds beneath an allowlist is what ends in a listed host: no
\* listed label alone, and no part of a label, puts a call there.
THEOREM AllowlistIsExact == AdmissionSpec => []AllowlistedMeansBeneath
<1>1. AdmissionInv => AllowlistedMeansBeneath
  <2> SUFFICES ASSUME AdmissionInv, Acted, tool.parents, tool.arg.kind # "path"
               PROVE  Beneath(action, Listed) <=>
                        \E d \in Listed : Len(d) >= 2 /\ IsSuffix(d, action.resource)
    BY DEF AllowlistedMeansBeneath
  <2>1. action.parents = HostSuffixes(action.resource)
    <3> DEFINE value == IF call = Omitted THEN Omitted ELSE CanonicalValue(tool.arg, call)
               resource == IF tool.from THEN ResourceOf(tool, value) ELSE <<"fixed">>
    <3>1. action = [kind |-> "action", value |-> value, resource |-> resource,
                    parents |-> ParentsOf(tool, resource)]
      BY ActedOn
    <3> HIDE DEF value, resource
    <3>2. action.resource = resource /\ action.parents = ParentsOf(tool, resource)
      BY <3>1
    <3> QED BY <3>2 DEF ParentsOf
  <2>2. \A d \in Listed : d \in Seq(STRING)
    BY AdmissionAssumption
  <2>3. \A d \in Listed : d \in HostSuffixes(action.resource) <=>
                            Len(d) >= 2 /\ IsSuffix(d, action.resource)
    <3>1. CASE action.resource \in Seq(STRING)
      BY <2>2, <3>1, SuffixesAreEnds
    <3>2. ASSUME NEW label, action.resource = <<label>>
          PROVE  \A d \in Listed : d \in HostSuffixes(action.resource) <=>
                                     Len(d) >= 2 /\ IsSuffix(d, action.resource)
      <4>1. HostSuffixes(action.resource) = {}
        BY <3>2 DEF HostSuffixes
      <4> QED BY <2>2, <3>2, <4>1, OneLabel
    <3> QED BY <3>1, <3>2, ResourceLabels
  <2> QED BY <2>1, <2>3 DEF Beneath
<1> QED BY <1>1, AdmissionInvariance, PTL

----------------------------------------------------------------------------
(* The store. *)

\* What check_snapshot() accepts is of the snapshot's types.
LEMMA FactTypes ==
  ASSUME NEW facts, FactsOk(facts), NEW type, NEW id, <<type, id>> \in facts
  PROVE  type \in SnapshotTypes
<1>1. <<type, id>>[1] \in SnapshotTypes
  BY DEF FactsOk
<1> QED BY <1>1

LEMMA UidTypes ==
  ASSUME NEW kind, NEW ids, NEW type, NEW id, <<type, id>> \in Uids(kind, ids)
  PROVE  type = kind
BY DEF Uids

\* In a bundle that loads, no facts a snapshot may carry and no resource a call
\* may be about repeat an entity of the store: with_added_json_str() never
\* refuses the store of evaluate().
THEOREM StoreIsSound == AdmissionSpec => []NoEntityTwice
<1>1. AdmissionInv => NoEntityTwice
  <2> SUFFICES ASSUME AdmissionInv, Acted,
                      NEW facts, FactsOk(facts)
               PROVE  /\ facts \cap Uids("HostSuffix", Listed) = {}
                      /\ tool.parents =>
                           <<tool.type, action.resource>>
                             \notin facts \cup Uids("HostSuffix", Listed)
    BY DEF NoEntityTwice
  <2>1. facts \cap Uids("HostSuffix", Listed) = {}
    <3> SUFFICES ASSUME NEW id \in Listed, <<"HostSuffix", id>> \in facts
                 PROVE  FALSE
      BY DEF Uids
    <3> QED BY FactTypes DEF SnapshotTypes
  <2>2. ASSUME tool.parents
        PROVE  <<tool.type, action.resource>> \notin facts \cup Uids("HostSuffix", Listed)
    <3>1. tool.type \notin ConfigTypes \cup SnapshotTypes
      BY <2>2 DEF AdmissionInv, Acted, ToolOk, NoClash
    <3>2. <<tool.type, action.resource>> \notin facts
      BY <3>1, FactTypes
    <3>3. <<tool.type, action.resource>> \notin Uids("HostSuffix", Listed)
      BY <3>1, UidTypes DEF ConfigTypes
    <3> QED BY <3>2, <3>3
  <2> QED BY <2>1, <2>2
<1> QED BY <1>1, AdmissionInvariance, PTL
=============================================================================
