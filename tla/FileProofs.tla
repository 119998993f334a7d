----------------------------- MODULE FileProofs -----------------------------
(***************************************************************************)
(* The chain of module LedgerFile, for any processes, however many of them *)
(* append, any event bodies and any number of writes, failing writes and   *)
(* deaths.                                                                 *)
(***************************************************************************)
EXTENDS LedgerFile, TLAPS

(* Sequences of pieces.                                                    *)

\* The hash of a record is a history; so is the hash any record must link to.
LEMMA LinksAreHistories ==
  ASSUME NEW f \in Seq(Piece), NEW i \in 1 .. Len(f) + 1
  PROVE  LinkBefore(f, i) \in Seq(Bodies)
<1>1. CASE i = 1  BY <1>1 DEF LinkBefore, Genesis
<1>2. CASE i # 1
  <2>1. f[i - 1] \in Piece  BY <1>2
  <2>2. Hash(f[i - 1]) \in Seq(Bodies)  BY <2>1 DEF Hash, Piece
  <2> QED  BY <1>2, <2>2 DEF LinkBefore
<1> QED  BY <1>1, <1>2

\* A record added at the end changes no link before it, and its hash is the
\* new tip.
LEMMA LinksStay ==
  ASSUME NEW f \in Seq(Piece), NEW r \in Piece
  PROVE  /\ Append(f, r) \in Seq(Piece)
         /\ Len(Append(f, r)) = Len(f) + 1
         /\ \A i \in 1 .. Len(f) : Append(f, r)[i] = f[i]
         /\ Append(f, r)[Len(f) + 1] = r
         /\ \A i \in 1 .. Len(f) + 1 : LinkBefore(Append(f, r), i) = LinkBefore(f, i)
         /\ Tip(Append(f, r)) = Hash(r)
<1>1. /\ Append(f, r) \in Seq(Piece)
      /\ Len(Append(f, r)) = Len(f) + 1
      /\ \A i \in 1 .. Len(f) : Append(f, r)[i] = f[i]
      /\ Append(f, r)[Len(f) + 1] = r
  OBVIOUS
<1>2. ASSUME NEW i \in 1 .. Len(f) + 1
      PROVE  LinkBefore(Append(f, r), i) = LinkBefore(f, i)
  <2>1. i # 1 => i - 1 \in 1 .. Len(f)  OBVIOUS
  <2> QED  BY <1>1, <2>1 DEF LinkBefore
<1>3. Tip(Append(f, r)) = Hash(r)
  <2>1. Len(Append(f, r)) + 1 # 1  BY <1>1
  <2> QED  BY <1>1, <2>1 DEF Tip, LinkBefore
<1> QED  BY <1>1, <1>2, <1>3

\* What a history begins with, it still begins with once it is continued.
LEMMA BeginningsStay ==
  ASSUME NEW s \in Seq(Bodies), NEW b \in Bodies, NEW n \in 0 .. Len(s)
  PROVE  SubSeq(Append(s, b), 1, n) = SubSeq(s, 1, n)
OBVIOUS

\* All of a history is a beginning of it.
LEMMA WholeIsBeginning ==
  ASSUME NEW s \in Seq(Bodies)
  PROVE  SubSeq(s, 1, Len(s)) = s
OBVIOUS

\* In a chain the hash that a record must link to counts the records before it.
LEMMA LinksCount ==
  ASSUME NEW f \in Seq(Piece), Chained(f),
         \A i \in 1 .. Len(f) : f[i].seq = Len(f[i].prev)
  PROVE  /\ \A i \in 1 .. Len(f) : Len(Hash(f[i])) = i
         /\ Len(Tip(f)) = Len(f)
<1>1. ASSUME NEW i \in 1 .. Len(f) PROVE Len(Hash(f[i])) = i
  <2>1. f[i] \in Piece  OBVIOUS
  <2>2. f[i].prev \in Seq(Bodies) /\ f[i].body \in Bodies  BY <2>1 DEF Piece
  <2>3. Len(f[i].prev) = i - 1  BY DEF Chained
  <2> QED  BY <2>2, <2>3 DEF Hash
<1>2. Len(Tip(f)) = Len(f)
  <2>1. CASE Len(f) = 0  BY <2>1 DEF Tip, LinkBefore, Genesis
  <2>2. CASE Len(f) # 0
    <3>1. Tip(f) = Hash(f[Len(f)])  BY <2>2 DEF Tip, LinkBefore
    <3>2. Len(f) \in 1 .. Len(f)  BY <2>2
    <3> QED  BY <3>1, <3>2, <1>1
  <2> QED  BY <2>1, <2>2
<1> QED  BY <1>1, <1>2

----------------------------------------------------------------------------
(* What one write does to the file.                                        *)

\* A write adds one record, the next of what its writer remembers.
LEMMA WritesOne ==
  ASSUME FileInv, NEW p \in Procs, NEW body \in Bodies, NEW piece \in Pieces
  PROVE  /\ Written(p, body, piece) \in Seq(Piece)
         /\ Len(Written(p, body, piece)) = Len(file) + 1
         /\ \A i \in 1 .. Len(file) : Written(p, body, piece)[i] = file[i]
         /\ \A i \in 1 .. Len(file) + 1 :
              LinkBefore(Written(p, body, piece), i) = LinkBefore(file, i)
         /\ Written(p, body, piece)[Len(file) + 1].piece = piece
         /\ Written(p, body, piece)[Len(file) + 1].seq = Len(prev[p])
         /\ Written(p, body, piece)[Len(file) + 1].prev = prev[p]
         /\ Hash(Written(p, body, piece)[Len(file) + 1]) = Append(prev[p], body)
         /\ Tip(Written(p, body, piece)) = Append(prev[p], body)
<1> DEFINE r == [seq |-> Len(prev[p]), prev |-> prev[p], body |-> body,
                 piece |-> piece]
<1>1. prev[p] \in Seq(Bodies) /\ file \in Seq(Piece)
  BY DEF FileInv, FileTypeOK
<1>2. r \in Piece  BY <1>1 DEF Piece
<1>3. Hash(r) = Append(prev[p], body)  BY DEF Hash
<1>4. Written(p, body, piece) = Append(file, r)  BY DEF Written
<1>5. r.piece = piece /\ r.seq = Len(prev[p]) /\ r.prev = prev[p]  OBVIOUS
<1> HIDE DEF r
<1> QED  BY <1>1, <1>2, <1>3, <1>4, <1>5, LinksStay

\* And one name to the list of who wrote.
LEMMA OneMoreWriter ==
  ASSUME FileInv, NEW p \in Procs
  PROVE  /\ Append(writers, p) \in Seq(Procs)
         /\ Len(Append(writers, p)) = Len(file) + 1
         /\ \A j \in 1 .. Len(file) : Append(writers, p)[j] = writers[j]
         /\ Append(writers, p)[Len(file) + 1] = p
<1>1. writers \in Seq(Procs) /\ Len(writers) = Len(file)
  BY DEF FileInv, FileTypeOK
<1> QED  BY <1>1

\* The file is a chain after a write exactly if it was one and the writer had
\* read all of it; and if it was one, a writer that had not had missed its
\* last record, another's.
LEMMA ChainAfterWrite ==
  ASSUME FileInv, NEW p \in Procs, MayAppend(p),
         NEW body \in Bodies, NEW piece \in Pieces
  PROVE  /\ Chained(Written(p, body, piece)) <=>
              Chained(file) /\ Len(prev[p]) = Len(file)
         /\ Chained(file) /\ Len(prev[p]) = Len(file) => prev[p] = Tip(file)
         /\ Chained(file) /\ Len(prev[p]) # Len(file) =>
              /\ Len(file) \in 1 .. Len(file)
              /\ Len(file) > Len(prev[p])
              /\ writers[Len(file)] # p
<1>1. PICK f : f = Written(p, body, piece)  OBVIOUS
<1>2. /\ f \in Seq(Piece) /\ Len(f) = Len(file) + 1
      /\ \A i \in 1 .. Len(file) : f[i] = file[i]
      /\ \A i \in 1 .. Len(file) + 1 : LinkBefore(f, i) = LinkBefore(file, i)
      /\ f[Len(file) + 1].seq = Len(prev[p])
      /\ f[Len(file) + 1].prev = prev[p]
  BY <1>1, WritesOne
<1>3. /\ file \in Seq(Piece) /\ Len(file) \in Nat
      /\ prev[p] \in Seq(Bodies) /\ Len(prev[p]) \in Nat
  BY DEF FileInv, FileTypeOK
<1>4. /\ \A i \in 1 .. Len(file) : file[i].seq = Len(file[i].prev)
      /\ status[p] = "loaded" /\ p \in Appenders /\ InStepWithLog(p)
  BY DEF FileInv, MayAppend
<1>5. ASSUME Chained(file)
      PROVE  /\ Len(prev[p]) <= Len(file)
             /\ Len(prev[p]) = Len(file) => prev[p] = Tip(file)
             /\ \A j \in 1 .. Len(file) : j > Len(prev[p]) => writers[j] # p
  <2>1. /\ prev[p] = SubSeq(Tip(file), 1, Len(prev[p]))
        /\ \A j \in 1 .. Len(file) : j > Len(prev[p]) => writers[j] # p
    BY <1>4, <1>5 DEF FileInv, ChainHolds, MemoryIsOfTheFile
  <2>2. Len(prev[p]) <= Len(file)  BY <1>4, <1>5 DEF FileInv, ChainHolds
  <2>3. Tip(file) \in Seq(Bodies)  BY <1>3, LinksAreHistories DEF Tip
  <2>4. Len(Tip(file)) = Len(file)  BY <1>3, <1>4, <1>5, LinksCount
  <2>5. Len(prev[p]) = Len(file) => prev[p] = Tip(file)
    BY <2>1, <2>3, <2>4, WholeIsBeginning
  <2> QED  BY <2>1, <2>2, <2>5
<1>6. ASSUME Chained(f) PROVE Chained(file) /\ Len(prev[p]) = Len(file)
  <2>1. \A i \in 1 .. Len(f) : f[i].seq = i - 1 /\ f[i].prev = LinkBefore(f, i)
    BY <1>6 DEF Chained
  <2>2. ASSUME NEW i \in 1 .. Len(file)
        PROVE  file[i].seq = i - 1 /\ file[i].prev = LinkBefore(file, i)
    <3>1. i \in 1 .. Len(f) /\ i \in 1 .. Len(file) + 1  BY <1>2, <1>3
    <3> QED  BY <1>2, <2>1, <3>1
  <2>3. Len(file) + 1 \in 1 .. Len(f)  BY <1>2, <1>3
  <2>4. Len(prev[p]) = (Len(file) + 1) - 1  BY <1>2, <2>1, <2>3
  <2> QED  BY <1>3, <2>2, <2>4 DEF Chained
<1>7. ASSUME Chained(file), Len(prev[p]) = Len(file) PROVE Chained(f)
  <2>1. prev[p] = Tip(file)  BY <1>5, <1>7
  <2>2. SUFFICES ASSUME NEW i \in 1 .. Len(f)
                 PROVE  f[i].seq = i - 1 /\ f[i].prev = LinkBefore(f, i)
    BY DEF Chained
  <2>3. i \in 1 .. Len(file) + 1  BY <1>2
  <2>4. CASE i \in 1 .. Len(file)
    BY <1>2, <1>7, <2>3, <2>4 DEF Chained
  <2>5. CASE i = Len(file) + 1
    <3>1. LinkBefore(f, i) = Tip(file)  BY <1>2, <2>3, <2>5 DEF Tip
    <3>2. f[i].seq = i - 1  BY <1>2, <1>3, <1>7, <2>5
    <3> QED  BY <1>2, <2>1, <2>5, <3>1, <3>2
  <2> QED  BY <1>3, <2>3, <2>4, <2>5
<1>8. ASSUME Chained(file), Len(prev[p]) # Len(file)
      PROVE  /\ Len(file) \in 1 .. Len(file)
             /\ Len(file) > Len(prev[p])
             /\ writers[Len(file)] # p
  <2>1. Len(prev[p]) < Len(file)  BY <1>3, <1>5, <1>8
  <2>2. Len(file) \in 1 .. Len(file)  BY <1>3, <2>1
  <2> QED  BY <1>5, <1>8, <2>1, <2>2
<1> QED  BY <1>1, <1>5, <1>6, <1>7, <1>8

\* Whatever piece a write leaves, what the file and those who wrote it say
\* together stays true.
LEMMA WriteKeepsFile ==
  ASSUME FileInv, NEW p \in Procs, MayAppend(p),
         NEW body \in Bodies, NEW piece \in Pieces,
         file' = Written(p, body, piece), writers' = Append(writers, p)
  PROVE  /\ file' \in Seq(Piece) /\ writers' \in Seq(Procs)
         /\ Len(file') = Len(file) + 1 /\ Len(writers') = Len(file')
         /\ \A i \in 1 .. Len(file') : file'[i].seq = Len(file'[i].prev)
         /\ ChainTellsWhoMissed'
<1>1. /\ file' \in Seq(Piece) /\ Len(file') = Len(file) + 1
      /\ \A i \in 1 .. Len(file) : file'[i] = file[i]
      /\ file'[Len(file) + 1].seq = Len(prev[p])
      /\ file'[Len(file) + 1].prev = prev[p]
  BY WritesOne
<1>2. /\ writers' \in Seq(Procs) /\ Len(writers') = Len(file) + 1
      /\ \A j \in 1 .. Len(file) : writers'[j] = writers[j]
      /\ writers'[Len(file) + 1] = p
  BY OneMoreWriter
<1>3. file \in Seq(Piece) /\ Len(file) \in Nat /\ Len(prev[p]) \in Nat
  BY DEF FileInv, FileTypeOK
<1>4. \A i \in 1 .. Len(file') : file'[i].seq = Len(file'[i].prev)
  <2>1. \A i \in 1 .. Len(file) : file[i].seq = Len(file[i].prev)
    BY DEF FileInv
  <2>2. \A i \in 1 .. Len(file') : i \in 1 .. Len(file) \/ i = Len(file) + 1
    BY <1>1, <1>3
  <2> QED  BY <1>1, <2>1, <2>2
<1>5. /\ Chained(file') <=> Chained(file) /\ Len(prev[p]) = Len(file)
      /\ Chained(file) /\ Len(prev[p]) # Len(file) =>
           /\ Len(file) \in 1 .. Len(file)
           /\ Len(file) > Len(prev[p])
           /\ writers[Len(file)] # p
  BY ChainAfterWrite
<1>6. ASSUME Chained(file'), NEW i \in 1 .. Len(file'), WrittenOver(i)'
      PROVE  FALSE
  <2>1. file'[i].seq = i - 1  BY <1>6 DEF Chained
  <2>2. PICK j \in 1 .. i - 1 : j > file'[i].seq  BY <1>6 DEF WrittenOver
  <2> QED  BY <1>1, <1>3, <2>1, <2>2
<1>7. ASSUME ~Chained(file'), Chained(file)
      PROVE  \E i \in 1 .. Len(file') : WrittenOver(i)'
  <2>1. /\ Len(file) \in 1 .. Len(file) /\ Len(file) > Len(prev[p])
        /\ writers[Len(file)] # p
    BY <1>5, <1>7
  <2>2. PICK n : n = Len(file) + 1  OBVIOUS
  <2>3. Len(file) \in 1 .. n - 1 /\ n \in 1 .. Len(file')
    BY <1>1, <1>3, <2>1, <2>2
  <2>4. Len(file) > file'[n].seq /\ writers'[Len(file)] # writers'[n]
    BY <1>1, <1>2, <2>1, <2>2
  <2>5. \E j \in 1 .. n - 1 : j > file'[n].seq /\ writers'[j] # writers'[n]
    BY <2>3, <2>4
  <2>6. WrittenOver(n)'  BY <2>5 DEF WrittenOver
  <2> QED  BY <2>3, <2>6
<1>8. ASSUME ~Chained(file) PROVE \E i \in 1 .. Len(file') : WrittenOver(i)'
  <2>1. PICK i \in 1 .. Len(file) : WrittenOver(i)
    BY <1>8 DEF FileInv, ChainTellsWhoMissed, ChainHolds
  <2>2. PICK j \in 1 .. i - 1 : j > file[i].seq /\ writers[j] # writers[i]
    BY <2>1 DEF WrittenOver
  <2>3. j \in 1 .. Len(file) /\ i \in 1 .. Len(file')
    BY <1>1, <1>3, <2>2
  <2>4. j > file'[i].seq /\ writers'[j] # writers'[i]
    BY <1>1, <1>2, <2>2, <2>3
  <2>5. WrittenOver(i)'  BY <2>2, <2>4 DEF WrittenOver
  <2> QED  BY <2>3, <2>5
<1>9. Chained(file') => \A i \in 1 .. Len(file') : ~WrittenOver(i)'
  BY <1>6
<1>10. ~Chained(file') => \E i \in 1 .. Len(file') : WrittenOver(i)'
  BY <1>7, <1>8
<1>11. ChainTellsWhoMissed'
  BY <1>9, <1>10 DEF ChainTellsWhoMissed, ChainHolds, WrittenOver
<1> QED  BY <1>1, <1>2, <1>4, <1>11

\* What has returned stays where it is.
LEMMA WriteKeepsReturned ==
  ASSUME FileInv, NEW p \in Procs, MayAppend(p),
         NEW body \in Bodies, NEW piece \in Pieces,
         file' = Written(p, body, piece), writers' = Append(writers, p)
  PROVE  \A e \in returned : \E i \in 1 .. Len(file') :
           /\ writers'[i] = e[1]
           /\ Hash(file'[i]) = e[2]
           /\ file'[i].piece = "line"
           /\ ChainHolds' => i = Len(e[2])
<1>1. Len(file') = Len(file) + 1 /\ \A i \in 1 .. Len(file) : file'[i] = file[i]
  BY WritesOne
<1>2. \A j \in 1 .. Len(file) : writers'[j] = writers[j]
  BY OneMoreWriter
<1>3. ChainHolds' => ChainHolds  BY ChainAfterWrite DEF ChainHolds
<1>4. SUFFICES ASSUME NEW e \in returned
               PROVE  \E i \in 1 .. Len(file') :
                        /\ writers'[i] = e[1]
                        /\ Hash(file'[i]) = e[2]
                        /\ file'[i].piece = "line"
                        /\ ChainHolds' => i = Len(e[2])
  OBVIOUS
<1>5. PICK i \in 1 .. Len(file) :
        /\ writers[i] = e[1]
        /\ Hash(file[i]) = e[2]
        /\ file[i].piece = "line"
        /\ ChainHolds => i = Len(e[2])
  BY DEF FileInv, ReturnedStay
<1>6. Len(file) \in Nat  BY DEF FileInv, FileTypeOK
<1>7. i \in 1 .. Len(file')  BY <1>1, <1>6
<1> QED  BY <1>1, <1>2, <1>3, <1>5, <1>7

\* While the chain holds after a write, what the others remember is a beginning
\* of the longer file, and what they miss is not their own.
LEMMA WriteKeepsMemories ==
  ASSUME FileInv, NEW p \in Procs, MayAppend(p),
         NEW body \in Bodies, NEW piece \in Pieces,
         file' = Written(p, body, piece), writers' = Append(writers, p),
         ChainHolds', NEW q \in Procs, status[q] = "loaded"
  PROVE  /\ prev[q] = SubSeq(Tip(file'), 1, Len(prev[q]))
         /\ Len(prev[q]) <= Len(file')
         /\ q \in Appenders /\ InStepWithLog(q) /\ q # p =>
              \A j \in 1 .. Len(file') : j > Len(prev[q]) => writers'[j] # q
<1>1. Len(file') = Len(file) + 1 /\ Tip(file') = Append(prev[p], body)
  BY WritesOne
<1>2. /\ \A j \in 1 .. Len(file) : writers'[j] = writers[j]
      /\ writers'[Len(file) + 1] = p
  BY OneMoreWriter
<1>3. Chained(file) /\ prev[p] = Tip(file) /\ Len(prev[p]) = Len(file)
  BY ChainAfterWrite DEF ChainHolds
<1>4. /\ prev[q] = SubSeq(Tip(file), 1, Len(prev[q]))
      /\ Len(prev[q]) <= Len(file)
      /\ q \in Appenders /\ InStepWithLog(q) =>
           \A j \in 1 .. Len(file) : j > Len(prev[q]) => writers[j] # q
  BY <1>3 DEF FileInv, ChainHolds, MemoryIsOfTheFile
<1>5. /\ prev[p] \in Seq(Bodies) /\ prev[q] \in Seq(Bodies) /\ Len(file) \in Nat
      /\ Len(prev[q]) \in Nat
  BY DEF FileInv, FileTypeOK
<1>6. Len(prev[q]) \in 0 .. Len(prev[p])  BY <1>3, <1>4, <1>5
<1>7. prev[q] = SubSeq(Tip(file'), 1, Len(prev[q]))
  BY <1>1, <1>3, <1>4, <1>5, <1>6, BeginningsStay
<1>8. ASSUME NEW j \in 1 .. Len(file'), q \in Appenders, InStepWithLog(q),
             q # p, j > Len(prev[q])
      PROVE  writers'[j] # q
  <2>1. CASE j \in 1 .. Len(file)  BY <1>2, <1>4, <1>8, <2>1
  <2>2. CASE j = Len(file) + 1  BY <1>2, <1>8, <2>2
  <2>3. j \in 1 .. Len(file) \/ j = Len(file) + 1  BY <1>1, <1>5
  <2> QED  BY <2>1, <2>2, <2>3
<1>9. Len(prev[q]) <= Len(file')  BY <1>1, <1>4, <1>5
<1> QED  BY <1>7, <1>8, <1>9

----------------------------------------------------------------------------
(* One lemma for each kind of step.                                        *)

\* A process that starts, exits or is refused changes no record and no memory.
LEMMA StatusKeeps ==
  ASSUME FileInv, NEW p \in Procs,
         NEW what \in {"down", "up"}, Become(p, what),
         UNCHANGED <<file, prev, folded, writers, returned, faults>>
  PROVE  FileInv'
<1>1. /\ status' \in [Procs -> {"down", "up", "loaded"}]
      /\ \A q \in Procs : status'[q] = "loaded" => status[q] = "loaded"
  BY DEF FileInv, FileTypeOK, Become
<1>2. FileTypeOK'  BY <1>1 DEF FileInv, FileTypeOK
<1>3. /\ ChainHolds' = ChainHolds /\ Tip(file)' = Tip(file)
      /\ ChainTellsWhoMissed' /\ ReturnedStay'
  BY DEF FileInv, ChainHolds, ChainTellsWhoMissed, WrittenOver, ReturnedStay
<1>4. MemoryIsOfTheFile'
  BY <1>1, <1>3 DEF FileInv, MemoryIsOfTheFile, InStepWithLog
<1>5. \A q \in Procs : status'[q] = "loaded" =>
        /\ ChainHolds' => Len(prev'[q]) <= Len(file')
        /\ folded'[q] >= Len(prev'[q])
  BY <1>1, <1>3 DEF FileInv
<1>6. Len(writers') = Len(file')
      /\ \A i \in 1 .. Len(file') : file'[i].seq = Len(file'[i].prev)
  BY DEF FileInv
<1> QED  BY <1>2, <1>3, <1>4, <1>5, <1>6 DEF FileInv

\* A process that has read the file remembers all of it.
LEMMA LoadKeeps ==
  ASSUME FileInv, NEW p \in Procs, Load(p)
  PROVE  FileInv'
<1>1. /\ file \in Seq(Piece) /\ Tip(file) \in Seq(Bodies) /\ Len(file) \in Nat
      /\ Len(Tip(file)) = Len(file)
  BY LinksAreHistories, LinksCount DEF FileInv, FileTypeOK, Tip, Load, Loads
<1>2. FileTypeOK'
  BY <1>1 DEF FileInv, FileTypeOK, Load, Become
<1>3. /\ ChainHolds' = ChainHolds /\ Tip(file)' = Tip(file)
      /\ ChainTellsWhoMissed' /\ ReturnedStay'
      /\ file' = file /\ writers' = writers
  BY DEF FileInv, ChainHolds, ChainTellsWhoMissed, WrittenOver, ReturnedStay, Load
<1>4. prev'[p] = Tip(file) /\ folded'[p] = Len(file)
  BY DEF FileInv, FileTypeOK, Load
<1>5. \A q \in Procs \ {p} :
        status'[q] = status[q] /\ prev'[q] = prev[q] /\ folded'[q] = folded[q]
  BY DEF FileInv, FileTypeOK, Load, Become
<1>6. MemoryIsOfTheFile'
  <2>1. SUFFICES ASSUME ChainHolds, NEW q \in Procs, status'[q] = "loaded"
                 PROVE  /\ prev'[q] = SubSeq(Tip(file), 1, Len(prev'[q]))
                        /\ q \in Appenders /\ InStepWithLog(q)' =>
                             \A j \in 1 .. Len(file) :
                               j > Len(prev'[q]) => writers[j] # q
    BY <1>3 DEF MemoryIsOfTheFile
  <2>2. CASE q = p  BY <2>2, <1>1, <1>4, WholeIsBeginning
  <2>3. CASE q # p
    BY <2>1, <2>3, <1>5 DEF FileInv, MemoryIsOfTheFile, InStepWithLog
  <2> QED  BY <2>2, <2>3
<1>7. \A q \in Procs : status'[q] = "loaded" =>
        /\ ChainHolds' => Len(prev'[q]) <= Len(file')
        /\ folded'[q] >= Len(prev'[q])
  BY <1>1, <1>3, <1>4, <1>5 DEF FileInv
<1>8. Len(writers') = Len(file')
      /\ \A i \in 1 .. Len(file') : file'[i].seq = Len(file'[i].prev)
  BY <1>3 DEF FileInv
<1> QED  BY <1>2, <1>3, <1>6, <1>7, <1>8 DEF FileInv

\* An append that returns leaves the writer at the end of what it wrote.
LEMMA AppendKeeps ==
  ASSUME FileInv, NEW p \in Procs, NEW body \in Bodies, Appends(p, body)
  PROVE  FileInv'
<1>1. /\ MayAppend(p) /\ "line" \in Pieces
      /\ file' = Written(p, body, "line") /\ writers' = Append(writers, p)
  BY DEF Appends, Pieces
<1>2. /\ file' \in Seq(Piece) /\ writers' \in Seq(Procs)
      /\ Len(file') = Len(file) + 1 /\ Len(writers') = Len(file')
      /\ \A i \in 1 .. Len(file') : file'[i].seq = Len(file'[i].prev)
      /\ ChainTellsWhoMissed'
  BY <1>1, WriteKeepsFile
<1>3. /\ file'[Len(file) + 1].piece = "line"
      /\ Hash(file'[Len(file) + 1]) = Append(prev[p], body)
      /\ Tip(file') = Append(prev[p], body)
  BY <1>1, WritesOne
<1>4. /\ Len(file) \in Nat /\ prev[p] \in Seq(Bodies) /\ Len(prev[p]) \in Nat
      /\ folded[p] = Len(prev[p])
  BY <1>1 DEF FileInv, FileTypeOK, MayAppend, InStepWithLog
<1>5. /\ Append(prev[p], body) \in Seq(Bodies)
      /\ Len(Append(prev[p], body)) = Len(prev[p]) + 1
  BY <1>4
<1>6. prev'[p] = Append(prev[p], body) /\ folded'[p] = Len(prev[p]) + 1
  BY <1>4 DEF FileInv, FileTypeOK, Appends
<1>7. /\ \A q \in Procs \ {p} : prev'[q] = prev[q] /\ folded'[q] = folded[q]
      /\ status' = status
  BY DEF FileInv, FileTypeOK, Appends
<1>8. ChainHolds' => Len(prev[p]) = Len(file)
  BY <1>1, ChainAfterWrite DEF ChainHolds
<1>9. FileTypeOK'
  <2>1. prev' \in [Procs -> Seq(Bodies)]
    BY <1>5 DEF FileInv, FileTypeOK, Appends
  <2>2. folded' \in [Procs -> Nat]  BY DEF FileInv, FileTypeOK, Appends
  <2>3. returned' \subseteq Procs \X Seq(Bodies)
    <3>1. returned \subseteq Procs \X Seq(Bodies)  BY DEF FileInv, FileTypeOK
    <3>2. <<p, Append(prev[p], body)>> \in Procs \X Seq(Bodies)  BY <1>5
    <3> QED  BY <3>1, <3>2 DEF Appends
  <2>4. status' = status /\ faults' = faults  BY DEF Appends
  <2> QED  BY <1>2, <2>1, <2>2, <2>3, <2>4 DEF FileInv, FileTypeOK
<1>10. ReturnedStay'
  <2>1. returned' = returned \cup {<<p, Append(prev[p], body)>>}  BY DEF Appends
  <2>2. SUFFICES ASSUME NEW e \in returned'
                 PROVE  \E i \in 1 .. Len(file') :
                          /\ writers'[i] = e[1]
                          /\ Hash(file'[i]) = e[2]
                          /\ file'[i].piece = "line"
                          /\ ChainHolds' => i = Len(e[2])
    BY DEF ReturnedStay
  <2>3. CASE e \in returned  BY <1>1, <2>3, WriteKeepsReturned
  <2>4. CASE e = <<p, Append(prev[p], body)>>
    <3>1. Len(file) + 1 \in 1 .. Len(file')  BY <1>2, <1>4
    <3>2. writers'[Len(file) + 1] = p  BY <1>1, OneMoreWriter
    <3>3. ChainHolds' => Len(file) + 1 = Len(Append(prev[p], body))
      BY <1>4, <1>5, <1>8
    <3>4. e[1] = p /\ e[2] = Append(prev[p], body)  BY <2>4
    <3> QED  BY <1>3, <3>1, <3>2, <3>3, <3>4
  <2> QED  BY <2>1, <2>3, <2>4
<1>11. ASSUME NEW q \in Procs, status'[q] = "loaded"
       PROVE  /\ folded'[q] >= Len(prev'[q])
              /\ ChainHolds' => /\ Len(prev'[q]) <= Len(file')
                                /\ prev'[q] = SubSeq(Tip(file'), 1, Len(prev'[q]))
                                /\ q \in Appenders /\ InStepWithLog(q)' =>
                                     \A j \in 1 .. Len(file') :
                                       j > Len(prev'[q]) => writers'[j] # q
  <2>1. CASE q = p
    <3>1. folded'[q] >= Len(prev'[q])  BY <1>4, <1>5, <1>6, <2>1
    <3>2. ASSUME ChainHolds'
          PROVE  Len(prev'[q]) = Len(file') /\ prev'[q] = Tip(file')
      BY <1>2, <1>3, <1>5, <1>6, <1>8, <2>1, <3>2
    <3>3. Tip(file') = SubSeq(Tip(file'), 1, Len(Tip(file')))
      BY <1>3, <1>5, WholeIsBeginning
    <3>4. Len(file') \in Nat  BY <1>2, <1>4
    <3> QED  BY <3>1, <3>2, <3>3, <3>4
  <2>2. CASE q # p
    <3>1. prev'[q] = prev[q] /\ folded'[q] = folded[q] /\ status[q] = "loaded"
      BY <1>7, <1>11, <2>2
    <3>2. InStepWithLog(q)' => InStepWithLog(q)  BY <3>1 DEF InStepWithLog
    <3>3. folded'[q] >= Len(prev'[q])  BY <3>1 DEF FileInv
    <3>4. ASSUME ChainHolds'
          PROVE  /\ prev[q] = SubSeq(Tip(file'), 1, Len(prev[q]))
                 /\ Len(prev[q]) <= Len(file')
                 /\ q \in Appenders /\ InStepWithLog(q) =>
                      \A j \in 1 .. Len(file') : j > Len(prev[q]) => writers'[j] # q
      BY <1>1, <2>2, <3>1, <3>4, WriteKeepsMemories
    <3> QED  BY <3>1, <3>2, <3>3, <3>4
  <2> QED  BY <2>1, <2>2
<1>12. MemoryIsOfTheFile'  BY <1>11 DEF MemoryIsOfTheFile, Tip
<1> QED  BY <1>2, <1>9, <1>10, <1>11, <1>12 DEF FileInv

\* After a failed write the writer, if it lives, is ahead of its log: it is
\* out of step for good, whatever the write has left.
LEMMA FailureKeeps ==
  ASSUME FileInv, NEW p \in Procs, NEW body \in Bodies, AppendFails(p, body)
  PROVE  FileInv'
<1>1. /\ MayAppend(p) /\ prev' = prev /\ returned' = returned
      /\ faults' \in Nat
  BY DEF AppendFails, FileInv, FileTypeOK
<1>2. /\ status' \in [Procs -> {"down", "up", "loaded"}]
      /\ \A q \in Procs : status'[q] = "loaded" => status[q] = "loaded"
  BY DEF FileInv, FileTypeOK, AppendFails, Become
<1>3. /\ folded' \in [Procs -> Nat]
      /\ folded'[p] = folded[p] + 1
      /\ folded[p] = Len(prev[p])
      /\ \A q \in Procs \ {p} : folded'[q] = folded[q]
  BY <1>1 DEF FileInv, FileTypeOK, AppendFails, MayAppend, InStepWithLog
<1>4. \A q \in Procs : Len(prev[q]) \in Nat /\ folded[q] \in Nat
  BY DEF FileInv, FileTypeOK
<1>5. \A q \in Procs : InStepWithLog(q)' => InStepWithLog(q) /\ q # p
  BY <1>1, <1>3, <1>4 DEF InStepWithLog
<1>6. ASSUME NEW q \in Procs, status'[q] = "loaded"
      PROVE  folded'[q] >= Len(prev'[q])
  <2>1. folded[q] >= Len(prev[q])  BY <1>2, <1>6 DEF FileInv
  <2>2. CASE q = p  BY <1>1, <1>3, <1>4, <2>1, <2>2
  <2>3. CASE q # p  BY <1>1, <1>3, <2>1, <2>3
  <2> QED  BY <2>2, <2>3
<1>7. CASE UNCHANGED <<file, writers>>
  <2>1. FileTypeOK'  BY <1>1, <1>2, <1>3, <1>7 DEF FileInv, FileTypeOK
  <2>2. /\ ChainHolds' = ChainHolds /\ Tip(file)' = Tip(file)
        /\ ChainTellsWhoMissed' /\ ReturnedStay'
    BY <1>1, <1>7
    DEF FileInv, ChainHolds, ChainTellsWhoMissed, WrittenOver, ReturnedStay
  <2>3. MemoryIsOfTheFile'
    BY <1>1, <1>2, <1>5, <1>7, <2>2 DEF FileInv, MemoryIsOfTheFile
  <2>4. \A q \in Procs : status'[q] = "loaded" /\ ChainHolds'
          => Len(prev'[q]) <= Len(file')
    BY <1>1, <1>2, <1>7, <2>2 DEF FileInv
  <2>5. Len(writers') = Len(file')
        /\ \A i \in 1 .. Len(file') : file'[i].seq = Len(file'[i].prev)
    BY <1>7 DEF FileInv
  <2> QED  BY <1>6, <2>1, <2>2, <2>3, <2>4, <2>5 DEF FileInv
<1>8. ASSUME NEW piece \in Pieces, file' = Written(p, body, piece),
             writers' = Append(writers, p)
      PROVE  FileInv'
  <2>1. /\ file' \in Seq(Piece) /\ writers' \in Seq(Procs)
        /\ Len(writers') = Len(file')
        /\ \A i \in 1 .. Len(file') : file'[i].seq = Len(file'[i].prev)
        /\ ChainTellsWhoMissed'
    BY <1>1, <1>8, WriteKeepsFile
  <2>2. FileTypeOK'
    BY <1>1, <1>2, <1>3, <2>1 DEF FileInv, FileTypeOK
  <2>3. ReturnedStay'
    BY <1>1, <1>8, WriteKeepsReturned DEF ReturnedStay
  <2>4. ASSUME ChainHolds', NEW q \in Procs, status'[q] = "loaded"
        PROVE  /\ prev[q] = SubSeq(Tip(file'), 1, Len(prev[q]))
               /\ Len(prev[q]) <= Len(file')
               /\ q \in Appenders /\ InStepWithLog(q) /\ q # p =>
                    \A j \in 1 .. Len(file') : j > Len(prev[q]) => writers'[j] # q
    BY <1>1, <1>2, <1>8, <2>4, WriteKeepsMemories
  <2>5. MemoryIsOfTheFile'
    BY <1>1, <1>2, <1>5, <2>4 DEF MemoryIsOfTheFile, Tip
  <2> QED  BY <1>1, <1>6, <2>1, <2>2, <2>3, <2>4, <2>5 DEF FileInv
<1> QED  BY <1>7, <1>8 DEF AppendFails

----------------------------------------------------------------------------
(* The invariant and what follows from it.                                 *)

LEMMA FileInitially == FileInit => FileInv
<1> SUFFICES ASSUME FileInit PROVE FileInv  OBVIOUS
<1>1. file = <<>> /\ Len(file) = 0 /\ returned = {} /\ faults = 0 /\ writers = <<>>
  BY DEF FileInit
<1>2. FileTypeOK  BY <1>1 DEF FileTypeOK, FileInit, Genesis
<1>3. ChainTellsWhoMissed /\ ReturnedStay /\ Len(writers) = Len(file)
  BY <1>1 DEF ChainTellsWhoMissed, ChainHolds, Chained, ReturnedStay
<1>4. \A p \in Procs : status[p] # "loaded"
  BY DEF FileInit
<1>5. \A i \in 1 .. Len(file) : file[i].seq = Len(file[i].prev)  BY <1>1
<1> QED  BY <1>2, <1>3, <1>4, <1>5 DEF FileInv, MemoryIsOfTheFile

LEMMA FileStep == FileInv /\ [FileNext]_fileVars => FileInv'
<1> SUFFICES ASSUME FileInv, [FileNext]_fileVars PROVE FileInv'  OBVIOUS
<1>1. ASSUME NEW p \in Procs, Start(p) PROVE FileInv'
  BY <1>1, StatusKeeps DEF Start
<1>2. ASSUME NEW p \in Procs, Load(p) PROVE FileInv'
  BY <1>2, LoadKeeps
<1>3. ASSUME NEW p \in Procs, LoadRefused(p) PROVE FileInv'
  BY <1>3, StatusKeeps DEF LoadRefused
<1>4. ASSUME NEW p \in Procs, Exit(p) PROVE FileInv'
  BY <1>4, StatusKeeps DEF Exit
<1>5. ASSUME NEW p \in Procs, NEW body \in Bodies, Appends(p, body) PROVE FileInv'
  BY <1>5, AppendKeeps
<1>6. ASSUME NEW p \in Procs, NEW body \in Bodies, AppendFails(p, body) PROVE FileInv'
  BY <1>6, FailureKeeps
<1>7. CASE UNCHANGED fileVars
  BY <1>7 DEF fileVars, FileInv, FileTypeOK, ChainHolds, Chained, Tip, LinkBefore,
              ChainTellsWhoMissed, WrittenOver, ReturnedStay, MemoryIsOfTheFile,
              InStepWithLog
<1> QED  BY <1>1, <1>2, <1>3, <1>4, <1>5, <1>6, <1>7 DEF FileNext

\* The inductive invariant of the session's file holds in every state.
THEOREM FileInvariance == FileSpec => []FileInv
<1> QED  BY FileInitially, FileStep, PTL DEF FileSpec

\* verify_chain finds a problem exactly when some process has written without
\* having read what another had: never because of a failed write, a death in
\* the middle of one or a restart.
THEOREM ChainTells == FileSpec => []ChainTellsWhoMissed
<1>1. FileInv => ChainTellsWhoMissed  BY DEF FileInv
<1> QED  BY <1>1, FileInvariance, PTL

\* An event whose append has returned is in the file and whole from then on,
\* whoever else writes, and in its place while the chain holds.
THEOREM ReturnedIsForGood == FileSpec => []ReturnedStay
<1>1. FileInv => ReturnedStay  BY DEF FileInv
<1> QED  BY <1>1, FileInvariance, PTL

\* While the chain holds no process remembers what the file does not bear out,
\* and one that may still append misses nothing but what others wrote.
THEOREM MemoryIsTrue == FileSpec => []MemoryIsOfTheFile
<1>1. FileInv => MemoryIsOfTheFile  BY DEF FileInv
<1> QED  BY <1>1, FileInvariance, PTL

\* Every record written is numbered, linked and hashed as a record.
THEOREM FileTypeCorrect == FileSpec => []FileTypeOK
<1>1. FileInv => FileTypeOK  BY DEF FileInv
<1> QED  BY <1>1, FileInvariance, PTL

\* Nothing makes a file that does not load load again: a record before a
\* write is as it was after it.
LEMMA LossStays ==
  ASSUME NEW f \in Seq(Piece), NEW g \in Seq(Piece), Len(g) = Len(f) + 1,
         \A i \in 1 .. Len(f) : g[i] = f[i],
         \A i \in 1 .. Len(f) + 1 : LinkBefore(g, i) = LinkBefore(f, i)
  PROVE  Loads(g) => Loads(f)
<1>1. \A i \in 1 .. Len(f) : i \in 1 .. Len(g) /\ i \in 1 .. Len(f) + 1 /\ i # Len(g)
  OBVIOUS
<1>2. Parses(g) => Parses(f)  BY <1>1 DEF Parses
<1>3. Chained(g) => Chained(f)  BY <1>1 DEF Chained
<1> QED  BY <1>2, <1>3 DEF Loads

\* A whole line after a file that parses: the two parse exactly if the file's
\* last line was whole.
LEMMA WholeLineParses ==
  ASSUME NEW f \in Seq(Piece), NEW g \in Seq(Piece), Len(g) = Len(f) + 1,
         \A i \in 1 .. Len(f) : g[i] = f[i], g[Len(f) + 1].piece = "line", Parses(f)
  PROVE  Parses(g) <=> EndsWhole(f)
<1>1. \A i \in 1 .. Len(f) : i \in 1 .. Len(g) /\ i # Len(g)
  OBVIOUS
<1>2. f # <<>> => Len(f) \in 1 .. Len(f)  OBVIOUS
<1>3. ASSUME NEW i \in 1 .. Len(f) PROVE f[i].piece \in Pieces
  <2>1. f[i] \in Piece  OBVIOUS
  <2> QED  BY <2>1 DEF Piece
<1>4. ASSUME Parses(g) PROVE EndsWhole(f)
  <2>1. SUFFICES ASSUME f # <<>> PROVE f[Len(f)].piece = "line"
    BY DEF EndsWhole
  <2>2. g[Len(f)].piece # "torn" /\ g[Len(f)].piece # "unended"
    BY <1>1, <1>2, <1>4, <2>1 DEF Parses
  <2> QED  BY <1>2, <1>3, <2>1, <2>2 DEF Pieces
<1>5. ASSUME EndsWhole(f), NEW i \in 1 .. Len(g) PROVE g[i].piece = "line"
  <2>1. CASE i \in 1 .. Len(f)
    <3>1. f[i].piece # "torn" /\ (f[i].piece = "unended" => i = Len(f))
      BY <2>1 DEF Parses
    <3>2. f # <<>>  BY <2>1
    <3>3. f[Len(f)].piece = "line"  BY <1>5, <3>2 DEF EndsWhole
    <3> QED  BY <1>3, <2>1, <3>1, <3>3 DEF Pieces
  <2>2. CASE i = Len(f) + 1  BY <2>2
  <2> QED  BY <2>1, <2>2
<1>6. EndsWhole(f) => Parses(g)  BY <1>5 DEF Parses
<1> QED  BY <1>4, <1>6

\* An append that returns leaves a session that loads exactly if the last line
\* was whole and its writer had missed nothing, however many processes write;
\* and a session that does not load never will.
THEOREM WhatAnAppendLeaves == FileSpec => AppendLeavesReadable
<1>1. ASSUME FileInv, NEW p \in Procs, MayAppend(p), NEW body \in Bodies,
             NEW piece \in Pieces, file' = Written(p, body, piece)
      PROVE  Loads(file') => Loads(file)
  <2>1. file \in Seq(Piece)  BY <1>1 DEF FileInv, FileTypeOK
  <2>2. /\ file' \in Seq(Piece) /\ Len(file') = Len(file) + 1
        /\ \A i \in 1 .. Len(file) : file'[i] = file[i]
        /\ \A i \in 1 .. Len(file) + 1 : LinkBefore(file', i) = LinkBefore(file, i)
    BY <1>1, WritesOne
  <2> QED  BY <2>1, <2>2, LossStays
<1>2. ASSUME FileInv, [FileNext]_fileVars, ~Loads(file) PROVE ~Loads(file')
  <2>1. CASE file' = file
    BY <1>2, <2>1 DEF Loads, Parses, Chained, LinkBefore
  <2>2. ASSUME NEW p \in Procs, NEW body \in Bodies, Appends(p, body)
        PROVE  ~Loads(file')
    BY <1>1, <1>2, <2>2 DEF Appends, Pieces
  <2>3. ASSUME NEW p \in Procs, NEW body \in Bodies, AppendFails(p, body)
        PROVE  ~Loads(file')
    BY <1>1, <1>2, <2>1, <2>3 DEF AppendFails
  <2> QED
    BY <1>2, <2>1, <2>2, <2>3
    DEF FileNext, fileVars, Start, Load, LoadRefused, Exit
<1>3. ASSUME FileInv, NEW p \in Procs, NEW body \in Bodies, Appends(p, body),
             Loads(file)
      PROVE  Loads(file') <=> EndsWhole(file) /\ Len(prev[writers'[Len(writers')]]) = Len(file)
  <2>1. /\ MayAppend(p) /\ file' = Written(p, body, "line") /\ "line" \in Pieces
        /\ writers' = Append(writers, p)
    BY <1>3 DEF Appends, Pieces
  <2>2. /\ file' \in Seq(Piece) /\ Len(file') = Len(file) + 1
        /\ \A i \in 1 .. Len(file) : file'[i] = file[i]
        /\ file'[Len(file) + 1].piece = "line"
    BY <1>3, <2>1, WritesOne
  <2>3. file \in Seq(Piece) /\ Parses(file) /\ Chained(file)
    BY <1>3 DEF FileInv, FileTypeOK, Loads
  <2>4. Parses(file') <=> EndsWhole(file)  BY <2>2, <2>3, WholeLineParses
  <2>5. Chained(file') <=> Len(prev[p]) = Len(file)
    BY <1>3, <2>1, <2>3, ChainAfterWrite
  <2>6. writers'[Len(writers')] = p
    BY <1>3, <2>1, OneMoreWriter
  <2> QED  BY <2>4, <2>5, <2>6 DEF Loads
<1>4. ASSUME FileInv, [FileNext]_fileVars, Loads(file), file' # file, faults' = faults
      PROVE  Loads(file') <=> EndsWhole(file) /\ Len(prev[writers'[Len(writers')]]) = Len(file)
  <2>1. ASSUME NEW p \in Procs, NEW body \in Bodies, AppendFails(p, body)
        PROVE  FALSE
    BY <1>4, <2>1 DEF AppendFails, FileInv, FileTypeOK
  <2>2. PICK p \in Procs, body \in Bodies : Appends(p, body)
    BY <1>4, <2>1 DEF FileNext, fileVars, Start, Load, LoadRefused, Exit
  <2> QED  BY <1>3, <1>4, <2>2
<1>5. FileInv /\ [FileNext]_fileVars =>
        [/\ Loads(file) /\ file' # file /\ faults' = faults =>
              (Loads(file') <=> /\ EndsWhole(file)
                                /\ Len(prev[writers'[Len(writers')]]) = Len(file))
         /\ ~Loads(file) => ~Loads(file')]_fileVars
  BY <1>2, <1>4
<1> QED  BY <1>5, FileInvariance, PTL DEF FileSpec, AppendLeavesReadable
=============================================================================
