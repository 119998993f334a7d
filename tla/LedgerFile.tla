----------------------------- MODULE LedgerFile -----------------------------
(***************************************************************************)
(* One session's file and the processes that open it (shell/log.py and the *)
(* Session of shell/session.py): the proxy, `gatekeeper approve`, `sweep`, *)
(* `pending`.  Each process reads the file once, checks its chain, and     *)
(* from then on appends at the sequence number and after the hash it       *)
(* remembers.  Nothing keeps two processes from appending to one session:  *)
(* the lock and the store's one Session per id are of one process.  Writes *)
(* may fail and processes may die in the middle of one.                    *)
(*                                                                         *)
(* A record's hash covers its body and the hash before it, so it stands    *)
(* for the whole history up to the record: a hash is modelled as that      *)
(* sequence of bodies, and the number of records as its length.            *)
(***************************************************************************)
EXTENDS Naturals, Sequences

CONSTANTS
  Procs,      \* processes that open the session
  Appenders,  \* those that append to it
  Bodies,     \* what an event may say
  MaxLines,   \* bound on the writes begun
  MaxFaults   \* bound on failing writes and deaths during one

ASSUME LedgerFileAssumption == Appenders \subseteq Procs

VARIABLES
  file,      \* the pieces written, in order
  prev,      \* EventLog._prev of each process: the hash of its last record
  folded,    \* the seq of the state each process has folded
  status,    \* of each process
  writers,   \* the process that wrote each piece (history)
  returned,  \* <<p, h>>: p's append() of the event with hash h returned (history)
  faults

fileVars == <<file, prev, folded, status, writers, returned, faults>>

Genesis == <<>>

\* What one write left in the file: a line; a line without its newline; less.
Pieces == {"line", "unended", "torn"}

Piece == [seq : Nat, prev : Seq(Bodies), body : Bodies, piece : Pieces]

\* A record's hash.
Hash(r) == Append(r.prev, r.body)

FileTypeOK ==
  /\ file \in Seq(Piece)
  /\ prev \in [Procs -> Seq(Bodies)]
  /\ folded \in [Procs -> Nat]
  /\ status \in [Procs -> {"down", "up", "loaded"}]
  /\ writers \in Seq(Procs)
  /\ returned \subseteq Procs \X Seq(Bodies)
  /\ faults \in Nat

----------------------------------------------------------------------------
(* Reading.                                                                *)

\* read_log(): a torn piece does not parse, nor does a line two writes share.
Parses(pieces) ==
  \A i \in 1 .. Len(pieces) :
    /\ pieces[i].piece # "torn"
    /\ pieces[i].piece = "unended" => i = Len(pieces)

\* The hash the i-th record must link to.
LinkBefore(pieces, i) == IF i = 1 THEN Genesis ELSE Hash(pieces[i - 1])

\* verify_chain() finds no problem.
Chained(pieces) ==
  \A i \in 1 .. Len(pieces) :
    /\ pieces[i].seq = i - 1
    /\ pieces[i].prev = LinkBefore(pieces, i)

Loads(pieces) == Parses(pieces) /\ Chained(pieces)

\* The hash of the last record.
Tip(pieces) == LinkBefore(pieces, Len(pieces) + 1)

----------------------------------------------------------------------------
(* Processes.                                                              *)

FileInit ==
  /\ file = <<>>
  /\ prev = [p \in Procs |-> Genesis]
  /\ folded = [p \in Procs |-> 0]
  /\ status = [p \in Procs |-> "down"]
  /\ writers = <<>>
  /\ returned = {}
  /\ faults = 0

Become(p, what) == status' = [status EXCEPT ![p] = what]

Start(p) ==
  /\ status[p] = "down"
  /\ Become(p, "up")
  /\ UNCHANGED <<file, prev, folded, writers, returned, faults>>

\* Mutant: the reload does not take up the last hash.
LoadWithoutHash(p) ==
  /\ status[p] = "up"
  /\ Loads(file)
  /\ folded' = [folded EXCEPT ![p] = Len(prev[p])]
  /\ Become(p, "loaded")
  /\ UNCHANGED <<file, prev, writers, returned, faults>>

\* The first use of the session reads the file; the object is then kept.
Load(p) ==
  /\ status[p] = "up"
  /\ Loads(file)
  /\ prev' = [prev EXCEPT ![p] = Tip(file)]
  /\ folded' = [folded EXCEPT ![p] = Len(file)]
  /\ Become(p, "loaded")
  /\ UNCHANGED <<file, writers, returned, faults>>

\* "refusing to append to a broken chain", or a line that does not parse: the
\* exception ends the process.
LoadRefused(p) ==
  /\ status[p] = "up"
  /\ ~Loads(file)
  /\ Become(p, "down")
  /\ UNCHANGED <<file, prev, folded, writers, returned, faults>>

Exit(p) ==
  /\ status[p] # "down"
  /\ Become(p, "down")
  /\ UNCHANGED <<file, prev, folded, writers, returned, faults>>

----------------------------------------------------------------------------
(* Session.append.                                                         *)

\* Mutant: the ledger does not look at the sequence.
AnyStep(p) == TRUE

\* apply() refuses an event whose seq, the number of records, is not the
\* state's: a process whose write has failed can append no more.  (Nothing looks
\* at the file again: a process that others have passed does not notice.)
InStepWithLog(p) == folded[p] = Len(prev[p])

MayAppend(p) ==
  /\ p \in Appenders
  /\ status[p] = "loaded"
  /\ InStepWithLog(p)
  /\ Len(file) < MaxLines

\* Mutant: an event is numbered by the record before it.
WrittenOneLow(p, body, piece) ==
  Append(file, [seq |-> Len(prev[p]) - 1, prev |-> prev[p], body |-> body,
                piece |-> piece])

\* seal() with the number of records and the last hash, then the write.
Written(p, body, piece) ==
  Append(file, [seq |-> Len(prev[p]), prev |-> prev[p], body |-> body,
                piece |-> piece])

\* Mutant: append returns with the line in a buffer.
AppendsInBuffer(p, body) ==
  /\ MayAppend(p)
  /\ folded' = [folded EXCEPT ![p] = @ + 1]
  /\ prev' = [prev EXCEPT ![p] = Append(@, body)]
  /\ returned' = returned \cup {<<p, Append(prev[p], body)>>}
  /\ UNCHANGED <<file, writers, status, faults>>

\* The state moves, the line is on disk, the log's memory moves, append returns.
Appends(p, body) ==
  /\ MayAppend(p)
  /\ folded' = [folded EXCEPT ![p] = @ + 1]
  /\ file' = Written(p, body, "line")
  /\ writers' = Append(writers, p)
  /\ prev' = [prev EXCEPT ![p] = Append(@, body)]
  /\ returned' = returned \cup {<<p, Append(prev[p], body)>>}
  /\ UNCHANGED <<status, faults>>

\* The write stops somewhere in the line: the process goes on, its state one
\* event ahead of its log, or dies.
AppendFails(p, body) ==
  /\ faults < MaxFaults
  /\ MayAppend(p)
  /\ faults' = faults + 1
  /\ folded' = [folded EXCEPT ![p] = @ + 1]
  /\ \/ UNCHANGED <<file, writers>>
     \/ /\ \E piece \in Pieces : file' = Written(p, body, piece)
        /\ writers' = Append(writers, p)
  /\ UNCHANGED status \/ Become(p, "down")
  /\ UNCHANGED <<prev, returned>>

FileNext ==
  \E p \in Procs :
    \/ Start(p) \/ Load(p) \/ LoadRefused(p) \/ Exit(p)
    \/ \E body \in Bodies : Appends(p, body) \/ AppendFails(p, body)

FileSpec == FileInit /\ [][FileNext]_fileVars

----------------------------------------------------------------------------
\* The i-th record was written by a process that had not read all of those
\* before it, and what it had not read was another's.
WrittenOver(i) ==
  \E j \in 1 .. i - 1 : j > file[i].seq /\ writers[j] # writers[i]

\* verify_chain() finds every record in its place: the file is one chain.
ChainHolds == Chained(file)

\* The chain breaks when, and only when, a process has appended without having
\* read what another wrote: neither failed writes, nor deaths, nor restarts
\* break it, and no event decided on a state that misses another's goes unseen
\* by verify_chain.
ChainTellsWhoMissed ==
  ChainHolds <=> \A i \in 1 .. Len(file) : ~WrittenOver(i)

\* An event whose append returned is in the file, whole, for good, whoever else
\* writes, fails or dies; and at its place for as long as the chain holds.
ReturnedStay ==
  \A e \in returned : \E i \in 1 .. Len(file) :
    /\ writers[i] = e[1]
    /\ Hash(file[i]) = e[2]
    /\ file[i].piece = "line"
    /\ ChainHolds => i = Len(e[2])

\* While the chain holds, what a process has loaded is a beginning of what the
\* file says; and for one that may still append, what is missing is others'
\* writing since it loaded, never a record of its own (of this life or an
\* earlier one).
MemoryIsOfTheFile ==
  ChainHolds => \A p \in Procs : status[p] = "loaded" =>
    /\ prev[p] = SubSeq(Tip(file), 1, Len(prev[p]))
    /\ p \in Appenders /\ InStepWithLog(p) =>
         \A j \in 1 .. Len(file) : j > Len(prev[p]) => writers[j] # p

\* What keeps them together: every piece has its writer, and the length of its
\* history for its number; while the chain holds a process remembers no more
\* records than there are; and its state is at its log's end, or ahead of it
\* for good after a failed write.
FileInv ==
  /\ FileTypeOK
  /\ Len(writers) = Len(file)
  /\ \A i \in 1 .. Len(file) : file[i].seq = Len(file[i].prev)
  /\ ChainTellsWhoMissed
  /\ ReturnedStay
  /\ MemoryIsOfTheFile
  /\ \A p \in Procs : status[p] = "loaded" =>
       /\ ChainHolds => Len(prev[p]) <= Len(file)
       /\ folded[p] >= Len(prev[p])

\* The last line has its newline.
EndsWhole(pieces) ==
  pieces # <<>> => pieces[Len(pieces)].piece = "line"

\* What an append that returns makes of a session that loads: it loads again
\* exactly if the last line was whole and the writer had read all of the file.
\* (After a line that lost only its newline, as after another's record it did
\* not read, append() returns and the session never loads again.)  And a
\* session that does not load never will: no step repairs it.
AppendLeavesReadable ==
  [][/\ Loads(file) /\ file' # file /\ faults' = faults =>
          (Loads(file') <=> /\ EndsWhole(file)
                            /\ Len(prev[writers'[Len(writers')]]) = Len(file))
     /\ ~Loads(file) => ~Loads(file')]_fileVars
=============================================================================
