----------------------------- MODULE ProxyProofs -----------------------------
(***************************************************************************)
(* The proxy of module Proxy, for any ids, any number of lines and any     *)
(* server: what a reservation outlives, and whose answer a call gets.      *)
(***************************************************************************)
EXTENDS Proxy, TLAPS

(* Reservations and lines.                                                 *)

\* Nothing is open while the proxy reads, and what is open while it waits is
\* of the call it waits for.
LEMMA OpenOfTheCall ==
  ASSUME OpenOnlyInCall
  PROVE  /\ pc = "read" => open = {}
         /\ pc = "wait" => open \subseteq {awaited.line}
         /\ pc = "wait" /\ ~awaited.call => open = {}
BY DEF OpenOnlyInCall

\* What a line read may do to the rest of the state, case by case.
LEMMA ReadsInOneOfFive ==
  ASSUME LinesInv, Reads
  PROVE  /\ open = {} /\ lines' = lines + 1 /\ pc = "read"
         /\ UNCHANGED server
         /\ \/ ReadRefused \/ ReadRaises \/ ReadNotification \/ CallAllowed
            \/ \E id \in Ids \cup {Nothing} : ReadRequest(id)
BY OpenOfTheCall DEF LinesInv, Reads

\* A request sent is typed, and is of the line read.
LEMMA AsksKeeps ==
  ASSUME ProxyTypeOK, NEW id \in Nat, NEW call \in BOOLEAN,
         lines' = lines + 1, Asks(id, call)
  PROVE  /\ pc' \in {"wait", "stopped"}
         /\ awaited' \in Request /\ asked' \subseteq Request
         /\ pc' = "wait" => /\ awaited'.line = lines' /\ awaited'.id = id
                            /\ awaited'.call = call /\ ~closed
         /\ pc' = "stopped" => awaited' = awaited /\ closed
         /\ \A x \in asked' : x \in asked \/ (x.id = id /\ x.line = lines')
<1> DEFINE request == [id |-> id, line |-> lines', call |-> call]
<1>1. lines' \in Nat  BY DEF ProxyTypeOK
<1>2. request \in Request  BY <1>1 DEF Request
<1>3. request.line = lines' /\ request.id = id /\ request.call = call  OBVIOUS
<1>4. IF closed THEN pc' = "stopped" /\ UNCHANGED <<awaited, asked>>
      ELSE pc' = "wait" /\ awaited' = request /\ asked' = asked \cup {request}
  BY DEF Asks
<1> HIDE DEF request
<1>5. CASE closed
  <2>1. pc' = "stopped" /\ awaited' = awaited /\ asked' = asked  BY <1>4, <1>5
  <2>2. awaited \in Request /\ asked \subseteq Request  BY DEF ProxyTypeOK
  <2>3. pc' \in {"wait", "stopped"} /\ pc' # "wait"  BY <2>1
  <2>4. awaited' \in Request /\ asked' \subseteq Request
    BY <2>1, <2>2
  <2>5. \A x \in asked' : x \in asked  BY <2>1
  <2> QED  BY <1>5, <2>1, <2>3, <2>4, <2>5, Zenon
<1>6. CASE ~closed
  <2>1. pc' = "wait" /\ awaited' = request /\ asked' = asked \cup {request}
    BY <1>4, <1>6
  <2>2. asked' \subseteq Request  BY <1>2, <2>1 DEF ProxyTypeOK
  <2>3. \A x \in asked' : x \in asked \/ x = request  BY <2>1
  <2>4. pc' \in {"wait", "stopped"} /\ pc' # "stopped"  BY <2>1
  <2>5. awaited' = request /\ awaited' \in Request  BY <1>2, <2>1
  <2> QED  BY <1>3, <2>5, <1>6, <2>1, <2>2, <2>3, <2>4, Zenon
<1> QED  BY <1>5, <1>6

\* A settlement is of the line it is made for, and typed.
LEMMA SettlesOne ==
  ASSUME ProxyTypeOK, NEW line \in Nat, NEW kind \in Answers \cup {"own"},
         Settles(line, kind)
  PROVE  /\ open' = open \ {line}
         /\ settled' \subseteq [line : Nat, outcome : {"committed", "released"}]
         /\ \A s \in settled' : s \in settled \/ s.line = line
         /\ kind = "error" => Committed' = Committed
         /\ Committed' \subseteq Committed \cup {line}
<1> DEFINE s == [line |-> line,
                 outcome |-> IF kind = "error" THEN "released" ELSE "committed"]
<1>1. open' = open \ {line} /\ settled' = settled \cup {s}
  BY DEF Settles
<1>2. s \in [line : Nat, outcome : {"committed", "released"}]
  OBVIOUS
<1>3. s.line = line /\ (kind = "error" => s.outcome = "released")
  OBVIOUS
<1> HIDE DEF s
<1>4. Committed' = {x.line : x \in {y \in settled \cup {s} : y.outcome = "committed"}}
  BY <1>1 DEF Committed
<1>5. kind = "error" => Committed' = Committed
  BY <1>3, <1>4 DEF Committed
<1>6. Committed' \subseteq Committed \cup {line}
  BY <1>3, <1>4 DEF Committed
<1> QED  BY <1>1, <1>2, <1>3, <1>5, <1>6 DEF ProxyTypeOK

\* What the client is sent is added at the end.
LEMMA SendsOne ==
  ASSUME ProxyTypeOK, NEW line \in Nat, NEW from \in Nat,
         NEW kind \in Answers \cup {"own", "refusal", "parse_error"},
         Sends(line, from, kind)
  PROVE  /\ out' \in Seq([line : Nat, from : Nat,
                          kind : Answers \cup {"own", "refusal", "parse_error"}])
         /\ Len(out') = Len(out) + 1
         /\ \A i \in 1 .. Len(out) : out'[i] = out[i]
         /\ out'[Len(out')].line = line /\ out'[Len(out')].from = from
         /\ \A i \in 1 .. Len(out') : i \in 1 .. Len(out) \/ i = Len(out')
<1> DEFINE R == [line : Nat, from : Nat,
                 kind : Answers \cup {"own", "refusal", "parse_error"}]
           r == [line |-> line, from |-> from, kind |-> kind]
<1>1. out \in Seq(R) /\ out' = Append(out, r)
  BY DEF ProxyTypeOK, Sends
<1>2. r \in R  OBVIOUS
<1>3. r.line = line /\ r.from = from  OBVIOUS
<1> HIDE DEF R, r
<1>4. /\ out' \in Seq(R)
      /\ Len(out') = Len(out) + 1 /\ Len(out) \in Nat
      /\ \A i \in 1 .. Len(out) : out'[i] = out[i]
      /\ out'[Len(out) + 1] = r
  BY <1>1, <1>2
<1> QED  BY <1>3, <1>4 DEF R

\* Lines are numbers, in what the client has been sent and what is settled.
LEMMA LinesTyped ==
  ASSUME ProxyTypeOK
  PROVE  /\ \A i \in 1 .. Len(out) : out[i].line \in Nat
         /\ \A s \in settled : s.line \in Nat
<1> DEFINE R == [line : Nat, from : Nat,
                 kind : Answers \cup {"own", "refusal", "parse_error"}]
<1>1. out \in Seq(R)  BY DEF ProxyTypeOK
<1>2. \A r \in R : r.line \in Nat  OBVIOUS
<1> HIDE DEF R
<1>3. \A i \in 1 .. Len(out) : out[i].line \in Nat  BY <1>1, <1>2
<1>4. \A s \in settled : s.line \in Nat  BY DEF ProxyTypeOK
<1> QED  BY <1>3, <1>4

\* The message at the head is a message, and the rest are messages.
LEMMA HeadIsMessage ==
  ASSUME ProxyTypeOK, incoming # <<>>, incoming' = Tail(incoming)
  PROVE  /\ Head(incoming) \in Message
         /\ Head(incoming) = incoming[1] /\ 1 \in 1 .. Len(incoming)
         /\ incoming' \in Seq(Message)
         /\ \A i \in 1 .. Len(incoming') :
              i + 1 \in 1 .. Len(incoming) /\ incoming'[i] = incoming[i + 1]
BY DEF ProxyTypeOK

\* A message of the server is typed, is added behind the others, and answers
\* a request or carries an id of the server's own.
LEMMA ServerSends ==
  ASSUME ProxyTypeOK,
         Server(Answering \/ Close \/ Speaks)
  PROVE  /\ UNCHANGED <<pc, lines, awaited, nextId, out, spend>>
         /\ asked' \subseteq asked
         /\ closed' \in BOOLEAN /\ own' \in Nat
         /\ incoming' \in Seq(Message)
         /\ \A i \in 1 .. Len(incoming') :
              \/ i \in 1 .. Len(incoming) /\ incoming'[i] = incoming[i]
              \/ \E x \in asked : incoming'[i].id = x.id /\ incoming'[i].line = x.line
              \/ incoming'[i].id \in Ids \cup {Nothing}
<1>1. UNCHANGED <<pc, lines, awaited, nextId, out, spend>>
  BY DEF Server
<1>2. incoming \in Seq(Message) /\ asked \subseteq Request /\ own \in Nat
  BY DEF ProxyTypeOK
<1>3. ASSUME NEW m \in Message, incoming' = Append(incoming, m)
      PROVE  /\ incoming' \in Seq(Message)
             /\ \A i \in 1 .. Len(incoming') :
                  \/ i \in 1 .. Len(incoming) /\ incoming'[i] = incoming[i]
                  \/ incoming'[i] = m
  BY <1>2, <1>3
<1>4. ASSUME NEW x \in asked, NEW kind \in Answers, Answer(x, kind)
      PROVE  /\ asked' \subseteq asked /\ closed' = closed /\ own' = own
             /\ incoming' \in Seq(Message)
             /\ \A i \in 1 .. Len(incoming') :
                  \/ i \in 1 .. Len(incoming) /\ incoming'[i] = incoming[i]
                  \/ incoming'[i].id = x.id /\ incoming'[i].line = x.line
  <2> DEFINE m == [id |-> x.id, line |-> x.line, kind |-> kind]
  <2>1. m \in Message /\ m.id = x.id /\ m.line = x.line
    BY <1>2 DEF Request, Message
  <2>2. incoming' = Append(incoming, m)  BY <1>4 DEF Answer
  <2>3. asked' \subseteq asked /\ closed' = closed /\ own' = own
    BY <1>4 DEF Answer
  <2> HIDE DEF m
  <2> QED  BY <1>3, <2>1, <2>2, <2>3
<1>5. ASSUME NEW id \in Ids \cup {Nothing}, NEW kind \in {"own", "garbled"},
             Unasked(id, kind)
      PROVE  /\ asked' = asked /\ closed' = closed /\ own' \in Nat
             /\ incoming' \in Seq(Message)
             /\ \A i \in 1 .. Len(incoming') :
                  \/ i \in 1 .. Len(incoming) /\ incoming'[i] = incoming[i]
                  \/ incoming'[i].id = id
  <2> DEFINE m == [id |-> id, line |-> Nothing, kind |-> kind]
  <2>1. m \in Message /\ m.id = id
    BY ProxyAssumption DEF Message, Nothing
  <2>2. incoming' = Append(incoming, m)  BY <1>5 DEF Unasked
  <2>3. asked' = asked /\ closed' = closed /\ own' \in Nat
    BY <1>2, <1>5 DEF Unasked
  <2> HIDE DEF m
  <2> QED  BY <1>3, <2>1, <2>2, <2>3
<1>6. CASE Close
  BY <1>1, <1>2, <1>6 DEF Close
<1>7. CASE Answering
  BY <1>1, <1>4, <1>7 DEF Answering, ProxyTypeOK
<1>8. CASE Speaks
  <2>1. PICK id \in Ids \cup {Nothing}, kind \in {"own", "garbled"} : Unasked(id, kind)
    BY <1>8 DEF Speaks
  <2> QED  BY <1>1, <1>5, <2>1 DEF ProxyTypeOK
<1> QED  BY <1>6, <1>7, <1>8 DEF Server

----------------------------------------------------------------------------
(* What is open, and how far the lines have come.                          *)

\* A line is refused, ends the proxy, is passed on or is put to the server:
\* each leaves its reservation, if it made one, where it belongs.
LEMMA ReadsKeepsLines ==
  ASSUME LinesInv, Reads
  PROVE  LinesInv'
<1>1. /\ open = {} /\ lines' = lines + 1 /\ pc = "read"
      /\ UNCHANGED server
  BY ReadsInOneOfFive
<1>2. /\ ProxyTypeOK /\ lines \in Nat /\ lines' \in Nat /\ awaited \in Request
      /\ awaited.line \in Nat /\ awaited.line <= lines
  BY <1>1 DEF LinesInv, ProxyTypeOK, Request
<1>3. /\ \A i \in 1 .. Len(out) : out[i].line \in Nat /\ out[i].line <= lines
      /\ \A s \in settled : s.line \in Nat /\ s.line <= lines
  BY LinesTyped DEF LinesInv, AllDone, Done
<1>4. CASE ReadRefused
  <2>1. PICK kind \in {"parse_error", "refusal"} : Sends(lines', Nothing, kind)
    BY <1>4 DEF ReadRefused
  <2>2. pc' = "read" /\ UNCHANGED <<awaited, nextId, asked, spend>>
    BY <1>4 DEF ReadRefused
  <2>3. /\ out' \in Seq([line : Nat, from : Nat,
                          kind : Answers \cup {"own", "refusal", "parse_error"}])
        /\ Len(out') = Len(out) + 1
        /\ \A i \in 1 .. Len(out) : out'[i] = out[i]
        /\ out'[Len(out')].line = lines'
        /\ \A i \in 1 .. Len(out') : i \in 1 .. Len(out) \/ i = Len(out')
    BY <1>2, <2>1, SendsOne DEF Nothing
  <2>4. ProxyTypeOK'
    BY <1>1, <1>2, <2>2, <2>3 DEF ProxyTypeOK, server, spend
  <2>5. OpenOnlyInCall'
    BY <1>1, <2>2 DEF OpenOnlyInCall, spend
  <2>6. AllDone'
    <3>1. ASSUME NEW i \in 1 .. Len(out')  PROVE  out'[i].line <= lines'
      <4>1. CASE i \in 1 .. Len(out)
        <5>1. out'[i] = out[i]  BY <2>3, <4>1
        <5>2. out[i].line \in Nat /\ out[i].line <= lines  BY <1>3, <4>1
        <5>3. lines \in Nat /\ lines' = lines + 1  BY <1>1, <1>2
        <5> QED  BY <5>1, <5>2, <5>3
      <4>2. CASE i = Len(out')  BY <1>2, <2>3, <4>2
      <4> QED  BY <2>3, <4>1, <4>2
    <3>2. settled' = settled /\ pc' # "wait"  BY <2>2 DEF spend
    <3> QED  BY <1>1, <1>2, <1>3, <3>1, <3>2 DEF AllDone, Done
  <2> QED  BY <1>1, <1>2, <2>2, <2>4, <2>5, <2>6 DEF LinesInv
<1>5. CASE ReadRaises
  <2>1. /\ pc' = "stopped" /\ open' \in {open, open \cup {lines'}}
        /\ UNCHANGED <<awaited, nextId, asked, out, settled>>
    BY <1>5 DEF ReadRaises
  <2>2. ProxyTypeOK'
    BY <1>1, <1>2, <2>1 DEF ProxyTypeOK, server
  <2>3. OpenOnlyInCall'
    BY <1>1, <1>2, <2>1 DEF OpenOnlyInCall
  <2>4. AllDone'
    BY <1>1, <1>2, <1>3, <2>1 DEF AllDone, Done
  <2> QED  BY <1>1, <1>2, <2>1, <2>2, <2>3, <2>4 DEF LinesInv
<1>6. CASE ReadNotification
  <2>1. /\ pc' \in {"stopped", "read"}
        /\ UNCHANGED <<awaited, nextId, asked, out, spend>>
    BY <1>6 DEF ReadNotification
  <2>2. ProxyTypeOK'
    BY <1>1, <1>2, <2>1 DEF ProxyTypeOK, server, spend
  <2>3. OpenOnlyInCall'
    BY <1>1, <2>1 DEF OpenOnlyInCall, spend
  <2>4. AllDone'
    BY <1>1, <1>2, <1>3, <2>1 DEF AllDone, Done, spend
  <2> QED  BY <1>1, <1>2, <2>1, <2>2, <2>3, <2>4 DEF LinesInv
<1>7. CASE CallAllowed
  <2>1. nextId' = nextId + 1 /\ nextId' \in Nat /\ Asks(nextId', TRUE) /\ out' = out
    <3>1. nextId \in Nat  BY <1>2 DEF ProxyTypeOK
    <3>2. nextId' = NextNumber /\ Asks(nextId', TRUE) /\ out' = out
      BY <1>7, Zenon DEF CallAllowed
    <3>3. nextId' = nextId + 1 /\ nextId' \in Nat  BY <3>1, <3>2 DEF NextNumber
    <3> QED  BY <3>2, <3>3, Zenon
  <2>2. PICK id \in Nat : id = nextId' /\ Asks(id, TRUE)
    BY <2>1
  <2>3. /\ pc' \in {"wait", "stopped"}
        /\ awaited' \in Request /\ asked' \subseteq Request
        /\ pc' = "wait" => awaited'.line = lines' /\ awaited'.call = TRUE /\ ~closed
        /\ pc' = "stopped" => awaited' = awaited /\ closed
    BY <1>1, <1>2, <2>2, AsksKeeps
  <2>4. CASE closed
    <3>1. Settles(lines', "error") /\ pc' = "stopped"
      BY <1>7, <2>3, <2>4 DEF CallAllowed
    <3>2. PICK n \in Nat : n = lines' /\ Settles(n, "error")
      BY <1>2, <3>1
    <3>3. /\ open' = open \ {lines'}
          /\ settled' \subseteq [line : Nat, outcome : {"committed", "released"}]
          /\ \A s \in settled' : s \in settled \/ s.line = lines'
      BY <1>2, <3>2, SettlesOne DEF Answers
    <3>4. open' = {}  BY <1>1, <3>3
    <3>5. ProxyTypeOK'
      BY <1>1, <1>2, <2>1, <2>3, <3>3, <3>4 DEF ProxyTypeOK, server
    <3>6. OpenOnlyInCall'  BY <3>4 DEF OpenOnlyInCall
    <3>7. AllDone'
      BY <1>1, <1>2, <1>3, <2>1, <3>1, <3>3 DEF AllDone, Done
    <3> QED  BY <1>1, <1>2, <2>3, <3>1, <3>5, <3>6, <3>7 DEF LinesInv
  <2>5. CASE ~closed
    <3>1. open' = {lines'} /\ settled' = settled /\ pc' = "wait"
      BY <1>1, <1>7, <2>3, <2>5 DEF CallAllowed
    <3>2. ProxyTypeOK'
      BY <1>1, <1>2, <2>1, <2>3, <3>1 DEF ProxyTypeOK, server
    <3>3. OpenOnlyInCall'  BY <2>3, <3>1 DEF OpenOnlyInCall
    <3>4. AllDone'
      BY <1>1, <1>2, <1>3, <2>1, <3>1 DEF AllDone, Done
    <3> QED  BY <1>1, <1>2, <2>3, <3>1, <3>2, <3>3, <3>4 DEF LinesInv
  <2> QED  BY <2>4, <2>5
<1>8. ASSUME NEW id \in Ids \cup {Nothing}, ReadRequest(id)
      PROVE  LinesInv'
  <2>1. Asks(id, FALSE) /\ UNCHANGED <<nextId, out, spend>> /\ id \in Nat
    <3>1. Asks(id, FALSE) /\ UNCHANGED <<nextId, out, spend>>
      BY <1>8, Zenon DEF ReadRequest
    <3>2. id \in Nat  BY ProxyAssumption DEF Nothing
    <3> QED  BY <3>1, <3>2, Zenon
  <2>2. /\ pc' \in {"wait", "stopped"}
        /\ awaited' \in Request /\ asked' \subseteq Request
        /\ pc' = "wait" => awaited'.line = lines'
        /\ pc' = "stopped" => awaited' = awaited
    BY <1>1, <1>2, <2>1, AsksKeeps
  <2>3. ProxyTypeOK'
    BY <1>1, <1>2, <2>1, <2>2 DEF ProxyTypeOK, server, spend
  <2>4. OpenOnlyInCall'
    BY <1>1, <2>1 DEF OpenOnlyInCall, spend
  <2>5. AllDone'
    BY <1>1, <1>2, <1>3, <2>1 DEF AllDone, Done, spend
  <2>6. awaited'.line <= lines'  BY <1>1, <1>2, <2>2
  <2> QED  BY <2>2, <2>3, <2>4, <2>5, <2>6 DEF LinesInv
<1> QED  BY <1>4, <1>5, <1>6, <1>7, <1>8, ReadsInOneOfFive

\* What is raised out of a request ends the proxy, and leaves its call settled.
LEMMA RaisesKeepsLines ==
  ASSUME LinesInv, pc = "wait", RequestRaises, incoming' \in Seq(Message),
         UNCHANGED <<lines, awaited, nextId, asked, closed, own>>
  PROVE  LinesInv'
<1>1. /\ awaited.line = lines /\ open \subseteq {lines}
      /\ ~awaited.call => open = {}
  BY OpenOfTheCall DEF LinesInv
<1>2. ProxyTypeOK /\ lines \in Nat
  BY DEF LinesInv, ProxyTypeOK
<1>3. /\ \A i \in 1 .. Len(out) : out[i].line \in Nat /\ out[i].line < lines
      /\ \A s \in settled : s.line \in Nat /\ s.line < lines
  BY <1>1, LinesTyped DEF LinesInv, AllDone, Done
<1>4. /\ pc' = "stopped" /\ out' = out
      /\ (UNCHANGED spend /\ ~awaited.call) \/ Settles(lines, "error")
  BY <1>1 DEF RequestRaises
<1>5. /\ open' = {}
      /\ settled' \subseteq [line : Nat, outcome : {"committed", "released"}]
      /\ \A s \in settled' : s \in settled \/ s.line = lines
  <2>1. CASE UNCHANGED spend /\ ~awaited.call
    BY <1>1, <1>2, <2>1 DEF spend, ProxyTypeOK
  <2>2. CASE Settles(lines, "error")
    BY <1>1, <1>2, <2>2, SettlesOne DEF Answers
  <2> QED  BY <1>4, <2>1, <2>2
<1>6. ProxyTypeOK'
  BY <1>2, <1>4, <1>5 DEF ProxyTypeOK
<1>7. OpenOnlyInCall'  BY <1>5 DEF OpenOnlyInCall
<1>8. AllDone'
  BY <1>2, <1>3, <1>4, <1>5 DEF AllDone, Done
<1> QED  BY <1>1, <1>2, <1>4, <1>6, <1>7, <1>8 DEF LinesInv

\* An answer, a message that does not match, a garbled one or the end of the
\* stream: the reservation is settled when the wait is over.
LEMMA WaitsKeepsLines ==
  ASSUME LinesInv, Waits
  PROVE  LinesInv'
<1>1. /\ pc = "wait" /\ awaited.line = lines /\ open \subseteq {lines}
      /\ ~awaited.call => open = {}
      /\ UNCHANGED <<lines, awaited, nextId, asked, closed, own>>
  BY OpenOfTheCall DEF LinesInv, Waits
<1>2. ProxyTypeOK /\ lines \in Nat
  BY DEF LinesInv, ProxyTypeOK
<1>3. /\ \A i \in 1 .. Len(out) : out[i].line \in Nat /\ out[i].line < lines
      /\ \A s \in settled : s.line \in Nat /\ s.line < lines
  BY <1>1, LinesTyped DEF LinesInv, AllDone, Done
<1>4. CASE Receives
  <2> DEFINE m == Head(incoming)
  <2>1. /\ m \in Message /\ incoming' \in Seq(Message)
        /\ IF m.kind = "garbled" THEN RequestRaises
           ELSE DropsMessage(m) \/ RelaysAnswer(m) \/ FilterRaises(m) \/ CallAnswered(m)
    BY <1>2, <1>4, HeadIsMessage DEF Receives
  <2>2. m.line \in Nat /\ (m.kind # "garbled" => m.kind \in Answers \cup {"own"})
    BY <2>1 DEF Message
  <2> HIDE DEF m
  <2>3. CASE m.kind = "garbled"
    BY <1>1, <2>1, <2>3, RaisesKeepsLines
  <2>4. CASE m.kind # "garbled" /\ FilterRaises(m)
    <3>1. pc' = "stopped" /\ UNCHANGED <<out, spend>> /\ open = {}
      BY <1>1, <2>4 DEF FilterRaises
    <3>2. ProxyTypeOK'
      BY <1>1, <1>2, <2>1, <3>1 DEF ProxyTypeOK, spend
    <3>3. OpenOnlyInCall'  BY <3>1 DEF OpenOnlyInCall, spend
    <3>4. AllDone'
      BY <1>1, <1>2, <1>3, <3>1 DEF AllDone, Done, spend
    <3> QED  BY <1>1, <1>2, <3>1, <3>2, <3>3, <3>4 DEF LinesInv
  <2>5. CASE DropsMessage(m)
    <3>1. UNCHANGED <<pc, out, spend>>  BY <2>5 DEF DropsMessage
    <3>2. ProxyTypeOK'
      BY <1>1, <1>2, <2>1, <3>1 DEF ProxyTypeOK, spend
    <3> QED
      BY <1>1, <3>1, <3>2 DEF LinesInv, OpenOnlyInCall, AllDone, Done, spend
  <2>6. CASE m.kind # "garbled" /\ RelaysAnswer(m)
    <3>1. Sends(lines, m.line, m.kind) /\ pc' = "read" /\ UNCHANGED spend /\ open = {}
      BY <1>1, <2>6 DEF RelaysAnswer
    <3>2. /\ out' \in Seq([line : Nat, from : Nat,
                            kind : Answers \cup {"own", "refusal", "parse_error"}])
          /\ Len(out') = Len(out) + 1
          /\ \A i \in 1 .. Len(out) : out'[i] = out[i]
          /\ out'[Len(out')].line = lines
          /\ \A i \in 1 .. Len(out') : i \in 1 .. Len(out) \/ i = Len(out')
      BY <1>2, <2>2, <2>6, <3>1, SendsOne
    <3>3. ProxyTypeOK'
      BY <1>1, <1>2, <2>1, <3>1, <3>2 DEF ProxyTypeOK, spend
    <3>4. OpenOnlyInCall'  BY <3>1 DEF OpenOnlyInCall, spend
    <3>5. AllDone'
      <4>1. ASSUME NEW i \in 1 .. Len(out')  PROVE  out'[i].line <= lines'
        <5>1. CASE i \in 1 .. Len(out)
          <6>1. out'[i] = out[i]  BY <3>2, <5>1
          <6>2. out[i].line <= lines  BY <1>2, <1>3, <5>1
          <6>3. lines' = lines  BY <1>1
          <6> QED  BY <6>1, <6>2, <6>3
        <5>2. CASE i = Len(out')  BY <1>1, <1>2, <3>2, <5>2
        <5> QED  BY <3>2, <5>1, <5>2
      <4>2. settled' = settled /\ pc' # "wait"  BY <3>1 DEF spend
      <4> QED  BY <1>1, <1>2, <1>3, <4>1, <4>2 DEF AllDone, Done
    <3> QED  BY <1>1, <1>2, <3>1, <3>3, <3>4, <3>5 DEF LinesInv
  <2>7. CASE m.kind # "garbled" /\ CallAnswered(m)
    <3>1. Settles(lines, m.kind)
      BY <1>1, <2>7 DEF CallAnswered
    <3>2. /\ open' = open \ {lines}
          /\ settled' \subseteq [line : Nat, outcome : {"committed", "released"}]
          /\ \A s \in settled' : s \in settled \/ s.line = lines
      BY <1>2, <2>2, <2>7, <3>1, SettlesOne
    <3>3. open' = {}  BY <1>1, <3>2
    <3>4. /\ pc' \in {"read", "stopped"}
          /\ out' = out \/ Sends(lines, m.line, m.kind)
      BY <1>1, <2>7 DEF CallAnswered
    <3>5. /\ out' \in Seq([line : Nat, from : Nat,
                            kind : Answers \cup {"own", "refusal", "parse_error"}])
          /\ \A i \in 1 .. Len(out') : out'[i].line \in Nat /\ out'[i].line <= lines
      <4>1. CASE out' = out  BY <1>2, <1>3, <4>1 DEF ProxyTypeOK
      <4>2. CASE Sends(lines, m.line, m.kind)
        <5>1. /\ out' \in Seq([line : Nat, from : Nat,
                                kind : Answers \cup {"own", "refusal", "parse_error"}])
              /\ \A i \in 1 .. Len(out) : out'[i] = out[i]
              /\ out'[Len(out')].line = lines
              /\ \A i \in 1 .. Len(out') : i \in 1 .. Len(out) \/ i = Len(out')
          BY <1>2, <2>2, <2>7, <4>2, SendsOne
        <5> QED  BY <1>2, <1>3, <5>1
      <4> QED  BY <3>4, <4>1, <4>2
    <3>6. ProxyTypeOK'
      BY <1>1, <1>2, <2>1, <3>2, <3>3, <3>4, <3>5 DEF ProxyTypeOK
    <3>7. OpenOnlyInCall'  BY <3>3 DEF OpenOnlyInCall
    <3>8. AllDone'
      BY <1>1, <1>2, <1>3, <3>2, <3>4, <3>5 DEF AllDone, Done
    <3> QED  BY <1>1, <1>2, <3>4, <3>6, <3>7, <3>8 DEF LinesInv
  <2> QED  BY <2>1, <2>3, <2>4, <2>5, <2>6, <2>7
<1>5. CASE ConnectionLost
  BY <1>1, <1>2, <1>5, RaisesKeepsLines DEF ConnectionLost, ProxyTypeOK
<1> QED  BY <1>4, <1>5 DEF Waits

\* The end of the input finds nothing open; the server touches neither lines
\* nor reservations.
LEMMA OthersKeepLines ==
  ASSUME LinesInv,
         EndOfInput
           \/ Server(Answering \/ Close \/ Speaks)
           \/ UNCHANGED proxyVars
  PROVE  LinesInv'
<1>1. CASE EndOfInput
  <2>1. /\ pc = "read" /\ pc' = "stopped" /\ open = {}
        /\ UNCHANGED <<lines, awaited, nextId, asked, out, server, spend>>
    BY <1>1, OpenOfTheCall DEF EndOfInput, LinesInv
  <2>2. ProxyTypeOK'  BY <2>1 DEF LinesInv, ProxyTypeOK, server, spend
  <2> QED  BY <2>1, <2>2 DEF LinesInv, OpenOnlyInCall, AllDone, Done, spend
<1>2. CASE Server(Answering \/ Close \/ Speaks)
  <2>1. /\ UNCHANGED <<pc, lines, awaited, nextId, out, spend>>
        /\ asked' \subseteq asked /\ closed' \in BOOLEAN /\ own' \in Nat
        /\ incoming' \in Seq(Message)
    BY <1>2, ServerSends DEF LinesInv
  <2>2. ProxyTypeOK'  BY <2>1 DEF LinesInv, ProxyTypeOK, spend
  <2> QED  BY <2>1, <2>2 DEF LinesInv, OpenOnlyInCall, AllDone, Done, spend
<1>3. CASE UNCHANGED proxyVars
  BY <1>3 DEF proxyVars, server, spend, LinesInv, ProxyTypeOK, OpenOnlyInCall, AllDone, Done
<1> QED  BY <1>1, <1>2, <1>3

----------------------------------------------------------------------------
(* Whose answer a call gets.                                               *)

\* What was sent before stays sent; an answer added breaks nothing if the new
\* line is not committed, or what answered it is its own.
LEMMA SentStays ==
  ASSUME ProxyInv, NEW line \in Nat, NEW from \in Nat,
         NEW kind \in Answers \cup {"own", "refusal", "parse_error"},
         Sends(line, from, kind),
         \A i \in 1 .. Len(out) : out[i].line # line,
         Committed' \subseteq Committed \cup {line},
         line \in Committed' => from = line
  PROVE  CallAnswersAreTheirs'
<1>1. /\ \A i \in 1 .. Len(out) : out'[i] = out[i]
      /\ out'[Len(out')].line = line /\ out'[Len(out')].from = from
      /\ \A i \in 1 .. Len(out') : i \in 1 .. Len(out) \/ i = Len(out')
  BY SendsOne DEF ProxyInv, LinesInv
<1>2. SUFFICES ASSUME NEW i \in 1 .. Len(out'), out'[i].line \in Committed'
               PROVE  out'[i].from = out'[i].line
  BY DEF CallAnswersAreTheirs
<1>3. CASE i \in 1 .. Len(out)
  <2>1. out'[i] = out[i] /\ out[i].line # line  BY <1>1, <1>3
  <2>2. out[i].line \in Committed  BY <1>2, <2>1
  <2> QED  BY <1>3, <2>1, <2>2 DEF ProxyInv, CallAnswersAreTheirs
<1>4. CASE i = Len(out')  BY <1>1, <1>2, <1>4
<1> QED  BY <1>1, <1>3, <1>4

\* When nothing is sent and only the present line may become committed, the
\* answers given before are still theirs.
LEMMA UnsentStays ==
  ASSUME ProxyInv, out' = out, NEW line,
         \A i \in 1 .. Len(out) : out[i].line # line,
         Committed' \subseteq Committed \cup {line}
  PROVE  CallAnswersAreTheirs'
BY DEF ProxyInv, CallAnswersAreTheirs

\* The lines of what was sent and settled are below the line being read.
LEMMA EarlierLines ==
  ASSUME ProxyInv
  PROVE  /\ lines \in Nat
         /\ \A i \in 1 .. Len(out) : out[i].line \in Nat /\ out[i].line <= lines
         /\ \A l \in Committed : l \in Nat /\ l <= lines
         /\ pc = "wait" => /\ \A i \in 1 .. Len(out) : out[i].line < lines
                           /\ \A l \in Committed : l < lines
<1>1. ProxyTypeOK /\ AllDone /\ lines \in Nat
  BY DEF ProxyInv, LinesInv, ProxyTypeOK
<1> QED  BY <1>1, LinesTyped DEF AllDone, Done, Committed

\* Numbers are numbers.
LEMMA NumbersTyped ==
  ASSUME ProxyInv
  PROVE  /\ nextId \in Nat /\ FirstId \in Nat /\ nextId >= FirstId
         /\ \A x \in asked : x.id \in Nat
         /\ \A i \in 1 .. Len(incoming) : incoming[i].id \in Nat
<1>1. /\ nextId \in Nat /\ asked \subseteq Request /\ incoming \in Seq(Message)
  BY DEF ProxyInv, LinesInv, ProxyTypeOK
<1>2. \A i \in 1 .. Len(incoming) : incoming[i] \in Message  BY <1>1
<1> QED  BY <1>1, <1>2, ProxyAssumption DEF ProxyInv, Request, Message

\* A line read starts with nothing settled or sent on its account, and a call
\* it makes takes a number nobody has had.
LEMMA ReadsKeepsAnswers ==
  ASSUME IdsApart, ProxyInv, Reads
  PROVE  ProxyInv'
<1>1. /\ lines' = lines + 1 /\ pc = "read" /\ LinesInv' /\ ProxyTypeOK /\ ProxyTypeOK'
      /\ UNCHANGED server
  BY ReadsInOneOfFive, ReadsKeepsLines DEF ProxyInv, LinesInv
<1>2. /\ lines \in Nat /\ lines' \in Nat /\ lines' \notin Committed
      /\ \A i \in 1 .. Len(out) : out[i].line # lines'
  BY <1>1, EarlierLines
<1>3. ASSUME pc' # "wait", nextId' \in Nat, nextId' >= nextId, asked' = asked,
             CallAnswersAreTheirs'
      PROVE  ProxyInv'
  <2>1. nextId' >= FirstId  BY <1>3, NumbersTyped
  <2>2. (\A x \in asked : IsOfItsCall(x))'
    BY <1>3, NumbersTyped DEF ProxyInv, IsOfItsCall
  <2>3. (\A i \in 1 .. Len(incoming) : IsOfItsCall(incoming[i]))'
    BY <1>1, <1>3, NumbersTyped DEF ProxyInv, IsOfItsCall, server
  <2> QED  BY <1>1, <1>3, <2>1, <2>2, <2>3 DEF ProxyInv
<1>4. CASE ReadRefused
  <2>1. PICK kind \in {"parse_error", "refusal"} : Sends(lines', Nothing, kind)
    BY <1>4 DEF ReadRefused
  <2>2. PICK n \in Nat : n = lines' /\ Sends(n, Nothing, kind)
    BY <1>2, <2>1
  <2>3. pc' = "read" /\ UNCHANGED <<awaited, nextId, asked, spend>>
    BY <1>4 DEF ReadRefused
  <2>4. Committed' = Committed  BY <2>3 DEF Committed, spend
  <2>5. CallAnswersAreTheirs'
    BY <1>2, <2>2, <2>4, SentStays DEF Nothing
  <2> QED  BY <1>3, <2>3, <2>5, NumbersTyped
<1>5. CASE ReadRaises \/ ReadNotification
  <2>1. pc' # "wait" /\ UNCHANGED <<nextId, asked, out, settled>>
    BY <1>5 DEF ReadRaises, ReadNotification, spend
  <2>2. CallAnswersAreTheirs'
    BY <2>1 DEF ProxyInv, CallAnswersAreTheirs, Committed
  <2> QED  BY <1>3, <2>1, <2>2, NumbersTyped
<1>6. CASE CallAllowed
  <2>1. nextId' = nextId + 1 /\ out' = out
    BY <1>6 DEF CallAllowed, NextNumber
  <2>2. Asks(nextId', TRUE)  BY <1>6, Zenon DEF CallAllowed
  <2>3. nextId' \in Nat  BY <2>1, NumbersTyped
  <2>4. PICK id \in Nat : id = nextId' /\ Asks(id, TRUE)  BY <2>2, <2>3
  <2>5. /\ pc' \in {"wait", "stopped"}
        /\ pc' = "wait" => awaited'.line = lines' /\ awaited'.id = nextId' /\ ~closed
        /\ \A x \in asked' : x \in asked \/ (x.id = nextId' /\ x.line = lines')
    BY <1>1, <2>4, AsksKeeps
  <2>6. CASE closed
    <3>1. Settles(lines', "error")  BY <1>6, <2>6 DEF CallAllowed
    <3>2. PICK n \in Nat : n = lines' /\ Settles(n, "error")  BY <1>2, <3>1
    <3>3. Committed' = Committed
      BY <1>1, <3>2, SettlesOne DEF Answers
    <3>4. CallAnswersAreTheirs'
      BY <2>1, <3>3 DEF ProxyInv, CallAnswersAreTheirs
    <3>5. asked' = asked  BY <2>4, <2>6 DEF Asks
    <3>6. pc' # "wait"  BY <2>5, <2>6
    <3> QED  BY <1>3, <2>1, <2>3, <3>4, <3>5, <3>6, NumbersTyped
  <2>7. CASE ~closed
    <3>1. settled' = settled  BY <1>6, <2>7 DEF CallAllowed
    <3>2. CallAnswersAreTheirs'
      BY <2>1, <3>1 DEF ProxyInv, CallAnswersAreTheirs, Committed
    <3>3. nextId' > FirstId /\ nextId' >= FirstId
      BY <2>1, NumbersTyped
    <3>4. (pc = "wait" /\ awaited.call => awaited.id = nextId /\ nextId > FirstId)'
      BY <2>5, <3>3
    <3>5. (\A x \in asked : IsOfItsCall(x))'
      <4>1. SUFFICES ASSUME NEW x \in asked' PROVE IsOfItsCall(x)'
        OBVIOUS
      <4>2. CASE x \in asked
        BY <2>1, <4>2, NumbersTyped DEF ProxyInv, IsOfItsCall
      <4>3. CASE x.id = nextId' /\ x.line = lines'
        BY <2>3, <4>3 DEF IsOfItsCall
      <4> QED  BY <2>5, <4>1, <4>2, <4>3
    <3>6. (\A i \in 1 .. Len(incoming) : IsOfItsCall(incoming[i]))'
      BY <1>1, <2>1, NumbersTyped DEF ProxyInv, IsOfItsCall, server
    <3> QED  BY <1>1, <3>2, <3>3, <3>4, <3>5, <3>6 DEF ProxyInv
  <2> QED  BY <2>6, <2>7
<1>7. ASSUME NEW id \in Ids \cup {Nothing}, ReadRequest(id)
      PROVE  ProxyInv'
  <2>1. Asks(id, FALSE) /\ UNCHANGED <<nextId, out, spend>> /\ id \in Nat /\ id <= FirstId
    <3>1. Asks(id, FALSE) /\ UNCHANGED <<nextId, out, spend>>
      BY <1>7, Zenon DEF ReadRequest
    <3>2. id \in Nat /\ id <= FirstId
      BY ProxyAssumption DEF IdsApart, Nothing
    <3> QED  BY <3>1, <3>2, Zenon
  <2>2. /\ pc' \in {"wait", "stopped"}
        /\ pc' = "wait" => awaited'.call = FALSE
        /\ \A x \in asked' : x \in asked \/ x.id = id
    BY <1>1, <2>1, AsksKeeps
  <2>3. CallAnswersAreTheirs'
    BY <2>1 DEF ProxyInv, CallAnswersAreTheirs, Committed, spend
  <2>4. nextId' \in Nat /\ nextId' >= FirstId  BY <2>1, NumbersTyped
  <2>5. ~(pc' = "wait" /\ awaited'.call)  BY <2>2
  <2>6. (\A x \in asked : IsOfItsCall(x))'
    BY <2>1, <2>2, <2>5, NumbersTyped DEF ProxyInv, IsOfItsCall
  <2>7. (\A i \in 1 .. Len(incoming) : IsOfItsCall(incoming[i]))'
    BY <1>1, <2>1, <2>5, NumbersTyped DEF ProxyInv, IsOfItsCall, server
  <2> QED  BY <1>1, <2>3, <2>4, <2>5, <2>6, <2>7 DEF ProxyInv
<1> QED  BY <1>4, <1>5, <1>6, <1>7, ReadsInOneOfFive DEF ProxyInv

\* A message taken for the answer to a call carries its number, which only
\* the server's answer to that call does.
LEMMA WaitsKeepsAnswers ==
  ASSUME ProxyInv, Waits
  PROVE  ProxyInv'
<1>1. /\ pc = "wait" /\ awaited.line = lines /\ LinesInv' /\ ProxyTypeOK /\ ProxyTypeOK'
      /\ UNCHANGED <<lines, awaited, nextId, asked, closed, own>>
  BY WaitsKeepsLines DEF ProxyInv, LinesInv, Waits
<1>2. /\ lines \in Nat /\ lines \notin Committed
      /\ \A i \in 1 .. Len(out) : out[i].line # lines
  BY <1>1, EarlierLines
<1>3. \A i \in 1 .. Len(incoming') :
        \E j \in 1 .. Len(incoming) : incoming'[i] = incoming[j]
  <2>1. CASE Receives
    <3>1. incoming # <<>> /\ incoming' = Tail(incoming)  BY <2>1 DEF Receives
    <3> QED  BY <1>1, <3>1, HeadIsMessage
  <2>2. CASE ConnectionLost  BY <2>2 DEF ConnectionLost
  <2> QED  BY <2>1, <2>2 DEF Waits
<1>4. pc' \in {"wait", "read", "stopped"}  BY <1>1 DEF ProxyTypeOK
<1>5. ASSUME CallAnswersAreTheirs'
      PROVE  ProxyInv'
  <2>1. nextId' >= FirstId  BY <1>1, NumbersTyped
  <2>2. (pc = "wait" /\ awaited.call => awaited.id = nextId /\ nextId > FirstId)'
    BY <1>1 DEF ProxyInv
  <2>3. (\A x \in asked : IsOfItsCall(x))'
    BY <1>1 DEF ProxyInv, IsOfItsCall
  <2>4. (\A i \in 1 .. Len(incoming) : IsOfItsCall(incoming[i]))'
    BY <1>1, <1>3 DEF ProxyInv, IsOfItsCall
  <2> QED  BY <1>1, <1>5, <2>1, <2>2, <2>3, <2>4 DEF ProxyInv
<1>6. PICK n \in Nat : n = lines  BY <1>2
<1>7. ASSUME RequestRaises
      PROVE  ProxyInv'
  <2>1. out' = out /\ (UNCHANGED spend \/ Settles(n, "error"))
    BY <1>1, <1>6, <1>7 DEF RequestRaises
  <2>2. Committed' = Committed
    <3>1. CASE UNCHANGED spend  BY <3>1 DEF Committed, spend
    <3>2. CASE Settles(n, "error")
      BY <1>1, <3>2, SettlesOne DEF Answers
    <3> QED  BY <2>1, <3>1, <3>2
  <2>3. CallAnswersAreTheirs'
    BY <2>1, <2>2 DEF ProxyInv, CallAnswersAreTheirs
  <2> QED  BY <1>5, <2>3
<1>8. CASE Receives
  <2>1. PICK m \in Message : m = Head(incoming)
    BY <1>1, <1>8, HeadIsMessage DEF Receives
  <2>2. IF m.kind = "garbled" THEN RequestRaises
        ELSE DropsMessage(m) \/ RelaysAnswer(m) \/ FilterRaises(m) \/ CallAnswered(m)
    BY <1>8, <2>1 DEF Receives
  <2>3. /\ m.line \in Nat /\ (m.kind # "garbled" => m.kind \in Answers \cup {"own"})
        /\ IsOfItsCall(m)
    <3>1. m = incoming[1] /\ 1 \in 1 .. Len(incoming)
      BY <1>1, <1>8, <2>1, HeadIsMessage DEF Receives
    <3>2. m.line \in Nat /\ (m.kind # "garbled" => m.kind \in Answers \cup {"own"})
      BY DEF Message
    <3>3. IsOfItsCall(incoming[1])  BY <3>1 DEF ProxyInv
    <3> QED  BY <3>1, <3>2, <3>3
  <2>4. CASE DropsMessage(m) \/ FilterRaises(m)
    <3>1. UNCHANGED <<out, spend>>  BY <2>4 DEF DropsMessage, FilterRaises
    <3>2. CallAnswersAreTheirs'
      BY <3>1 DEF ProxyInv, CallAnswersAreTheirs, Committed, spend
    <3> QED  BY <1>5, <3>2
  <2>5. CASE m.kind # "garbled" /\ RelaysAnswer(m)
    <3>1. Sends(n, m.line, m.kind) /\ UNCHANGED spend
      BY <1>1, <1>6, <2>5 DEF RelaysAnswer
    <3>2. Committed' = Committed  BY <3>1 DEF Committed, spend
    <3>3. CallAnswersAreTheirs'
      BY <1>2, <1>6, <2>3, <2>5, <3>1, <3>2, SentStays
    <3> QED  BY <1>5, <3>3
  <2>6. CASE m.kind # "garbled" /\ CallAnswered(m)
    <3>1. /\ Settles(n, m.kind) /\ awaited.call /\ m.id = awaited.id
          /\ out' = out \/ Sends(n, m.line, m.kind)
      BY <1>1, <1>6, <2>6 DEF CallAnswered, Matches
    <3>2. m.line = n
      BY <1>1, <1>6, <2>3, <3>1, NumbersTyped DEF ProxyInv, IsOfItsCall
    <3>3. Committed' \subseteq Committed \cup {n}
      BY <1>1, <2>3, <2>6, <3>1, SettlesOne
    <3>4. CASE out' = out
      <4>1. CallAnswersAreTheirs'  BY <1>2, <1>6, <3>3, <3>4, UnsentStays
      <4> QED  BY <1>5, <4>1
    <3>5. CASE Sends(n, m.line, m.kind)
      <4>1. CallAnswersAreTheirs'
        BY <1>2, <1>6, <2>3, <2>6, <3>2, <3>3, <3>5, SentStays
      <4> QED  BY <1>5, <4>1
    <3> QED  BY <3>1, <3>4, <3>5
  <2>7. CASE m.kind = "garbled"  BY <1>7, <2>2, <2>7
  <2> QED  BY <2>2, <2>4, <2>5, <2>6, <2>7
<1>9. CASE ConnectionLost  BY <1>9, <1>7 DEF ConnectionLost
<1> QED  BY <1>8, <1>9 DEF Waits

\* The server answers under the number it was asked with, and numbers what it
\* asks below the proxy's.
LEMMA OthersKeepAnswers ==
  ASSUME IdsApart, ProxyInv,
         EndOfInput
           \/ Server(Answering \/ Close \/ Speaks)
           \/ UNCHANGED proxyVars
  PROVE  ProxyInv'
<1>1. LinesInv'  BY OthersKeepLines DEF ProxyInv
<1>2. CASE EndOfInput
  <2>1. /\ pc' = "stopped"
        /\ UNCHANGED <<lines, awaited, nextId, asked, incoming, out, open, settled>>
    BY <1>2 DEF EndOfInput, server, spend
  <2>2. CallAnswersAreTheirs'
    BY <2>1 DEF ProxyInv, CallAnswersAreTheirs, Committed
  <2>3. /\ (\A x \in asked : IsOfItsCall(x))'
        /\ (\A i \in 1 .. Len(incoming) : IsOfItsCall(incoming[i]))'
    BY <2>1 DEF ProxyInv, IsOfItsCall
  <2> QED  BY <1>1, <2>1, <2>2, <2>3 DEF ProxyInv
<1>3. CASE Server(Answering \/ Close \/ Speaks)
  <2>1. /\ UNCHANGED <<pc, lines, awaited, nextId, out, spend>>
        /\ asked' \subseteq asked
        /\ \A i \in 1 .. Len(incoming') :
             \/ i \in 1 .. Len(incoming) /\ incoming'[i] = incoming[i]
             \/ \E x \in asked : incoming'[i].id = x.id /\ incoming'[i].line = x.line
             \/ incoming'[i].id \in Ids \cup {Nothing}
    BY <1>3, ServerSends DEF ProxyInv, LinesInv
  <2>2. CallAnswersAreTheirs'
    BY <2>1 DEF ProxyInv, CallAnswersAreTheirs, Committed, spend
  <2>3. (\A x \in asked : IsOfItsCall(x))'
    BY <2>1 DEF ProxyInv, IsOfItsCall
  <2>4. (\A i \in 1 .. Len(incoming) : IsOfItsCall(incoming[i]))'
    <3>1. SUFFICES ASSUME NEW i \in 1 .. Len(incoming'), NEW m, m = incoming'[i]
                   PROVE  IsOfItsCall(m)'
      BY DEF IsOfItsCall
    <3>2. CASE i \in 1 .. Len(incoming) /\ m = incoming[i]
      BY <2>1, <3>2 DEF ProxyInv, IsOfItsCall
    <3>3. ASSUME NEW x \in asked, m.id = x.id, m.line = x.line
          PROVE  IsOfItsCall(m)'
      BY <2>1, <3>3 DEF ProxyInv, IsOfItsCall
    <3>4. CASE m.id \in Ids \cup {Nothing}
      <4>1. ~(m.id > FirstId)
        <5>1. PICK k \in Ids \cup {0} : k = m.id  BY <3>4 DEF Nothing
        <5>2. k \in Nat /\ FirstId \in Nat /\ k <= FirstId
          BY ProxyAssumption DEF IdsApart
        <5> QED  BY <5>1, <5>2
      <4> QED  BY <4>1 DEF IsOfItsCall
    <3> QED  BY <2>1, <3>1, <3>2, <3>3, <3>4
  <2> QED  BY <1>1, <2>1, <2>2, <2>3, <2>4 DEF ProxyInv
<1>4. CASE UNCHANGED proxyVars
  BY <1>1, <1>4
  DEF proxyVars, server, spend, ProxyInv, CallAnswersAreTheirs, Committed, IsOfItsCall
<1> QED  BY <1>2, <1>3, <1>4

----------------------------------------------------------------------------
(* The invariants and what follows from them.                              *)

LEMMA LinesInitially == ProxyInit => LinesInv
<1> SUFFICES ASSUME ProxyInit PROVE LinesInv  OBVIOUS
<1>1. /\ pc = "read" /\ lines = 0 /\ nextId = FirstId /\ own = 0
      /\ awaited = [id |-> 0, line |-> 0, call |-> FALSE]
      /\ asked = {} /\ incoming = <<>> /\ closed = FALSE
      /\ out = <<>> /\ open = {} /\ settled = {}
  BY DEF ProxyInit, NumberFromFirst, Nothing
<1>2. awaited \in Request /\ awaited.line = 0  BY <1>1 DEF Request
<1>3. ProxyTypeOK
  <2>1. {lines, nextId, own} \subseteq Nat /\ pc \in {"read", "wait", "stopped"}
    BY <1>1, ProxyAssumption
  <2>2. closed \in BOOLEAN  BY <1>1
  <2>3. /\ out \in Seq([line : Nat, from : Nat,
                         kind : Answers \cup {"own", "refusal", "parse_error"}])
        /\ incoming \in Seq(Message)
    BY <1>1
  <2>4. asked = {} /\ open = {} /\ settled = {}  BY <1>1
  <2> QED  BY <1>2, <2>1, <2>2, <2>3, <2>4 DEF ProxyTypeOK
<1>4. AllDone  BY <1>1 DEF AllDone
<1> QED  BY <1>1, <1>2, <1>3, <1>4 DEF LinesInv, OpenOnlyInCall

LEMMA LinesStep == LinesInv /\ [ProxyNext]_proxyVars => LinesInv'
BY ReadsKeepsLines, WaitsKeepsLines, OthersKeepLines DEF ProxyNext

LEMMA ProxyInitially == ProxyInit => ProxyInv
<1> SUFFICES ASSUME ProxyInit PROVE ProxyInv  OBVIOUS
<1>1. LinesInv  BY LinesInitially
<1>2. /\ pc = "read" /\ nextId = FirstId /\ asked = {} /\ incoming = <<>> /\ out = <<>>
  BY DEF ProxyInit, NumberFromFirst
<1> QED  BY <1>1, <1>2, ProxyAssumption DEF ProxyInv, CallAnswersAreTheirs

LEMMA ProxyStep ==
  ASSUME IdsApart
  PROVE  ProxyInv /\ [ProxyNext]_proxyVars => ProxyInv'
BY ReadsKeepsAnswers, WaitsKeepsAnswers, OthersKeepAnswers DEF ProxyNext

\* Whatever the server and the client send, every variable keeps its type.
THEOREM ProxyTypeCorrect == ProxySpec => []ProxyTypeOK
<1>1. LinesInv => ProxyTypeOK  BY DEF LinesInv
<1> QED  BY <1>1, LinesInitially, LinesStep, PTL DEF ProxySpec

\* A reservation is open only while its call waits for the server, or after
\* execute has refused to run it: a tool's error, a late, foreign or missing
\* answer and the end of the stream all leave it settled.
THEOREM OpenOnlyWhileCalling == ProxySpec => []OpenOnlyInCall
<1>1. LinesInv => OpenOnlyInCall  BY DEF LinesInv
<1> QED  BY <1>1, LinesInitially, LinesStep, PTL DEF ProxySpec

\* As long as nobody else numbers requests as high as the proxy does, the
\* inductive invariant of its numbers holds.
THEOREM ProxyInvariance ==
  ASSUME IdsApart
  PROVE  ProxySpec => []ProxyInv
<1> QED  BY ProxyInitially, ProxyStep, PTL DEF ProxySpec

\* Then no call returns, and commits its spend for, an answer that is not its
\* own, in whatever order the server answers and whatever it sends unasked.
THEOREM CallsGetTheirAnswers ==
  ASSUME IdsApart
  PROVE  ProxySpec => []CallAnswersAreTheirs
<1>1. ProxyInv => CallAnswersAreTheirs  BY DEF ProxyInv
<1> QED  BY <1>1, ProxyInvariance, PTL
=============================================================================
