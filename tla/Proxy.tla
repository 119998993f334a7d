------------------------------- MODULE Proxy -------------------------------
(***************************************************************************)
(* The MCP proxy (shell/proxy.py): one thread that reads a line of the     *)
(* client, handles it to its end and reads the next.  A tools/call goes    *)
(* through the gate, any other message is relayed.  The server is          *)
(* external: it answers in any order, sends messages of its own, and may   *)
(* close the connection.                                                   *)
(*                                                                         *)
(* The number of a client's line stands for its request, for what the      *)
(* server is asked on its account and for its reservation.  Of the gate,   *)
(* what proxy.py sees is kept: submit's verdict, execute's exceptions, and *)
(* that execute settles (module Gate has the rest).                        *)
(***************************************************************************)
EXTENDS Naturals, Sequences

CONSTANTS
  Ids,       \* ids of the client's and of the server's own requests
  FirstId,   \* the proxy numbers its own requests after this one
  MaxLines,  \* bound on the lines of the client
  MaxOwn     \* bound on what the server sends unasked

ASSUME ProxyAssumption == Ids \subseteq Nat /\ FirstId \in Nat

VARIABLES
  pc,        \* "read" a line, "wait" for the server, "stopped"
  lines,     \* lines read
  awaited,   \* the request last sent to the server
  nextId,    \* McpProxy._next_id
  asked,     \* requests the server has not answered
  incoming,  \* messages of the server, not yet read
  closed,    \* the server has closed the connection
  own,       \* messages the server has sent unasked
  out,       \* what the client has been sent
  open,      \* reservations open
  settled    \* reservations settled

server == <<incoming, closed, own>>
spend == <<open, settled>>
proxyVars == <<pc, lines, awaited, nextId, asked, out, server, spend>>

Nothing == 0

Request == [id : Nat, line : Nat, call : BOOLEAN]

\* "failed" is a result with isError, by which MCP reports a tool's failure;
\* "error" a JSON-RPC error; "own" a request or notification of the server;
\* "garbled" a line of it that is no JSON, or no object.
Answers == {"ok", "failed", "error"}

Message == [id : Nat, line : Nat, kind : Answers \cup {"own", "garbled"}]

ProxyTypeOK ==
  /\ pc \in {"read", "wait", "stopped"}
  /\ {lines, nextId, own} \subseteq Nat
  /\ awaited \in Request
  /\ asked \subseteq Request
  /\ incoming \in Seq(Message)
  /\ closed \in BOOLEAN
  /\ out \in Seq([line : Nat, from : Nat,
                  kind : Answers \cup {"own", "refusal", "parse_error"}])
  /\ open \subseteq Nat
  /\ settled \subseteq [line : Nat, outcome : {"committed", "released"}]

\* Mutant: the proxy numbers its requests from the beginning.
NumberFromZero == nextId = 0

NumberFromFirst == nextId = FirstId

ProxyInit ==
  /\ pc = "read" /\ lines = 0 /\ NumberFromFirst
  /\ awaited = [id |-> 0, line |-> Nothing, call |-> FALSE]
  /\ asked = {} /\ incoming = <<>> /\ closed = FALSE /\ own = 0
  /\ out = <<>> /\ open = {} /\ settled = {}

----------------------------------------------------------------------------
(* serve() and handle(): a line of the client.                             *)

Sends(line, from, kind) ==
  out' = Append(out, [line |-> line, from |-> from, kind |-> kind])

\* Gate.settle from Gate.execute: an exception of the runner releases.
Settles(line, kind) ==
  LET outcome == IF kind = "error" THEN "released" ELSE "committed" IN
  /\ open' = open \ {line}
  /\ settled' = settled \cup {[line |-> line, outcome |-> outcome]}

\* A line nobody else hears of: parse_frame refuses it, or submit says DENY
\* or REQUIRE_APPROVAL.
ReadRefused ==
  /\ pc' = "read"
  /\ \E kind \in {"parse_error", "refusal"} : Sends(lines', Nothing, kind)
  /\ UNCHANGED <<awaited, nextId, asked, spend>>

\* An exception nobody catches ends serve(): the frame or its params are not
\* an object, submit raises, or execute refuses to run what was allowed
\* (egress_pins, an expired token) and leaves its reservation open.
ReadRaises ==
  /\ pc' = "stopped"
  /\ open' \in {open, open \cup {lines'}}
  /\ UNCHANGED <<awaited, nextId, asked, out, settled>>

\* No id: relayed, whatever the method, and nothing is expected back.
ReadNotification ==
  /\ pc' = IF closed THEN "stopped" ELSE "read"
  /\ UNCHANGED <<awaited, nextId, asked, out, spend>>

\* UpstreamServer.send, and the wait for the answer; the pipe may be broken.
\* The id of a relayed request may be null (Nothing).
Asks(id, call) ==
  LET request == [id |-> id, line |-> lines', call |-> call] IN
  IF closed
  THEN pc' = "stopped" /\ UNCHANGED <<awaited, asked>>
  ELSE pc' = "wait" /\ awaited' = request /\ asked' = asked \cup {request}

ReadRequest(id) == Asks(id, FALSE) /\ UNCHANGED <<nextId, out, spend>>

\* Mutant: the number of the last call is used again.
SameNumber == nextId

NextNumber == nextId + 1

\* submit says ALLOW and reserves, execute calls _call_upstream.
CallAllowed ==
  /\ nextId' = NextNumber
  /\ Asks(nextId', TRUE)
  /\ IF closed THEN Settles(lines', "error")
     ELSE open' = open \cup {lines'} /\ UNCHANGED settled
  /\ UNCHANGED out

Reads ==
  /\ pc = "read"
  /\ lines < MaxLines
  /\ lines' = lines + 1
  /\ \/ ReadRefused \/ ReadRaises \/ ReadNotification \/ CallAllowed
     \/ \E id \in Ids \cup {Nothing} : ReadRequest(id)
  /\ UNCHANGED server

\* The client closes its end.
EndOfInput ==
  /\ pc = "read"
  /\ pc' = "stopped"
  /\ UNCHANGED <<lines, awaited, nextId, asked, out, server, spend>>

----------------------------------------------------------------------------
(* UpstreamServer.request: read until a message carries the awaited id.    *)

\* A notification carries no id (Nothing): the client's request with the id
\* null is answered by any of them.
Matches(m) == m.id = awaited.id

DropsMessage(m) ==
  /\ ~Matches(m)
  /\ UNCHANGED <<pc, out, spend>>

\* The answer to a relayed request goes to the client as it is (that of
\* tools/list less the tools the manifest does not declare).
RelaysAnswer(m) ==
  /\ Matches(m) /\ ~awaited.call
  /\ Sends(awaited.line, m.line, m.kind)
  /\ pc' = "read"
  /\ UNCHANGED spend

\* _filter meets a result of tools/list that is null or a list of no objects.
FilterRaises(m) ==
  /\ Matches(m) /\ ~awaited.call
  /\ m.kind \in {"ok", "failed"}
  /\ pc' = "stopped"
  /\ UNCHANGED <<out, spend>>

\* The answer to a tool call: an error is an exception of the runner, anything
\* else its result, with which execute returns once it has settled.
CallAnswered(m) ==
  /\ Matches(m) /\ awaited.call
  /\ Settles(awaited.line, m.kind)
  /\ IF m.kind = "error" THEN pc' = "stopped" /\ UNCHANGED out
     ELSE pc' = "read" /\ Sends(awaited.line, m.line, m.kind)

\* An exception out of request ends serve(); that of a tool call is an
\* exception of the runner, and execute settles first.
RequestRaises ==
  /\ pc' = "stopped"
  /\ IF awaited.call THEN Settles(awaited.line, "error") ELSE UNCHANGED spend
  /\ UNCHANGED out

\* What parse_frame refuses, or has no get, raises; the rest is looked at.
Receives ==
  LET m == Head(incoming) IN
  /\ incoming # <<>>
  /\ incoming' = Tail(incoming)
  /\ IF m.kind = "garbled" THEN RequestRaises
     ELSE DropsMessage(m) \/ RelaysAnswer(m) \/ FilterRaises(m) \/ CallAnswered(m)

\* Mutants: the end of the stream is read as one more line that does not
\* match; its exception passes the settlement by.
ConnectionLostUnseen ==
  closed /\ incoming = <<>> /\ UNCHANGED <<pc, spend, out, incoming>>

ConnectionLostUnsettled ==
  closed /\ incoming = <<>> /\ pc' = "stopped" /\ UNCHANGED <<spend, out, incoming>>

\* "upstream server closed the connection"
ConnectionLost ==
  closed /\ incoming = <<>> /\ RequestRaises /\ UNCHANGED incoming

Waits ==
  /\ pc = "wait"
  /\ Receives \/ ConnectionLost
  /\ UNCHANGED <<lines, awaited, nextId, asked, closed, own>>

----------------------------------------------------------------------------
(* The server.                                                             *)

Answer(request, kind) ==
  /\ asked' = asked \ {request}
  /\ incoming' = Append(incoming,
       [id |-> request.id, line |-> request.line, kind |-> kind])
  /\ UNCHANGED <<closed, own>>

\* A notification (Nothing for an id) or a request of the server's own, or a
\* line that is neither.
Unasked(id, kind) ==
  /\ own < MaxOwn
  /\ own' = own + 1
  /\ incoming' = Append(incoming, [id |-> id, line |-> Nothing, kind |-> kind])
  /\ UNCHANGED <<asked, closed>>

Speaks ==
  Unasked(Nothing, "garbled") \/ \E id \in Ids \cup {Nothing} : Unasked(id, "own")

Close == closed' = TRUE /\ UNCHANGED <<asked, incoming, own>>

Answering == \E request \in asked, kind \in Answers : Answer(request, kind)

Server(step) ==
  ~closed /\ step /\ UNCHANGED <<pc, lines, awaited, nextId, out, spend>>

----------------------------------------------------------------------------
ProxyNext ==
  \/ Reads \/ EndOfInput
  \/ Waits
  \/ Server(Answering \/ Close \/ Speaks)

ProxySpec == ProxyInit /\ [][ProxyNext]_proxyVars

\* The proxy's loop runs on, and a server answers what it has been asked
\* unless it closes the connection.
ProxyFairSpec ==
  ProxySpec /\ WF_proxyVars(Waits) /\ WF_proxyVars(Server(Answering))

----------------------------------------------------------------------------
\* The lines whose spend has been committed.
Committed == {s.line : s \in {x \in settled : x.outcome = "committed"}}

\* A reservation outlives its call only when execute refused to run it: while
\* the proxy reads, all are settled, and when it stops, the server was not
\* asked for the one left open.
OpenOnlyInCall ==
  \A line \in open :
    \/ pc = "wait" /\ awaited.call /\ awaited.line = line
    \/ pc = "stopped" /\ awaited.line # line

\* The result a tool call returns, and commits its spend for, is the server's
\* answer to that very call: the ids the proxy makes up keep it from taking
\* an answer, late or left over, to anything else.
CallAnswersAreTheirs ==
  \A i \in 1 .. Len(out) :
    out[i].line \in Committed => out[i].from = out[i].line

\* What keeps the two. A line is done with when the proxy has gone on to the
\* next, or waits for the answer to a later one.
Done(line) == line <= lines /\ (pc = "wait" => line < lines)

AllDone ==
  /\ \A i \in 1 .. Len(out) : Done(out[i].line)
  /\ \A s \in settled : Done(s.line)

LinesInv ==
  /\ ProxyTypeOK
  /\ OpenOnlyInCall
  /\ awaited.line <= lines
  /\ pc = "wait" => awaited.line = lines
  /\ AllDone

\* A request the proxy has numbered, or a message that answers one, is of a
\* call it has made; with the number awaited, of the call it waits for.
IsOfItsCall(x) ==
  x.id > FirstId =>
    /\ x.id <= nextId
    /\ pc = "wait" /\ awaited.call /\ x.id = nextId => x.line = lines

ProxyInv ==
  /\ LinesInv
  /\ CallAnswersAreTheirs
  /\ nextId >= FirstId
  /\ pc = "wait" /\ awaited.call => awaited.id = nextId /\ nextId > FirstId
  /\ \A x \in asked : IsOfItsCall(x)
  /\ \A i \in 1 .. Len(incoming) : IsOfItsCall(incoming[i])

\* The client and the server number their own requests below the proxy's.
IdsApart == \A id \in Ids : id <= FirstId

\* No message of the server, and no loss of it, keeps the proxy waiting.
WaitsEnd == pc = "wait" ~> pc # "wait"

\* A claim the code does not keep: spend is committed "when the tool reports
\* success, or returned when it fails".
FailedCallsAreReleased ==
  \A i \in 1 .. Len(out) :
    out[i].line \in Committed => out[i].kind # "failed"
=============================================================================
