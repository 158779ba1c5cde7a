--------------------------- MODULE BoshConnection ---------------------------
(***************************************************************************)
(* XMPP over HTTP: ConnectionBOSH wraps what a client sends into numbered  *)
(* requests, at most a window of them open at a time, over one TCP         *)
(* connection (pipelining) or a pool of them, and unwraps the answers of a *)
(* connection manager.                                                     *)
(*                                                                         *)
(* A call of the client or of recv() runs to its end on one thread, so it  *)
(* is one step, written as operators on the record of the connection in    *)
(* the order of the calls.  The client is gloox's: told of a disconnect it *)
(* cleans up, and told of its authentication it restarts the stream, both  *)
(* within the callback.                                                    *)
(*                                                                         *)
(* The manager reads requests in the order of their numbers and answers    *)
(* the oldest, at any time and with anything it has; it may close a        *)
(* connection after an answer, refuse a request or end the session.  A TCP *)
(* connection may break at any time.                                       *)
(***************************************************************************)
EXTENDS Integers, Sequences, SequencesExt, FiniteSetsExt, TLC

CONSTANTS
    Setups,         \* how a connection is configured, what its manager allows, and as
                    \* bounds how often it is made, TCP connections break and a client
                    \* sends a stanza, the first to authenticate
    RidMod,         \* bound: requests are numbered modulo this
    MaxConns,       \* bound: TCP connections
    MaxDown         \* bound: stanzas a manager sends

BoshAssumption ==
    /\ Setups \subseteq [mode : {"legacy", "persistent", "pipelining"}, window : Nat \ {0},
                         http10 : BOOLEAN, connects : Nat, breaks : Nat, up : Nat]
    /\ {RidMod, MaxConns, MaxDown} \subseteq Nat

VARIABLES
    bosh,           \* the members of ConnectionBOSH and its TCP connections
    manager         \* the connection manager
vars == <<bosh, manager>>

\* A TCP connection: what is on its way on it, how the peer has left it, and a
\* number that tells it from the one before it.
NewConn ==
    [state |-> "disconnected", socket |-> FALSE, cancel |-> TRUE, lost |-> "no",
     requests |-> <<>>, answers |-> <<>>, serial |-> 0]
\* told is what the client was told since connect(), sent what it has sent, wired
\* what of it went into requests; hasty says that it restarted the stream while data
\* waited, lossy that a request was lost with its connection, garbled that the buffer
\* mixes answers.  made, ok and use belong to a step.
NewBosh(mode) ==
    [state |-> "disconnected", mode |-> mode, rid |-> 0, open |-> 0, max |-> 2,
     restart |-> FALSE, sendBuffer |-> <<>>, buffer |-> <<>>, active |-> <<>>, pool |-> <<1>>,
     conn |-> [i \in 1 .. MaxConns + 1 |-> NewConn], conns |-> 1, connects |-> 0, breaks |-> 0,
     told |-> <<>>, sent |-> <<>>, wired |-> <<>>, hasty |-> FALSE, garbled |-> FALSE,
     lossy |-> FALSE, made |-> TRUE, ok |-> TRUE, use |-> 0]
\* open are the requests read and not answered, got and gave the stanzas read and sent.
NewManager(setup) ==
    [setup |-> setup, expects |-> 0, open |-> <<>>, got |-> <<>>,
     gave |-> <<>>, restarts |-> 0]

Init ==
    \E setup \in Setups : bosh = NewBosh(setup.mode) /\ manager = NewManager(setup)
-----------------------------------------------------------------------------
(***************************************************************************)
(* The TCP connections below, and what the client above does when told.    *)
(***************************************************************************)
Closed(tcp) == [NewConn EXCEPT !.serial = tcp.serial]
Cleanup(c) == [c EXCEPT !.state = "disconnected", !.conn = [i \in DOMAIN @ |-> Closed(@[i])]]
ToldDisconnect(c) == Cleanup([c EXCEPT !.told = Append(@, "disconnected")])

HandleDisconnect(c) ==
    IF c.state = "connecting" THEN ToldDisconnect(c)
    ELSE IF c.mode = "pipelining" THEN [c EXCEPT !.mode = "legacy"]
    ELSE c

\* A write on a connection the peer has closed is taken by the kernel and lost, on
\* one that was reset it fails.
TcpSend(c, i, request) ==
    LET tcp == c.conn[i]
    IN  IF ~tcp.socket THEN [c EXCEPT !.ok = FALSE]
        ELSE IF tcp.lost = "reset" THEN [HandleDisconnect(c) EXCEPT !.ok = FALSE]
        ELSE IF tcp.lost = "closed" THEN [c EXCEPT !.ok = TRUE, !.lossy = TRUE]
        ELSE [c EXCEPT !.ok = TRUE, !.conn[i].requests = Append(@, request)]
-----------------------------------------------------------------------------
(***************************************************************************)
(* Sending.  made says whether a TCP connection can be made in this step,  *)
(* use is what getConnection() returned, 0 for none, and ok whether the    *)
(* request was sent.                                                       *)
(***************************************************************************)
RECURSIVE SendRequest(_, _)

\* A first TCP connection was made: it asks for the session.
HandleConnect(c) ==
    IF c.state # "connecting" THEN c
    ELSE SendRequest([c EXCEPT !.rid = 0], [rid |-> 0, kind |-> "session", data |-> <<>>])

TcpConnect(c, i) ==
    LET tcp == c.conn[i]
    IN  IF tcp.socket /\ tcp.state # "disconnected" THEN c
        ELSE IF ~c.made THEN HandleDisconnect([c EXCEPT !.conn[i].state = "connecting"])
        ELSE HandleConnect([c EXCEPT !.conn[i] =
                [NewConn EXCEPT !.state = "connected", !.socket = TRUE, !.cancel = FALSE,
                                !.serial = 1 - tcp.serial]])

\* A connection that has to be made is left in the pool, for the next call to use.
ActivateConnection(c) ==
    LET i == Head(c.pool)
    IN  IF c.conn[i].state = "connected"
        THEN [c EXCEPT !.pool = Tail(@), !.active = Append(@, i), !.use = i]
        ELSE [TcpConnect([c EXCEPT !.pool = Append(Tail(@), i)], i) EXCEPT !.use = 0]
NewInstance(c) ==
    [TcpConnect([c EXCEPT !.conns = @ + 1, !.pool = <<c.conns + 1>>], c.conns + 1)
        EXCEPT !.use = 0]

CanOpenMore(c) ==           \* mutant: one request too many may be open
    ~(c.open > 0 /\ c.open > c.max)
CanOpen(c) == ~(c.open > 0 /\ c.open >= c.max)

GetConnection(c) ==
    IF ~CanOpen(c) THEN [c EXCEPT !.use = 0]
    ELSE IF c.mode = "pipelining" /\ c.active # <<>> THEN [c EXCEPT !.use = Head(c.active)]
    ELSE IF c.pool # <<>> THEN ActivateConnection(c)
    ELSE IF c.mode # "pipelining" /\ c.active # <<>> THEN NewInstance(c)
    ELSE [c EXCEPT !.use = 0]

SendOver(c, body) ==
    IF c.use = 0 THEN [c EXCEPT !.ok = FALSE] ELSE TcpSend(c, c.use, body)
Counted(sent) == [sent EXCEPT !.open = IF sent.ok THEN @ + 1 ELSE @]
SendRequest(c, body) == Counted(SendOver(GetConnection(c), body))

NextRid(c) == (c.rid + 1) % RidMod

\* What was not sent stays in the buffer, and its number is used again.
UnsentForgetting(c, tried) ==   \* mutant: what was not sent is not kept
    [tried EXCEPT !.rid = c.rid, !.sendBuffer = <<>>]
Unsent(c, tried) == [tried EXCEPT !.rid = c.rid]

Payload(c) == IF c.restart THEN <<>> ELSE c.sendBuffer
Tried(c, tried) ==
    IF tried.ok
    THEN [tried EXCEPT !.wired = @ \o Payload(c), !.sendBuffer = <<>>, !.restart = FALSE]
    ELSE Unsent(c, tried)
SendXML(c) ==
    IF c.state # "connected" THEN c
    ELSE Tried(c, SendRequest([c EXCEPT !.rid = NextRid(c)],
                              [rid |-> NextRid(c), data |-> Payload(c),
                               kind |-> IF c.restart THEN "restart" ELSE "data"]))

\* send(): the opening of a stream is not sent but asked for.
SendStream(c) ==
    IF c.state = "disconnected" THEN c
    ELSE SendXML([c EXCEPT !.restart = TRUE, !.hasty = @ \/ c.sendBuffer # <<>>])
SendData(c, item) ==
    SendXML([c EXCEPT !.sendBuffer = Append(@, item), !.sent = Append(@, item),
                      !.hasty = @ \/ c.restart])
-----------------------------------------------------------------------------
(***************************************************************************)
(* Receiving.                                                              *)
(***************************************************************************)
\* disconnect(): the last request carries what has not been sent, if it can be sent.
Flushed(c, tried) ==
    [tried EXCEPT !.wired = IF tried.ok THEN @ \o c.sendBuffer ELSE @, !.sendBuffer = <<>>]
Terminated(c) ==
    Flushed(c, SendRequest([c EXCEPT !.rid = NextRid(c)],
                           [rid |-> NextRid(c), kind |-> "terminal", data |-> c.sendBuffer]))
Disconnected(c) ==
    IF c.active = <<>> /\ (c.mode = "pipelining" \/ c.pool = <<>>) THEN c
    ELSE ToldDisconnect(IF c.state # "disconnected" THEN Terminated(c) ELSE c)

PutConnection(c) ==
    LET i == Head(c.active)
    IN  IF c.active = <<>> THEN [c EXCEPT !.garbled = TRUE]
        ELSE IF c.mode = "pipelining" THEN c
        ELSE [c EXCEPT !.active = Tail(@), !.pool = Append(@, i),
                       !.conn[i] = IF c.mode = "legacy" THEN Closed(@) ELSE @]

\* A stanza reaches the client, who restarts the stream once it is authenticated.
Deliver(c, item) ==
    LET told == [c EXCEPT !.told = Append(@, item)]
    IN  IF item = "success" THEN SendStream(told) ELSE told

\* The client is shown the opening of a stream when it waits for one.
Opened(c) ==
    IF c.restart THEN [c EXCEPT !.restart = FALSE, !.told = Append(@, "stream")] ELSE c
Begun(c, tag) ==
    IF tag.kind # "session" THEN c
    ELSE [c EXCEPT !.state = "connected", !.max = Min({@, tag.requests}),
                   !.told = Append(@, "stream")]
Handled(c, tag) ==
    IF tag.kind = "terminate" THEN ToldDisconnect(c) ELSE FoldLeft(Deliver, c, tag.data)
HandleTag(c, tag) == IF tag.kind = "html" THEN c ELSE Handled(Begun(Opened(c), tag), tag)

\* handleReceivedData(): the answers in the buffer, each a header and, behind it, a body.
Closing(c, header) ==
    [c EXCEPT !.mode = IF header.length /\ header.close THEN "legacy" ELSE @]
Consider(c, header) ==
    Closing(IF header.status = "200" THEN c ELSE Disconnected([c EXCEPT !.state = "disconnected"]),
            header)
AnswerReadTwice(c, tag) ==      \* mutant: a body is handled as it is parsed and as it is taken off
    [HandleTag(HandleTag([PutConnection(c) EXCEPT !.open = @ - 1], tag), tag)
        EXCEPT !.buffer = SubSeq(@, 3, Len(@))]
AnswerRead(c, tag) ==
    [HandleTag([PutConnection(c) EXCEPT !.open = @ - 1], tag) EXCEPT !.buffer = SubSeq(@, 3, Len(@))]
RECURSIVE ReadBuffer(_)
ReadBody(c, buffer) ==
    IF ~buffer[1].length \/ Len(buffer) = 1 THEN c
    ELSE IF buffer[2].part # "body" THEN [c EXCEPT !.garbled = TRUE]
    ELSE ReadBuffer(AnswerRead(c, buffer[2]))
ReadBuffer(c) ==
    IF c.buffer = <<>> THEN c ELSE ReadBody(Consider(c, c.buffer[1]), c.buffer)

\* recv() of a TCP connection, of which n parts of an answer have come.
Readable(c, i) == c.conn[i].socket /\ ~c.conn[i].cancel
TcpRecv(c, i, n) ==
    LET tcp == c.conn[i]
        got == Min({n, Len(tcp.answers)})
    IN  IF ~Readable(c, i) THEN c
        ELSE IF got > 0
             THEN ReadBuffer([c EXCEPT !.buffer = @ \o SubSeq(tcp.answers, 1, got),
                                       !.conn[i].answers = SubSeq(@, got + 1, Len(@))])
        ELSE IF tcp.lost # "no" THEN HandleDisconnect(c)
        ELSE c
-----------------------------------------------------------------------------
(***************************************************************************)
(* The calls of the client.                                                *)
(***************************************************************************)
\* The requests that the manager still has a connection for.
Alive(c, r) == c.conn[r.conn].socket /\ c.conn[r.conn].serial = r.serial
                  /\ c.conn[r.conn].lost = "no"
After(c) ==
    /\ c.conns <= MaxConns /\ ~bosh.garbled
    /\ LET open == SelectSeq(manager.open, LAMBDA r : Alive(c, r))
       IN  /\ manager' = [manager EXCEPT !.open = open]
           /\ bosh' = [c EXCEPT !.made = TRUE, !.ok = TRUE, !.use = 0,
                                !.lossy = @ \/ open # manager.open]

\* What an earlier session has left in the buffer is sent in this one.
Connect ==
    /\ bosh.state = "disconnected" /\ bosh.connects < manager.setup.connects
    /\ \E made \in BOOLEAN :
          After(GetConnection([bosh EXCEPT !.state = "connecting", !.connects = @ + 1,
                                           !.made = made, !.told = <<>>, !.hasty = FALSE,
                                           !.sent = bosh.sendBuffer, !.wired = <<>>]))

Send ==
    /\ bosh.state = "connected" /\ Len(bosh.sent) < manager.setup.up
    /\ \E made \in BOOLEAN :
          After(SendData([bosh EXCEPT !.made = made], Len(bosh.sent) + 1))

Disconnect == bosh.state # "disconnected" /\ After(Disconnected(bosh))

\* recv(): the first connection of the pool and the first active one are read, and what
\* has been waiting is sent.
RecvFirst(c, conns, n) == IF conns = <<>> THEN c ELSE TcpRecv(c, Head(conns), n)
RecvActive(c, n) == RecvFirst(c, c.active, n)
SendWaiting(c) == IF c.open = 0 \/ c.sendBuffer # <<>> THEN SendXML(c) ELSE c
Recv ==
    /\ bosh.state # "disconnected"
    /\ \E made \in BOOLEAN, n \in 1 .. 2 :
          After(SendWaiting(RecvActive(RecvFirst([bosh EXCEPT !.made = made], bosh.pool, n), n)))
-----------------------------------------------------------------------------
(***************************************************************************)
(* The connection manager, and the network.                                *)
(***************************************************************************)
Conns == 1 .. MaxConns
Serving(i) == bosh.conn[i].socket /\ bosh.conn[i].lost = "no"

ReadRequest(i) ==
    /\ Serving(i) /\ bosh.conn[i].requests # <<>>
    /\ LET r == Head(bosh.conn[i].requests)
           m == IF r.kind = "session" THEN NewManager(manager.setup) ELSE manager
       IN  /\ r.rid = m.expects
           /\ manager' = [m EXCEPT
                 !.expects = (@ + 1) % RidMod, !.got = @ \o r.data,
                 !.restarts = IF r.kind = "restart" THEN @ + 1 ELSE @,
                 !.open = Append(@, [conn |-> i, serial |-> bosh.conn[i].serial, kind |-> r.kind])]
    /\ bosh' = [bosh EXCEPT !.conn[i].requests = Tail(@)]

\* The oldest request is answered, and its connection perhaps closed.
Answered(status, length, tag, gave) ==
    LET r == Head(manager.open)
        i == r.conn
        rest == Tail(manager.open)
    IN  \E close \in IF manager.setup.http10 THEN {TRUE} ELSE BOOLEAN :
          LET kept == IF close THEN SelectSeq(rest, LAMBDA o : o.conn # i) ELSE rest
              header == [part |-> "header", status |-> status, close |-> close, length |-> length]
          IN  /\ bosh' = [bosh EXCEPT
                    !.conn[i].answers = @ \o (IF length THEN <<header, tag>> ELSE <<header>>),
                    !.conn[i].lost = IF close THEN "closed" ELSE @,
                    !.conn[i].requests = IF close THEN <<>> ELSE @,
                    !.lossy = @ \/ (close /\ (kept # rest \/ bosh.conn[i].requests # <<>>))]
              /\ manager' = [manager EXCEPT !.open = kept, !.gave = @ \o gave]
Tag(kind, data) == [part |-> "body", kind |-> kind, requests |-> manager.setup.window, data |-> data]

Given == Len(SelectSeq(manager.gave, LAMBDA s : s # "success"))
Stanzas ==
    (IF Given < MaxDown THEN {<<ToString(Given + 1)>>} ELSE {})
        \cup (IF Contains(manager.got, 1) /\ ~Contains(manager.gave, "success")
              THEN {<<"success">>} ELSE {})
Answer ==
    /\ manager.open # <<>>
    /\ IF Head(manager.open).kind = "session" THEN Answered("200", TRUE, Tag("session", <<>>), <<>>)
       ELSE \E data \in Stanzas \cup {<<>>} : Answered("200", TRUE, Tag("data", data), data)
EndSession ==
    /\ manager.open # <<>> /\ Answered("200", TRUE, Tag("terminate", <<>>), <<>>)
Refuse ==
    /\ manager.open # <<>>
    /\ \E length \in BOOLEAN : Answered("404", length, Tag("html", <<>>), <<>>)

Break(i) ==
    /\ Serving(i) /\ bosh.breaks < manager.setup.breaks
    /\ \E how \in {"closed", "reset"} :
          bosh' = [bosh EXCEPT !.breaks = @ + 1, !.lossy = TRUE,
                               !.conn[i].lost = how, !.conn[i].requests = <<>>,
                               !.conn[i].answers = IF how = "reset" THEN <<>> ELSE @]
    /\ manager' = [manager EXCEPT !.open = SelectSeq(@, LAMBDA o : o.conn # i)]

Client == Connect \/ Send \/ Disconnect \/ Recv
Manager == (\E i \in Conns : ReadRequest(i)) \/ Answer \/ EndSession \/ Refuse
Next == Client \/ Manager \/ (\E i \in Conns : Break(i))

Spec == Init /\ [][Next]_vars
-----------------------------------------------------------------------------
(***************************************************************************)
(* Properties.                                                             *)
(***************************************************************************)
Told == SelectSeq(bosh.told, LAMBDA s : s \notin {"stream", "disconnected"})

\* What the client has sent is on its way or in the buffer, each once and in order,
\* and the manager reads it in order: whatever requests fail and are tried again, how
\* few may be open and how many connections are used, unless the client restarts the
\* stream while data waits, which is then thrown away (sendXML).
NothingLostUp ==
    bosh.state = "connected" /\ ~bosh.hasty =>
        /\ bosh.wired \o bosh.sendBuffer = bosh.sent
        /\ IsPrefix(manager.got, bosh.wired)

\* What the manager has sent reaches the client in order, each once, however the
\* answers are cut and whichever connection brings them, and within one session the
\* one buffer never mixes answers of two connections, nor does an answer come when
\* no connection is waiting for one (handleReceivedData, putConnection).
InOrderDown ==
    /\ bosh.state = "connected" => IsPrefix(Told, manager.gave)
    /\ bosh.connects <= 1 => ~bosh.garbled

\* Not more requests are open than the manager allows, once it has said so, and the
\* count of them is true as long as none was lost with its connection (sendRequest).
Headers(units) == Len(SelectSeq(units, LAMBDA u : u.part = "header"))
Outstanding ==
    Len(manager.open) + Headers(bosh.buffer)
        + FoldFunction(LAMBDA tcp, n : Len(tcp.requests) + Headers(tcp.answers) + n, 0, bosh.conn)
WindowKept ==
    bosh.connects = 1 /\ bosh.state # "disconnected" =>
        /\ bosh.open <= bosh.max
        /\ ~bosh.lossy => bosh.open = Outstanding
=============================================================================
