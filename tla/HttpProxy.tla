----------------------------- MODULE HttpProxy -----------------------------
(***************************************************************************)
(* ConnectionHTTPProxy: a client asks an HTTP proxy for a connection to    *)
(* its server, and then speaks to the server through it.  A call of the    *)
(* client or of recv() is one step, written as operators on the record of  *)
(* the connection.  The answer of the proxy is cut into units where        *)
(* handleReceivedData() looks, and TCP delivers any number of them at a    *)
(* time.  The proxy, the server behind it and TCP are external.            *)
(***************************************************************************)
EXTENDS Integers, Sequences, SequencesExt, Functions

CONSTANTS
    Statuses,       \* what the proxy may answer
    MaxConnects,    \* bound: calls of connect()
    MaxData         \* bound: what the server says, in units

ProxyAssumption ==
    Statuses \subseteq {"200", "403", "404", "407", "500"} /\ {MaxConnects, MaxData} \subseteq Nat

VARIABLES
    proxied,        \* ConnectionHTTPProxy and the TCP connection below it
    proxy           \* the proxy, and what the server has said
vars == <<proxied, proxy>>

\* handshake is m_proxyHandshakeBuffer; socket and cancel are those of the TCP connection,
\* wire and out what is on its way.  told lists the calls of the handler since connect();
\* stale says that connect() found an old answer in the handshake buffer, thrown that a
\* comparison began behind the end of the buffer, which throws.
NewProxied ==
    [state |-> "disconnected", handshake |-> <<>>, socket |-> FALSE, cancel |-> TRUE,
     lost |-> "no", wire |-> <<>>, out |-> <<>>, told |-> <<>>, connects |-> 0,
     stale |-> FALSE, thrown |-> FALSE]
NewProxy == [status |-> "none", said |-> 0]

Init == proxied = NewProxied /\ proxy = NewProxy
-----------------------------------------------------------------------------
\* The units of an answer: the protocol is eight octets long, the space one, the status
\* three, and the blank line ends it.
AnswerOf(status) == <<"HTTP/1", "space", status, "headers", "blank line">>

TcpClosed(c) == [c EXCEPT !.socket = FALSE, !.cancel = TRUE, !.wire = <<>>, !.out = <<>>, !.lost = "no"]
Cleanup(c) == [TcpClosed(c) EXCEPT !.state = "disconnected"]
\* Told of a disconnect, the client cleans up.
ToldDisconnect(c, reason) == Cleanup([c EXCEPT !.told = Append(@, reason)])
HandleDisconnect(c, reason) == ToldDisconnect([c EXCEPT !.state = "disconnected"], reason)

\* A write that fails is told by TCP and then again by the proxy.
HandleConnect(c) ==
    IF c.lost = "reset"
    THEN ToldDisconnect([HandleDisconnect(c, "closed") EXCEPT !.state = "disconnected"], "closed")
    ELSE [c EXCEPT !.out = Append(@, "CONNECT")]

AcceptsEarly(buffer) ==         \* mutant: the status is enough
    IsPrefix(<<"HTTP/1", "space", "200">>, buffer)
Accepts(buffer) ==
    IsPrefix(<<"HTTP/1", "space", "200">>, buffer) /\ Last(buffer) = "blank line"
\* What compare() finds at the tenth octet, which there has to be.
StatusIn(buffer, status) == Len(buffer) >= 3 /\ buffer[3] = status
TooShort(buffer) == Len(buffer) < 2

Refused(c, reason) == [ToldDisconnect(c, reason) EXCEPT !.cancel = TRUE]
HandleReceivedData(c, units) ==
    LET handshake == c.handshake \o units
        kept == [c EXCEPT !.handshake = handshake]
    IN  CASE c.state = "connecting" ->
               (IF Accepts(handshake)
                THEN [c EXCEPT !.handshake = <<>>, !.state = "connected", !.told = Append(@, "connected")]
                ELSE IF TooShort(handshake) THEN [kept EXCEPT !.thrown = TRUE]
                ELSE IF StatusIn(handshake, "407") THEN Refused(kept, "authentication")
                ELSE IF \E s \in {"403", "404"} : StatusIn(handshake, s) THEN Refused(kept, "refused")
                ELSE kept)
          [] c.state = "connected" -> [c EXCEPT !.told = @ \o units]
          [] OTHER -> c
-----------------------------------------------------------------------------
\* TCP connects, or cannot; or its peer resets it before the first write.
Connect ==
    /\ proxied.state = "disconnected" /\ ~proxied.thrown /\ proxied.connects < MaxConnects
    /\ LET begun == [proxied EXCEPT !.state = "connecting", !.connects = @ + 1, !.told = <<>>,
                                    !.stale = proxied.handshake # <<>>]
       IN  \/ \E lost \in {"no", "reset"} :
                 proxied' = IF begun.socket THEN begun
                            ELSE HandleConnect([begun EXCEPT !.socket = TRUE, !.cancel = FALSE, !.lost = lost])
           \/ ~begun.socket /\ proxied' = HandleDisconnect(begun, "closed")
    /\ proxy' = IF proxied.socket THEN proxy ELSE NewProxy

\* disconnect() leaves the socket to the cleanup() that follows it in the client.
Disconnect ==
    /\ proxied.state # "disconnected" /\ ~proxied.thrown
    /\ proxied' = [proxied EXCEPT !.state = "disconnected", !.cancel = TRUE]
    /\ UNCHANGED proxy
CleanUp ==
    /\ proxied.socket /\ proxied.cancel /\ proxied' = Cleanup(proxied) /\ UNCHANGED proxy

Recv ==
    /\ proxied.socket /\ ~proxied.cancel /\ ~proxied.thrown
    /\ IF proxied.wire # <<>>
       THEN \E n \in 1 .. Len(proxied.wire) :
               proxied' = HandleReceivedData([proxied EXCEPT !.wire = SubSeq(@, n + 1, Len(@))],
                                             SubSeq(proxied.wire, 1, n))
       ELSE proxied.lost # "no" /\ proxied' = HandleDisconnect(proxied, "closed")
    /\ UNCHANGED proxy

ProxyAnswers ==
    /\ proxied.out # <<>> /\ proxied.lost = "no"
    /\ \E status \in Statuses :
          /\ proxied' = [proxied EXCEPT !.out = <<>>, !.wire = @ \o AnswerOf(status)]
          /\ proxy' = [proxy EXCEPT !.status = status]
\* The server waits for the stream of the client.
ServerSays ==
    /\ proxied.state = "connected" /\ proxied.lost = "no" /\ proxy.said < MaxData
    /\ proxied' = [proxied EXCEPT !.wire = Append(@, "data")]
    /\ proxy' = [proxy EXCEPT !.said = @ + 1]
Break ==
    /\ proxied.socket /\ proxied.lost = "no" /\ ~proxied.thrown
    /\ proxied' = [proxied EXCEPT !.lost = "closed"] /\ UNCHANGED proxy

Next ==
    Connect \/ Disconnect \/ CleanUp \/ Recv \/ ProxyAnswers \/ ServerSays \/ Break

Spec == Init /\ [][Next]_vars
-----------------------------------------------------------------------------
\* The client is told that it is connected once the proxy has accepted, and of a refusal
\* when the proxy refused; when all has come, it is connected if it was accepted, and has
\* what the server said and nothing of the proxy's answer; an answer is not understood
\* only if an earlier one, refused or cut short, is still in the buffer, which only an
\* acceptance empties, or if its first eight octets came alone (handleReceivedData).
Came == proxied.socket /\ proxied.wire = <<>> /\ ~proxied.thrown /\ ~proxied.cancel
ProxyTellsTruth ==
    /\ Contains(proxied.told, "connected") => proxied.stale \/ proxy.status = "200"
    /\ \A reason \in {"authentication", "refused"} :
          Contains(proxied.told, reason) =>
              proxied.stale \/ proxy.status \in (IF reason = "refused" THEN {"403", "404"} ELSE {"407"})
    /\ Came /\ proxy.status = "200" /\ ~proxied.stale =>
          proxied.told = <<"connected">> \o [i \in 1 .. proxy.said |-> "data"]
    /\ proxied.told # <<>> /\ Head(proxied.told) = "connected" =>
          \A i \in 2 .. Len(proxied.told) :
             proxied.told[i] = "data" \/ (i = Len(proxied.told) /\ proxied.told[i] = "closed")
=============================================================================
