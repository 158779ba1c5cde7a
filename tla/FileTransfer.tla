---------------------------- MODULE FileTransfer ----------------------------
(***************************************************************************)
(* File transfer between two programs that both use gloox: the initiator   *)
(* "I" offers a file, the target "T" takes it or not (SIProfileFT on       *)
(* SIManager), and a stream is opened between them: in-band, as requests   *)
(* through the XMPP server (InBandBytestream), or over TCP                 *)
(* (SOCKS5BytestreamManager, SOCKS5Bytestream, ConnectionSOCKS5Proxy),     *)
(* where the stream host is a server within the initiator's own program    *)
(* (SOCKS5BytestreamServer) or a proxy.                                    *)
(*                                                                         *)
(* Stanzas arrive in order, but TCP connections run beside them and break. *)
(* Both applications connect, send, close and dispose of their streams     *)
(* whenever the interface lets them.  A handler is an operator on the      *)
(* state of the transfer, for handlers call each other.                    *)
(***************************************************************************)
EXTENDS Naturals, Sequences, SequencesExt

CONSTANTS
    Sids,           \* files offered
    Hostings,       \* the stream hosts of the initiator, and whether its server is registered
    SeqLimit,       \* 65536, the numbers of in-band data
    MaxChunks       \* bound: pieces sent over one stream by either party

TransferAssumption ==
    /\ SeqLimit \in Nat \ {0} /\ \A p \in {"I", "T"} : MaxChunks[p] \in Nat
    /\ \A h \in Hostings : h.hosts \in Seq({"self", "proxy"})

VARIABLES
    hosting,        \* [hosts, server]
    ft              \* the state of the transfers
transferVars == <<hosting, ft>>

Parties == {"I", "T"}
Other(p) == IF p = "I" THEN "T" ELSE "I"

\* A stream: next is the number after m_sequence and due the one after m_lastChunkReceived;
\* link is its TCP connection.
NoStream == [kind |-> "none", open |-> FALSE, next |-> 0, due |-> 0,
             connected |-> FALSE, s5 |-> "disconnected"]
Everywhere(x) == [p \in Parties |-> [s \in Sids |-> x]]

\* offers is SIManager's m_track, requests SIProfileFT's m_id2sid; track and async are the
\* m_trackMap and m_asyncTrackMap of the SOCKS5 managers, ibbs the in-band streams of the target as
\* they were registered, server the state of a connection in SOCKS5BytestreamServer, host
\* what the target is connected to and relays whether the proxy is activated.  box are
\* the stanzas and pipe the bytes under way to a party.  log is what an application was
\* told and did, got and sent what went over a stream.
TransferInit ==
    /\ hosting \in Hostings
    /\ ft = [offers |-> {}, requests |-> {}, track |-> {},
             async |-> [p \in Parties |-> {}], ibbs |-> <<>>,
             bs |-> Everywhere(NoStream), link |-> Everywhere("none"),
             server |-> [s \in Sids |-> "none"], host |-> [s \in Sids |-> "none"],
             relays |-> {},
             box |-> [p \in Parties |-> <<>>], pipe |-> Everywhere(<<>>),
             log |-> Everywhere({}), got |-> Everywhere(<<>>), sent |-> Everywhere(<<>>)]
-----------------------------------------------------------------------------
Tell(f, p, s, e) ==
    [f EXCEPT !.log[p][s] = @ \cup {e} \cup IF "close" \notin @ THEN {}
                                           ELSE IF e = "close" THEN {"reclosed"}
                                           ELSE IF e = "open" THEN {"revived"} ELSE {}]
Given(f, p, s, data) ==
    [f EXCEPT !.got[p][s] = Append(@, data),
              !.log[p][s] = @ \cup IF "close" \in @ THEN {"revived"} ELSE {}]
Post(f, p, m) == [f EXCEPT !.box[p] = Append(@, m)]
Has(p, s, e) == e \in ft.log[p][s]
Exists(f, p, s) == f.bs[p][s].kind \in {"ibb", "s5b"}
NewStream(f, p, s, kind) ==
    Tell([f EXCEPT !.bs[p][s] = [NoStream EXCEPT !.kind = kind]], p, s, "stream")
-----------------------------------------------------------------------------
(***************************************************************************)
(* TCP.                                                                    *)
(***************************************************************************)
\* Who hears what p writes: the other end, or through the proxy once it relays.
Joined(f, s) == f.host[s] = "self" \/ s \in f.relays
Hears(f, p, s) == Joined(f, s) /\ f.link[Other(p)][s] = "up"
Write(f, p, s, unit) ==
    IF Hears(f, p, s) THEN [f EXCEPT !.pipe[Other(p)][s] = Append(@, unit)] ELSE f
\* The connection of p is still there, whether p has noticed or not.
Alive(f, p, s) == f.link[p][s] = "up" /\ ~Contains(f.pipe[p][s], <<"eof">>)
\* A socket is closed.
CloseLink(f, p, s) ==
    IF f.link[p][s] \in {"none", "closed"} THEN f
    ELSE Write([f EXCEPT !.link[p][s] = "closed", !.pipe[p][s] = <<>>], p, s, <<"eof">>)

\* The proxy answers at once: it accepts everybody, or refuses.
ToProxy(f, p, s, unit) ==
    {[f EXCEPT !.pipe[p][s] = Append(@, answer)] :
        answer \in IF unit = <<"greet">> THEN {<<"method">>, <<"refused">>} ELSE {<<"ok">>, <<"fail">>}}
Negotiate(f, p, s, unit) ==
    IF p = "T" /\ f.host[s] = "self" THEN {Write(f, p, s, unit)} ELSE ToProxy(f, p, s, unit)
-----------------------------------------------------------------------------
(***************************************************************************)
(* SOCKS5Bytestream and ConnectionSOCKS5Proxy.                             *)
(***************************************************************************)
\* The stream stays open for whoever asks it.
HandleDisconnect(f, p, s) ==
    LET g == [f EXCEPT !.bs[p][s].s5 = "disconnected"]
    IN  IF f.bs[p][s].connected THEN Tell(g, p, s, "close") ELSE g

\* An error while negotiating: disconnect() only keeps recv() from reading on.
ConnError(f, p, s) ==
    LET g == [f EXCEPT !.link[p][s] = "cancelled", !.pipe[p][s] = <<>>]
    IN  IF f.bs[p][s].connected THEN Tell(g, p, s, "close") ELSE g

\* Of the hosts the first one is taken that can be connected to.  When none can, the
\* acknowledgement is for a stream without a name, and nobody is sent one.
HostsFor(f, p, s) ==
    IF p = "T" THEN hosting.hosts ELSE IF f.host[s] = "self" THEN <<>> ELSE <<"proxy">>
ProxyConnect(f, p, s, h) ==
    LET g == [f EXCEPT !.bs[p][s].connected = TRUE, !.bs[p][s].s5 = "connecting", !.link[p][s] = "up"]
        named == [g EXCEPT !.host[s] = h]
    IN  Negotiate(IF p = "I" THEN g
                  ELSE IF h = "proxy" THEN named
                  ELSE [named EXCEPT !.server[s] = "unnegotiated", !.link["I"][s] = "up"],
                  p, s, <<"greet">>)
S5BConnect(f, p, s) ==
    IF f.bs[p][s].open THEN {f}
    ELSE {IF HostsFor(f, p, s) = <<>> THEN f
          ELSE HandleDisconnect([f EXCEPT !.bs[p][s].connected = TRUE], p, s)} \cup
         UNION {ProxyConnect(f, p, s, HostsFor(f, p, s)[i]) : i \in DOMAIN HostsFor(f, p, s)}

S5BActivate(f, p, s) == Tell([f EXCEPT !.bs[p][s].open = TRUE], p, s, "open")

ProxyCleanup(f, p, s) == CloseLink([f EXCEPT !.bs[p][s].s5 = "disconnected"], p, s)
S5BClose(f, p, s) ==
    IF ~f.bs[p][s].open THEN f
    ELSE Tell(ProxyCleanup([f EXCEPT !.bs[p][s] = [@ EXCEPT !.open = FALSE, !.connected = FALSE]], p, s),
              p, s, "close")

S5BReceivedSwallowing(f, p, s, c) ==      \* mutant: what opens the stream is taken for a signal
    {IF f.bs[p][s].open THEN Given(f, p, s, c) ELSE S5BActivate(f, p, s)}
\* An application that is told that the stream is open may close it at once.
S5BReceived(f, p, s, c) ==
    IF f.bs[p][s].open THEN {Given(f, p, s, c)}
    ELSE LET g == S5BActivate(f, p, s)
         IN  {Given(g, p, s, c), S5BClose(Tell(g, p, s, "closes"), p, s)}

\* The target tells the initiator which host it uses; the initiator has the proxy activated.
AcknowledgeStreamHost(f, p, s) ==
    IF s \notin f.async[p] THEN {f}
    ELSE IF p = "T" THEN {Post(f, "I", [kind |-> "hostUsed", sid |-> s])}
    ELSE LET g == [f EXCEPT !.track = @ \cup {[sid |-> s, context |-> "activate"]}]
         IN  {Post(g, "I", [kind |-> "activateError", sid |-> s])} \cup
             IF ~Alive(f, "T", s) THEN {}
             ELSE {Post([g EXCEPT !.relays = @ \cup {s}], "I", [kind |-> "activated", sid |-> s])}

\* What ConnectionSOCKS5Proxy makes of what it reads.  It expects every message of the
\* negotiation in one piece; a piece of the first answer it takes for consent, and
\* for an error.  Of the second answer six bytes are enough; what is left of it is read
\* as data, and less is an error.
Rest == <<"rest">>
ProxyHandle(f, p, s, unit, cut) ==
    CASE unit = <<"eof">> ->
           {HandleDisconnect([f EXCEPT !.link[p][s] = "closed", !.pipe[p][s] = <<>>], p, s)}
      [] unit # <<"eof">> /\ f.bs[p][s].s5 = "connecting" ->
           IF cut
           THEN {ConnError([g EXCEPT !.bs[p][s].s5 = "negotiating"], p, s) :
                    g \in Negotiate(f, p, s, <<"request">>)}
           ELSE IF unit = <<"method">>
           THEN Negotiate([f EXCEPT !.bs[p][s].s5 = "negotiating"], p, s, <<"request">>)
           ELSE {ConnError(f, p, s)}
      [] unit # <<"eof">> /\ f.bs[p][s].s5 = "negotiating" ->
           LET g == [f EXCEPT !.bs[p][s].s5 = "connected"]
               torn == Tell([g EXCEPT !.pipe[p][s] = <<Rest>> \o @], p, s, "torn")
           IN  (IF unit = <<"ok">> THEN AcknowledgeStreamHost(IF cut THEN torn ELSE g, p, s) ELSE {})
               \cup (IF cut \/ unit # <<"ok">> THEN {ConnError(f, p, s)} ELSE {})
      [] unit # <<"eof">> /\ f.bs[p][s].s5 = "connected" -> S5BReceived(f, p, s, unit)
      [] OTHER -> {f}
-----------------------------------------------------------------------------
(***************************************************************************)
(* SOCKS5BytestreamServer.                                                 *)
(***************************************************************************)
Hashed(f, s) == hosting.server /\ s \in f.async["I"]
Reply(f, s, unit, state) == Write([f EXCEPT !.server[s] = state], "I", s, <<unit>>)
ServerHandle(f, s, unit, cut) ==
    CASE unit = <<"eof">> -> [f EXCEPT !.server[s] = "gone", !.link["I"][s] = "closed",
                                   !.pipe["I"][s] = <<>>]
      [] unit # <<"eof">> /\ f.server[s] = "unnegotiated" ->
           IF cut THEN Reply(f, s, "refused", "disconnected")
           ELSE Reply(f, s, "method", "authAccepted")
      [] unit # <<"eof">> /\ f.server[s] = "authAccepted" ->
           IF cut \/ ~Hashed(f, s) THEN Reply(f, s, "fail", "disconnected")
           ELSE Reply(f, s, "ok", "accepted")
      [] unit # <<"eof">> /\ f.server[s] = "disconnected" ->
           [f EXCEPT !.link["I"][s] = "cancelled", !.pipe["I"][s] = <<>>]
      [] OTHER -> f

Serving(f, p, s) == p = "I" /\ f.server[s] \notin {"none", "taken", "gone"}
\* A program reads what a connection has for it.
Read(p, s) ==
    /\ ft.link[p][s] = "up" /\ ft.pipe[p][s] # <<>>
    /\ LET unit == Head(ft.pipe[p][s])
           f == [ft EXCEPT !.pipe[p][s] = Tail(@)]
       IN  \E cut \in {FALSE} \cup {unit[1] \notin {"data", "rest", "eof"}} :
              IF Serving(ft, p, s) THEN ft' = ServerHandle(f, s, unit, cut)
              ELSE ft' \in ProxyHandle(f, p, s, unit, cut)
    /\ UNCHANGED hosting

\* The network loses a connection.
BreakTcp ==
    /\ \E s \in Sids :
         LET up == {p \in Parties : Alive(ft, p, s)}
             ended(p) == IF p \in up THEN Append(ft.pipe[p][s], <<"eof">>) ELSE ft.pipe[p][s]
         IN  /\ up # {}
             /\ ft' = [ft EXCEPT !.pipe = [p \in Parties |-> [ft.pipe[p] EXCEPT ![s] = ended(p)]],
                                !.relays = @ \ {s}]
    /\ UNCHANGED hosting
-----------------------------------------------------------------------------
(***************************************************************************)
(* InBandBytestream.                                                       *)
(***************************************************************************)
\* The stream of the target is made with itself for a target, so what the target
\* sends comes back to it.
IBBAsk(f, p, s, kind) == Post(f, "T", [kind |-> kind, sid |-> s, from |-> p])

IBBClosedAlways(f, p, s) ==      \* mutant: told again although it is closed
    Tell([f EXCEPT !.bs[p][s].open = FALSE], p, s, "close")
IBBClosed(f, p, s) ==
    IF ~f.bs[p][s].open THEN f ELSE Tell([f EXCEPT !.bs[p][s].open = FALSE], p, s, "close")
IBBCloseLocal(f, p, s) ==      \* mutant: the other is not asked to close
    Tell([f EXCEPT !.bs[p][s].open = FALSE], p, s, "close")
IBBClose(f, p, s) ==
    Tell(IBBAsk([f EXCEPT !.bs[p][s].open = FALSE], p, s, "ibbClose"), p, s, "close")

IBBSend(f, p, s, c) ==
    Post([f EXCEPT !.bs[p][s].next = (@ + 1) % SeqLimit], "T",
         [kind |-> "ibbData", sid |-> s, from |-> p, seq |-> f.bs[p][s].next, data |-> c])

\* One stream looks at a request, whose stream and sender it does not compare with its own:
\* the state after it, and what it replies.
IBBHandleIq(f, s, m) ==
    LET b == f.bs["T"][s]
    IN  IF ~b.open
        THEN IF m.kind = "ibbOpen"
             THEN [ft |-> Tell([f EXCEPT !.bs["T"][s].open = TRUE], "T", s, "open"), reply |-> "result"]
             ELSE [ft |-> f, reply |-> "none"]
        ELSE IF m.kind = "ibbClose" THEN [ft |-> IBBClosed(f, "T", s), reply |-> "result"]
        ELSE IF m.kind = "ibbData" /\ m.seq = b.due
        THEN [ft |-> Given([f EXCEPT !.bs["T"][s].due = @ + 1], "T", s, m.data), reply |-> "result"]
        ELSE [ft |-> [f EXCEPT !.bs["T"][s].open = FALSE], reply |-> "error"]

\* All streams of the target look at it, none at another, and ClientBase replies when none
\* has.  Only the first reply finds somebody who waits for it.
IBBDispatch(f, m) ==
    LET live == {i \in DOMAIN f.ibbs : f.bs["T"][f.ibbs[i]].kind = "ibb"}
        reply(i) == IBBHandleIq(f, f.ibbs[i], m).reply
        replying == {i \in live : reply(i) # "none"}
        first == CHOOSE i \in replying : \A j \in replying : i <= j
        after(s) == IF \E i \in live : f.ibbs[i] = s THEN IBBHandleIq(f, s, m).ft ELSE f
    IN  Post([f EXCEPT !.bs["T"] = [s \in Sids |-> after(s).bs["T"][s]],
                       !.log["T"] = [s \in Sids |-> after(s).log["T"][s]],
                       !.got["T"] = [s \in Sids |-> after(s).got["T"][s]]],
             m.from, [kind |-> "ibbReply", sid |-> m.sid, asked |-> m.kind,
                      type |-> IF replying = {} THEN "error" ELSE reply(first)])

\* The stream counts as open after the application was told so, even if that has closed
\* it at once.
IBBHandleIqID(f, p, m) ==
    LET told == Tell(f, p, m.sid, "open")
        closed == IBBClose(Tell(told, p, m.sid, "closesAtOnce"), p, m.sid)
    IN  IF f.bs[p][m.sid].kind # "ibb" THEN {f}
        ELSE IF m.type = "error" THEN {IBBClosed(f, p, m.sid)}
        ELSE IF m.asked # "ibbOpen" THEN {f}
        ELSE {[g EXCEPT !.bs[p][m.sid].open = TRUE] : g \in {told, closed}}
-----------------------------------------------------------------------------
(***************************************************************************)
(* SIProfileFT, SIManager and SOCKS5BytestreamManager.                     *)
(***************************************************************************)
\* What SIManager sends for them; only an offer waits for an answer.
RequestSI(f, s) == Post([f EXCEPT !.offers = @ \cup {s}], "T", [kind |-> "offer", sid |-> s])
AcceptSI(f, s, type) == Post(f, "I", [kind |-> "accepted", sid |-> s, type |-> type])
DeclineSI(f, s) == Post(f, "I", [kind |-> "declined", sid |-> s])

RequestFT(s) ==
    /\ ft.log["I"][s] = {}
    /\ ft' = RequestSI(Tell(ft, "I", s, "offers"), s)
    /\ UNCHANGED hosting

AcceptFT(s, type) ==
    /\ ft.log["T"][s] = {"request"}
    /\ LET f == Tell(ft, "T", s, type)
           g == IF type # "ibb" THEN f
                ELSE NewStream([f EXCEPT !.ibbs = Append(@, s)], "T", s, "ibb")
       IN  ft' = AcceptSI(g, s, type)
    /\ UNCHANGED hosting

DeclineFT(s) ==
    /\ ft.log["T"][s] = {"request"}
    /\ ft' = DeclineSI(Tell(ft, "T", s, "declines"), s)
    /\ UNCHANGED hosting

\* Nobody looks at what it returns without hosts.
RequestSOCKS5Bytestream(f, s) ==
    IF hosting.hosts = <<>> THEN f
    ELSE Post([f EXCEPT !.async["I"] = @ \cup {s},
                        !.track = @ \cup {[sid |-> s, context |-> "open"]}],
              "T", [kind |-> "hosts", sid |-> s])

HandleSIRequestResult(f, s, type) ==
    CASE type = "s5b" -> RequestSOCKS5Bytestream(f, s)
      [] type = "ibb" -> NewStream(f, "I", s, "ibb")
      [] type = "oob" -> Post(Tell(f, "I", s, "url"), "T", [kind |-> "oob", sid |-> s])

\* The target takes every stream it has been told the hosts of, and can reject one once.
AcceptSOCKS5Bytestream(f, s) == IF s \in f.async["T"] THEN NewStream(f, "T", s, "s5b") ELSE f
HandleHosts(f, s) == AcceptSOCKS5Bytestream([f EXCEPT !.async["T"] = @ \cup {s}], s)
RejectSOCKS5Bytestream(f, s) ==
    IF s \notin f.async["T"] THEN f
    ELSE Post([f EXCEPT !.async["T"] = @ \ {s}], "I", [kind |-> "rejected", sid |-> s])

\* The initiator looks for the host that the target has named among those it offered.
FindProxy(f, s) == s \in f.async["I"] /\ f.host[s] \in Range(hosting.hosts)
HandleFTRequestError(f, s) == Tell(f, "I", s, "error")

\* The own server hands over the connection that has named the stream, if it is still
\* there, and the stream is open at once; a proxy has to be connected to.
HandleHostUsed(f, s) ==
    LET g == NewStream(f, "I", s, "s5b")
    IN  IF ~FindProxy(f, s) THEN f
        ELSE IF f.host[s] # "self" THEN g
        ELSE S5BActivate(IF f.server[s] = "accepted" THEN [g EXCEPT !.server[s] = "taken"] ELSE g,
                         "I", s)

S5BHandleIqID(f, m, context) ==
    LET t == [sid |-> m.sid, context |-> context]
        g == [f EXCEPT !.track = @ \ {t}]
    IN  IF t \notin f.track THEN f
        ELSE CASE m.kind = "hostUsed" -> HandleHostUsed(g, m.sid)
               [] m.kind = "activated" ->
                    IF Exists(f, "I", m.sid) THEN S5BActivate(g, "I", m.sid) ELSE g
               [] m.kind \in {"rejected", "activateError"} -> HandleFTRequestError(g, m.sid)

InitiatorHandle(f, m) ==
    CASE m.kind \in {"accepted", "declined"} ->
           IF m.sid \notin f.offers THEN {f}
           ELSE LET g == [f EXCEPT !.offers = @ \ {m.sid}]
                IN  {IF m.kind = "declined" THEN HandleFTRequestError(g, m.sid)
                     ELSE HandleSIRequestResult(g, m.sid, m.type)}
      [] m.kind \in {"hostUsed", "rejected"} -> {S5BHandleIqID(f, m, "open")}
      [] m.kind \in {"activated", "activateError"} -> {S5BHandleIqID(f, m, "activate")}
      [] m.kind = "ibbReply" -> IBBHandleIqID(f, "I", m)

\* Nobody takes the address of a file, and nobody cares for that.
TargetHandle(f, m) ==
    CASE m.kind = "offer" ->
           {Tell([f EXCEPT !.requests = @ \cup {m.sid}], "T", m.sid, "request")}
      [] m.kind = "hosts" -> {HandleHosts(f, m.sid)}
      [] m.kind = "oob" -> {f}
      [] m.kind \in {"ibbOpen", "ibbData", "ibbClose"} -> {IBBDispatch(f, m)}
      [] m.kind = "ibbReply" -> IBBHandleIqID(f, "T", m)

Receive(p) ==
    /\ ft.box[p] # <<>>
    /\ LET m == Head(ft.box[p])
           f == [ft EXCEPT !.box[p] = Tail(@)]
       IN  ft' \in IF p = "I" THEN InitiatorHandle(f, m) ELSE TargetHandle(f, m)
    /\ UNCHANGED hosting
-----------------------------------------------------------------------------
(***************************************************************************)
(* What the applications do with their streams.                            *)
(***************************************************************************)
ConnectStream(p, s) ==
    /\ Exists(ft, p, s) /\ ~Has(p, s, "connect") /\ ~Has(p, s, "close")
    /\ LET f == Tell(ft, p, s, "connect")
       IN  IF ft.bs[p][s].kind = "s5b" THEN ft' \in S5BConnect(f, p, s)
           ELSE ft' = IF p = "T" THEN f ELSE IBBAsk(f, p, s, "ibbOpen")
    /\ UNCHANGED hosting

\* What a stream that was opened and not closed again is for its application.
Open(p, s) == Exists(ft, p, s) /\ Has(p, s, "open") /\ ~Has(p, s, "close")

\* The other end may be gone without its end having been read: then a write is lost, or fails.
SendOver(p, s) ==
    /\ Open(p, s) /\ Len(ft.sent[p][s]) < MaxChunks[p]
    /\ LET c == <<"data", p, Len(ft.sent[p][s]) + 1>>
           f == [ft EXCEPT !.sent[p][s] = Append(@, c)]
       IN  IF ft.bs[p][s].kind = "ibb" THEN ft.bs[p][s].open /\ ft' = IBBSend(f, p, s, c)
           ELSE /\ ft.bs[p][s].open /\ ft.link[p][s] \in {"up", "cancelled"}
                /\ \/ ft' = Write(f, p, s, c)
                   \/ ~Hears(ft, p, s)
                      /\ ft' = HandleDisconnect([ft EXCEPT !.link[p][s] = "closed", !.pipe[p][s] = <<>>], p, s)
    /\ UNCHANGED hosting

CloseStream(f, p, s) == IF f.bs[p][s].kind = "ibb" THEN IBBClose(f, p, s) ELSE S5BClose(f, p, s)
Close(p, s) ==
    /\ Open(p, s)
    /\ ft' = CloseStream(Tell(ft, p, s, "closes"), p, s)
    /\ UNCHANGED hosting

\* A stream that is open is closed, and what it holds goes with it.
Disposed(f, p, s) ==
    LET g == Tell(f, p, s, "disposes")
        h == CloseLink(IF f.bs[p][s].open THEN CloseStream(g, p, s) ELSE g, p, s)
    IN  [h EXCEPT !.bs[p][s] = [NoStream EXCEPT !.kind = "gone"]]
Dispose(p, s) ==
    /\ Exists(ft, p, s)
    /\ ft' = Disposed(ft, p, s)
    /\ UNCHANGED hosting

\* Cancelling rejects the stream, answered or not; only the target has noted the request.
Cancel(s) ==
    /\ ft.bs["T"][s].kind = "s5b" /\ s \in ft.requests
    /\ ft' = Disposed(RejectSOCKS5Bytestream(ft, s), "T", s)
    /\ UNCHANGED hosting
-----------------------------------------------------------------------------
TransferNext ==
    \/ BreakTcp
    \/ \E s \in Sids :
         \/ RequestFT(s) \/ DeclineFT(s) \/ Cancel(s)
         \/ \E type \in {"s5b", "ibb", "oob"} : AcceptFT(s, type)
    \/ \E p \in Parties :
         \/ Receive(p)
         \/ \E s \in Sids :
              Read(p, s) \/ ConnectStream(p, s) \/ SendOver(p, s) \/ Close(p, s) \/ Dispose(p, s)

TransferSpec == TransferInit /\ [][TransferNext]_transferVars
-----------------------------------------------------------------------------
(***************************************************************************)
(* Properties.                                                             *)
(***************************************************************************)
\* One in-band stream, over which only the initiator writes: what the target writes comes
\* back to it, and what is for one stream is taken by all.
InBandAlone == Len(ft.ibbs) <= 1 /\ \A i \in DOMAIN ft.ibbs : ft.sent["T"][ft.ibbs[i]] = <<>>

\* Whatever breaks, is closed or refused, and when: what an application is given of a
\* stream is the beginning of what the other sent over it.  The exception is a stream
\* opened by the rest of the proxy's answer, which the application is given too: what it
\* sends before the other end is ready is lost.  But what arrives is still in order.
Torn(s) == \E p \in Parties : Has(p, s, "torn")
SomeOf(sub, seq) == sub = SelectSeq(seq, LAMBDA c : Contains(sub, c))
ReceivedIsSent ==
    InBandAlone => \A p \in Parties, s \in Sids :
        LET got == ft.got[p][s]
            sent == ft.sent[Other(p)][s]
        IN  IF Torn(s) THEN SomeOf(SelectSeq(got, LAMBDA c : c # Rest), sent)
            ELSE IsPrefix(got, sent)

\* Nothing is under way.
Quiet ==
    \A p \in Parties :
        ft.box[p] = <<>> /\ \A s \in Sids : ft.link[p][s] = "up" => ft.pipe[p][s] = <<>>
HasAny(p, s, events) == ft.log[p][s] \cap events # {}
Over(p, s) == ~Exists(ft, p, s) \/ HasAny(p, s, {"close", "error"})

\* An application waits for something that will not come: it believes in a stream that is
\* over at the other end, has connected and not heard of it, has offered a file and not heard
\* what became of it, or has accepted one and not been given a stream.
Waits(p, s) ==
    \/ Open(p, s) /\ Over(Other(p), s)
    \/ /\ Exists(ft, p, s) /\ Has(p, s, "connect") /\ ~HasAny(p, s, {"open", "close", "error"})
       /\ Over(Other(p), s) \/ (p = "I" /\ ft.bs[p][s].kind = "ibb")
    \/ /\ p = "I" /\ HasAny("T", s, {"declines", "ibb", "s5b", "oob"})
       /\ ~HasAny("I", s, {"stream", "url", "error"})
       /\ ~Exists(ft, "T", s) \/ Has("T", s, "close")
    \/ p = "T" /\ Has("T", s, "s5b") /\ ~Has("T", s, "stream")

\* What the code never tells: that there are no stream hosts; to the initiator, that the
\* target could not connect, or has closed an in-band stream or a connection to the own server;
\* to the target, that an in-band stream was disposed of before its opening was answered,
\* or broke because the numbers began again, or that the initiator did not reach the
\* proxy; and to an initiator whose stream the rest of the proxy's answer has opened, that
\* a proxy which it could not activate has lost the target.
Untold(p, s) ==
    \/ hosting.hosts = <<>> /\ Has("T", s, "s5b")
    \/ /\ p = "I" /\ Has("T", s, "s5b") /\ ~Has("I", s, "stream")
       /\ HasAny("T", s, {"close", "disposes"})
    \/ p = "I" /\ Has("T", s, "ibb") /\ HasAny("T", s, {"closes", "disposes"})
    \/ p = "I" /\ ft.host[s] = "self"
    \/ p = "T" /\ Has("T", s, "ibb") /\ Has("I", s, "disposes") /\ ~Has("I", s, "open")
    \/ p = "T" /\ Has("T", s, "ibb") /\ Len(ft.sent["I"][s]) > SeqLimit
    \/ p = "T" /\ ft.host[s] = "proxy" /\ Over("I", s) /\ s \notin ft.relays
    \/ p = "I" /\ Has("I", s, "torn") /\ Has("I", s, "error") /\ s \notin ft.relays

\* When nothing is under way any more, nobody waits in vain but for those.
NobodyWaits ==
    InBandAlone /\ Quiet => \A p \in Parties, s \in Sids : Waits(p, s) => Untold(p, s)

\* A stream that an application was told is closed is never opened again and gives it no
\* more data, and it is told so once.  The exceptions are a connection to a proxy that is
\* lost while the proxy is activated, closing a stream whose connection is lost, and an
\* in-band stream that its application closed when it was told that it is open.
ToldInOrder ==
    InBandAlone => \A p \in Parties, s \in Sids :
        /\ Has(p, s, "revived") => p = "I" /\ ft.host[s] = "proxy"
        /\ Has(p, s, "reclosed") =>
              \/ Has("T", s, "s5b") /\ HasAny(p, s, {"closes", "disposes"})
              \/ p = "I" /\ Has("T", s, "ibb") /\ Has(p, s, "closesAtOnce")

\* What arrives of a file is a beginning of what was sent, and handlers are told in order
\* (SIProfileFT and the streams).
FileArrives == ReceivedIsSent /\ ToldInOrder
=============================================================================
