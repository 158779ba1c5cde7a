--------------------------- MODULE TlsConnection ---------------------------
(***************************************************************************)
(* ConnectionTLS: a TLS library between a client and a TCP connection.     *)
(* Three libraries can be built in, and each back-end moves what arrives   *)
(* into its library in its own way: GnuTLS and OpenSSL take units from a   *)
(* buffer as they ask for them, SChannel is shown the whole buffer.  A     *)
(* call of the client or of recv() is one step; what it calls is written   *)
(* as operators on the record of the connection, in the order of the code. *)
(*                                                                         *)
(* Messages of TLS are cut into units, and TCP delivers any number of them *)
(* at a time.  The libraries and the server are external.                  *)
(***************************************************************************)
EXTENDS Integers, Sequences, SequencesExt, Functions, TLC

CONSTANTS
    Setups,         \* which library is built in, and when the client disconnects: as it
                    \* is told of a certificate, a failure or a stanza
    MaxConnects,    \* bound: calls of connect()
    MaxUp,          \* bound: stanzas the client sends
    Stanzas,        \* bound: the stanzas the server sends, in order
    StanzaSize,     \* how large a stanza of the client is
    MaxMessage,     \* how much of it fits into one record (cbMaximumMessage)
    Certificates,   \* what a server may show of itself
    Now             \* the month in which it does

TlsAssumption ==
    /\ Setups \subseteq [library : {"gnutls", "openssl", "schannel"}, quits : SUBSET ({"certificate", "failure"} \cup Range(Stanzas))]
    /\ {MaxConnects, MaxUp, StanzaSize} \subseteq Nat /\ MaxMessage \in Nat \ {0}
    /\ \A cert \in Certificates : {cert.from, cert.to, Now} \subseteq Nat

VARIABLES
    tls,            \* ConnectionTLS, its back-end with the library, and the TCP connection
    peer            \* the server
vars == <<tls, peer>>

\* A certificate: found is what verifying finds, which the library does; root says that a
\* certificate which signed itself is sent last, several that more than one is sent
\* before it, linked that each of these is signed by the next one; the name is that of the
\* server, in capitals, an alternative one of it, or another; the times are months.  The
\* suite is that of the session.
NoCertificate ==
    [sent |-> FALSE, found |-> {}, root |-> TRUE, several |-> FALSE, linked |-> TRUE, name |-> "none",
     from |-> 0, to |-> 0, protocol |-> "", cipher |-> "", mac |-> ""]
Month(year, month) == 12 * year + month

\* CertInfo: its status is a set of flags, and "unset" is any value at all.
NewInfo ==
    [status |-> {"unset"}, chain |-> "unset", from |-> 0, to |-> 0, protocol |-> "", cipher |-> "", mac |-> ""]

\* stage is where the library is: "none" without a session, "fresh" with a new one,
\* then the message it waits for, "open", or "dead" after an error; held is what it has
\* of a message, wire and out what is on its way.  told lists the calls of the handlers
\* since connect(), sent what the client has sent.  freed, ruined, stale, fed and late
\* are for the properties: the session was freed, and used after it; connect() found
\* something in the buffer; data came when the session stood; the client was told
\* something after it had disconnected.  cert is the certificate that came, info what
\* the client is told of it, which nothing sets before a back-end does.
NewTls(setup) ==
    [setup |-> setup, state |-> "disconnected", tcp |-> FALSE, lost |-> "no", wire |-> <<>>,
     out |-> <<>>, secure |-> FALSE, buffer |-> <<>>, held |-> <<>>, stage |-> "none",
     told |-> <<>>, sent |-> <<>>, connects |-> 0, freed |-> FALSE, ruined |-> FALSE,
     stale |-> FALSE, fed |-> FALSE, late |-> FALSE, cert |-> NoCertificate, info |-> NewInfo]
NewPeer == [stage |-> "hello", got |-> <<>>, gave |-> 0, warned |-> FALSE, alerted |-> FALSE]

Init == \E setup \in Setups : tls = NewTls(setup) /\ peer = NewPeer

Is(c, library) == c.setup.library = library
-----------------------------------------------------------------------------
(***************************************************************************)
(* The libraries.                                                          *)
(***************************************************************************)
\* A message in units, and what of a buffer is one.
Units(msg) ==
    IF msg \in {"warning", "alert", "close"} THEN <<[of |-> msg, part |-> 1]>>
    ELSE <<[of |-> msg, part |-> 1], [of |-> msg, part |-> 2]>>
Fits(units) == units = <<>> \/ IsPrefix(units, Units(units[1].of))
Complete(units) == units # <<>> /\ units = Units(units[1].of)

\* A message of the handshake: the stage it leads to, and what the library makes of it.
Handshaken(stage, msg) ==
    CASE stage = "hello" /\ msg = "hello" -> [stage |-> "certificate", result |-> "again"]
      [] stage = "certificate" /\ msg = "certificate" -> [stage |-> "finished", result |-> "output"]
      [] stage = "finished" /\ msg = "finished" -> [stage |-> "open", result |-> "done"]
      [] msg = "warning" /\ stage # "dead" -> [stage |-> stage, result |-> "warning"]
      [] OTHER -> [stage |-> "dead", result |-> "fatal"]

\* GnuTLS and OpenSSL take one unit from the buffer: into what they hold of a message.
Pulled(c) == Append(c.held, Head(c.buffer))
Pull(c) == [c EXCEPT !.buffer = Tail(@), !.held = IF Complete(Pulled(c)) THEN <<>> ELSE Pulled(c)]
-----------------------------------------------------------------------------
(***************************************************************************)
(* ConnectionTLS.                                                          *)
(***************************************************************************)
\* GnuTLS and OpenSSL begin a new session and keep the buffer; SChannel begins with the
\* handshake.
InitGnutls(c) == [c EXCEPT !.stage = "fresh", !.held = <<>>, !.freed = FALSE]
InitOpenssl(c) == [c EXCEPT !.stage = "fresh", !.held = <<>>]
InitKeeping(c) ==               \* mutant: the session of the last connection is used again
    [c EXCEPT !.stage = IF ~Is(c, "schannel") /\ @ = "none" THEN "fresh" ELSE @]
InitLibrary(c) ==
    CASE Is(c, "gnutls") -> InitGnutls(c) [] Is(c, "openssl") -> InitOpenssl(c) [] OTHER -> c

\* What a cleanup leaves: GnuTLS says goodbye on its session, which may have been freed,
\* and begins a new one, OpenSSL only forgets that it was secure, SChannel everything.
GnutlsCleanup(c) == InitGnutls([c EXCEPT !.secure = FALSE, !.ruined = @ \/ c.freed])
OpensslCleanup(c) == [c EXCEPT !.secure = FALSE]
SChannelCleanup(c) == [c EXCEPT !.secure = FALSE, !.stage = "none", !.buffer = <<>>]
LibraryCleanup(c) ==
    CASE Is(c, "gnutls") -> GnutlsCleanup(c)
      [] Is(c, "openssl") -> OpensslCleanup(c)
      [] Is(c, "schannel") -> SChannelCleanup(c)
Cleanup(c) ==
    [LibraryCleanup([c EXCEPT !.tcp = FALSE, !.wire = <<>>, !.lost = "no"])
        EXCEPT !.state = "disconnected"]
Told(c, event) == [c EXCEPT !.told = Append(@, event),
                            !.late = @ \/ (c.state = "disconnected" /\ event \in Range(Stanzas))]
\* A client is told something, and may answer with disconnect().
Callback(c, event) ==
    IF event \in c.setup.quits THEN Cleanup(Told(c, event)) ELSE Told(c, event)
\* Told of a disconnect, the client cleans up, and then the connection does.
HandleDisconnect(c) == Cleanup(Cleanup(Told(c, "disconnected")))

\* What is written: a message of the handshake, or a record of a stanza.
Message(name) == [item |-> name, size |-> 0]
\* handleEncryptedData(): a write that fails ends the connection within the library,
\* which is at work on the session.
Push(c, record) ==
    IF ~c.tcp \/ c.lost = "closed" THEN c
    ELSE IF c.lost = "reset"
         THEN [HandleDisconnect(c) EXCEPT !.ruined = @ \/ (Is(c, "gnutls") /\ c.secure)]
    ELSE [c EXCEPT !.out = Append(@, record)]

-----------------------------------------------------------------------------
(***************************************************************************)
(* Certificates: what a client is told of the one that came.               *)
(***************************************************************************)
If(flag, holds) == IF holds THEN {flag} ELSE {}
YesNo(holds) == IF holds THEN "yes" ELSE "no"

\* verifyCert() of what verifying against other certificates has found.
Verified(found, cert) == "invalid" \notin found /\ cert.to >= Now /\ cert.from <= Now

\* A certificate that the next one verifies is what makes the chain invalid.  The chain is
\* overwritten by how the root does on its own, against no authority at all; a root
\* that was not sent is read from behind the list.
GetCertInfo(c) ==
    LET cert == c.cert
        status == cert.found
                      \cup If("invalid", cert.several /\ Verified(If("invalid", ~cert.linked), cert))
                      \cup If("not active", cert.from > Now) \cup If("expired", cert.to < Now)
                      \cup If("wrong peer", cert.name = "other")
    IN  [c EXCEPT !.info = [@ EXCEPT
            !.status = status, !.from = cert.from, !.to = cert.to, !.protocol = cert.protocol,
            !.cipher = cert.cipher, !.mac = cert.mac,
            !.chain = IF cert.root THEN YesNo(Verified({"invalid", "signer unknown"}, cert)) ELSE "unset"]]

\* A time is written with a year of two digits until 2049, and then of four, in pairs.
\* The first two pairs are read as the year and the month.
Pairs(month) ==
    LET year == (month - 1) \div 12
        m == ((month - 1) % 12) + 1
    IN  IF year < 2050 THEN <<year % 100, m>> ELSE <<year \div 100, year % 100, m>>
openSSLTime2UnixTime(pairs) ==
    Month((IF pairs[1] >= 70 THEN 1900 ELSE 2000) + pairs[1], pairs[2])

\* Only the first name counts, and only times with a year of two digits compare.
ToldByOpenssl(c) ==
    LET cert == c.cert
        long(month) == Len(Pairs(month)) = 3
        named == [c.info EXCEPT !.protocol = cert.protocol, !.cipher = cert.cipher]
    IN  [c EXCEPT !.info =
            IF ~cert.sent THEN [named EXCEPT !.status = {"invalid"}]
            ELSE [named EXCEPT
                    !.status = If("invalid", cert.found # {} \/ cert.to < Now \/ cert.from > Now)
                                   \cup If("wrong peer", cert.name \notin {"server", "SERVER"})
                                   \cup If("not active", long(cert.from) \/ cert.from >= Now)
                                   \cup If("expired", long(cert.to) \/ cert.to <= Now),
                    !.from = openSSLTime2UnixTime(Pairs(cert.from)),
                    !.to = openSSLTime2UnixTime(Pairs(cert.to))]]

\* SChannel says of the chain whether the certificate will do, and nothing of the status.
Trusted(cert) ==
    cert.sent /\ cert.found = {} /\ cert.from <= Now /\ Now <= cert.to /\ cert.name # "other"
ValidateCert(c) == [c EXCEPT !.info.chain = YesNo(Trusted(c.cert))]
ConnectionInfos(c) ==
    [c EXCEPT !.info = [@ EXCEPT
        !.protocol = IF c.cert.protocol \in {"TLSv1", "SSLv3"} THEN c.cert.protocol ELSE "unknown",
        !.cipher = IF c.cert.cipher \in {"3DES", "AES_128", "AES_256", "DES", "RC2", "RC4"} THEN c.cert.cipher ELSE "",
        !.mac = IF c.cert.mac \in {"MD5", "SHA"} THEN c.cert.mac ELSE ""]]
CertData(c) ==
    IF c.cert.sent THEN [c EXCEPT !.info.from = c.cert.from, !.info.to = c.cert.to] ELSE c
SetCertinfos(c) == CertData(ConnectionInfos(ValidateCert(c)))

HandleHandshakeResult(c, success) ==
    IF success
    THEN Told(Callback([c EXCEPT !.state = "connected"], "certificate"), "connected")
    ELSE Callback([c EXCEPT !.state = "disconnected"], "failure")
-----------------------------------------------------------------------------
(***************************************************************************)
(* The handshake.                                                          *)
(***************************************************************************)
Greeted(c) == IF c.stage = "fresh" THEN Push([c EXCEPT !.stage = "hello"], Message("hello")) ELSE c

\* gnutls_handshake(): whatever is not fatal and does not ask for more is a success.
RECURSIVE GnutlsShake(_)
GnutlsShake(c) ==
    LET pulled == Pull(c)
        shaken == Handshaken(c.stage, Head(c.buffer).of)
        next == [pulled EXCEPT !.stage = shaken.stage]
    IN  IF c.buffer = <<>> THEN c
        ELSE IF ~Fits(Pulled(c)) \/ (pulled.held = <<>> /\ shaken.result = "fatal")
             THEN HandleHandshakeResult([pulled EXCEPT !.stage = "dead", !.freed = TRUE], FALSE)
        ELSE IF pulled.held # <<>> \/ shaken.result = "again" THEN
             GnutlsShake(IF pulled.held # <<>> THEN pulled ELSE next)
        ELSE IF shaken.result = "output" THEN GnutlsShake([Push(next, Message("key")) EXCEPT !.stage = shaken.stage])
        ELSE HandleHandshakeResult(GetCertInfo([next EXCEPT !.secure = TRUE]), TRUE)
GnutlsHandshake(c) ==
    IF c.freed THEN [c EXCEPT !.ruined = TRUE] ELSE GnutlsShake(Greeted(c))

\* doTLSOperation( TLSHandshake ): until the buffer is empty or the session stands.
RECURSIVE OpensslShake(_)
OpensslShake(c) ==
    LET pulled == Pull(c)
        shaken == Handshaken(c.stage, Head(c.buffer).of)
        next == [pulled EXCEPT !.stage = shaken.stage]
    IN  IF c.stage = "dead" THEN HandleHandshakeResult(c, FALSE)
        ELSE IF c.buffer = <<>> THEN c
        ELSE IF ~Fits(Pulled(c)) THEN OpensslShake([pulled EXCEPT !.stage = "dead"])
        ELSE IF pulled.held # <<>> THEN OpensslShake(pulled)
        ELSE IF shaken.result = "output" THEN OpensslShake(Push(next, Message("key")))
        ELSE IF shaken.result = "done" THEN [next EXCEPT !.secure = TRUE]
        ELSE OpensslShake(next)
OpensslHandshake(c) ==
    LET shaken == OpensslShake(Greeted(c))
    IN  IF shaken.secure THEN HandleHandshakeResult(ToldByOpenssl(shaken), TRUE) ELSE shaken

\* SChannel::handshakeStage(): one message at a time, and again for what is behind it
\* unless something was sent.
Begun(buffer) == IsPrefix(Units(buffer[1].of), buffer)
Behind(buffer) == SubSeq(buffer, Len(Units(buffer[1].of)) + 1, Len(buffer))
RECURSIVE HandshakeStage(_)
HandshakeStage(c) ==
    LET shaken == Handshaken(c.stage, Head(c.buffer).of)
        next == [c EXCEPT !.stage = shaken.stage, !.buffer = Behind(c.buffer)]
    IN  IF c.stage = "none" THEN HandleHandshakeResult(SChannelCleanup(c), FALSE)
        ELSE IF c.buffer = <<>> \/ ~Begun(c.buffer) THEN c
        ELSE IF shaken.result = "fatal" THEN HandleHandshakeResult(SChannelCleanup(c), FALSE)
        ELSE IF shaken.result = "done" THEN HandleHandshakeResult(SetCertinfos([next EXCEPT !.secure = TRUE]), TRUE)
        ELSE IF shaken.result = "output" THEN Push(next, Message("key"))
        ELSE HandshakeStage(next)
SChannelHandshake(c) == Push([c EXCEPT !.stage = "hello"], Message("hello"))

Handshake(c) ==
    CASE Is(c, "gnutls") -> GnutlsHandshake(c)
      [] Is(c, "openssl") -> OpensslHandshake(c)
      [] Is(c, "schannel") -> SChannelHandshake(c)
-----------------------------------------------------------------------------
(***************************************************************************)
(* Data.                                                                   *)
(***************************************************************************)
Data(msg) == msg \in Range(Stanzas)

\* gnutls_record_recv() until there is nothing more, also on the session that a cleanup
\* in a callback has begun, which reads nothing.
RECURSIVE GnutlsRead(_)
GnutlsRead(c) ==
    LET pulled == Pull(c)
        msg == Head(c.buffer).of
    IN  IF c.stage # "open" THEN [c EXCEPT !.stage = IF @ = "fresh" THEN @ ELSE "dead"]
        ELSE IF c.buffer = <<>> THEN c
        ELSE IF pulled.held # <<>> THEN GnutlsRead(pulled)
        ELSE IF Data(msg) THEN GnutlsRead(Callback(pulled, msg))
        ELSE pulled

\* doTLSOperation( TLSRead ): also when a callback has disconnected.
RECURSIVE OpensslRead(_)
OpensslRead(c) ==
    LET pulled == Pull(c)
        msg == Head(c.buffer).of
    IN  IF c.buffer = <<>> \/ c.stage # "open" THEN c
        ELSE IF pulled.held # <<>> THEN OpensslRead(pulled)
        ELSE IF Data(msg) THEN OpensslRead(Callback(pulled, msg))
        ELSE pulled

\* SChannel::decrypt(): what is read is taken off the buffer after it was delivered, and
\* the buffer may then have been emptied.  Anything but data ends the session silently.
RECURSIVE SChannelRead(_)
SChannelRead(c) ==
    LET msg == Head(c.buffer).of
        delivered == Callback(c, msg)
    IN  IF c.buffer = <<>> \/ ~Begun(c.buffer) THEN c
        ELSE IF ~Data(msg) THEN SChannelCleanup(c)
        ELSE IF delivered.buffer = <<>> THEN delivered
        ELSE SChannelRead([delivered EXCEPT !.buffer = Behind(c.buffer)])

Decrypt(c, units) ==
    LET got == [c EXCEPT !.buffer = @ \o units, !.fed = @ \/ c.secure]
    IN  IF c.secure
        THEN CASE Is(c, "gnutls") -> GnutlsRead(got)
               [] Is(c, "openssl") -> OpensslRead(got)
               [] Is(c, "schannel") -> SChannelRead(got)
        ELSE IF Is(c, "schannel") THEN HandshakeStage(got) ELSE Handshake(got)

\* SChannel::encrypt(): in records of no more than the library takes.
RECURSIVE SChannelSend(_, _, _)
SChannelSend(c, item, left) ==
    LET size == IF left > MaxMessage THEN MaxMessage ELSE left
        pushed == Push(c, [item |-> ToString(item), size |-> size])
    IN  IF c.stage # "open"
        THEN SChannelCleanup(IF c.secure THEN c ELSE HandleHandshakeResult(c, FALSE))
        ELSE IF left - size > 0 THEN SChannelSend(pushed, item, left - size)
        ELSE pushed
EncryptOnce(c, item) ==         \* mutant: what does not fit into one record is not sent
    Push(c, [item |-> ToString(item), size |-> IF Is(c, "schannel") THEN MaxMessage ELSE StanzaSize])
Record(item) == [item |-> ToString(item), size |-> StanzaSize]
GnutlsEncrypt(c, item) ==
    IF ~c.secure THEN GnutlsHandshake(c) ELSE IF c.stage = "open" THEN Push(c, Record(item)) ELSE c
OpensslEncrypt(c, item) ==
    IF ~c.secure THEN OpensslHandshake(c) ELSE IF c.stage = "open" THEN Push(c, Record(item)) ELSE c
Encrypt(c, item) ==
    CASE Is(c, "gnutls") -> GnutlsEncrypt(c, item)
      [] Is(c, "openssl") -> OpensslEncrypt(c, item)
      [] Is(c, "schannel") -> SChannelSend(c, item, StanzaSize)
-----------------------------------------------------------------------------
(***************************************************************************)
(* The calls of the client, and of TCP.                                    *)
(***************************************************************************)
\* connect(): over a TCP connection that stands, the handshake begins at once.
Connect ==
    /\ tls.state = "disconnected" /\ ~tls.ruined /\ tls.connects < MaxConnects
    /\ LET begun == InitLibrary([tls EXCEPT
                        !.state = "connecting", !.connects = @ + 1, !.told = <<>>, !.sent = <<>>,
                        !.fed = FALSE, !.late = FALSE, !.stale = tls.buffer # <<>>])
       IN  IF tls.tcp THEN tls' = Handshake(begun) /\ UNCHANGED peer
           ELSE \/ /\ tls' = Handshake([begun EXCEPT !.tcp = TRUE, !.out = <<>>])
                   /\ peer' = NewPeer
                \/ tls' = HandleDisconnect(begun) /\ UNCHANGED peer

Send ==
    /\ tls.state = "connected" /\ ~tls.ruined /\ Len(tls.sent) < MaxUp
    /\ LET item == Len(tls.sent) + 1
       IN  tls' = Encrypt([tls EXCEPT !.sent = Append(@, item)], item)
    /\ UNCHANGED peer

Disconnect ==
    tls.state # "disconnected" /\ ~tls.ruined /\ tls' = Cleanup(tls) /\ UNCHANGED peer

Recv ==
    /\ tls.tcp /\ ~tls.ruined
    /\ IF tls.wire # <<>>
       THEN \E n \in 1 .. Len(tls.wire) :
               tls' = Decrypt([tls EXCEPT !.wire = SubSeq(@, n + 1, Len(@))], SubSeq(tls.wire, 1, n))
       ELSE tls.lost # "no" /\ tls' = HandleDisconnect(tls)
    /\ UNCHANGED peer
-----------------------------------------------------------------------------
(***************************************************************************)
(* The server and the network.                                             *)
(***************************************************************************)
Wired(units) == tls' = [tls EXCEPT !.wire = IF tls.tcp THEN @ \o units ELSE @]

\* What a server shows: GnuTLS asks for ciphers that need a certificate.
Shown == {cert \in Certificates : cert.sent \/ ~Is(tls, "gnutls")}
PeerReads ==
    /\ tls.out # <<>> /\ peer.stage # "dead"
    /\ LET record == Head(tls.out)
           reply == CASE record.item = "hello" /\ peer.stage = "hello" -> Units("hello") \o Units("certificate")
                      [] record.item = "key" /\ peer.stage = "key" -> Units("finished")
                      [] OTHER -> <<>>
       IN  /\ \E cert \in IF Len(reply) = 4 THEN Shown ELSE {tls.cert} :
                 tls' = [tls EXCEPT !.out = Tail(@), !.cert = cert,
                                    !.wire = IF tls.tcp /\ tls.lost = "no" THEN @ \o reply ELSE @]
           /\ peer' = [peer EXCEPT
                 !.stage = CASE reply = <<>> -> @ [] @ = "hello" -> "key" [] OTHER -> "open",
                 !.got = IF peer.stage = "open" /\ reply = <<>> THEN Append(@, record) ELSE @]

Reachable == tls.tcp /\ tls.lost = "no" /\ ~tls.ruined
PeerSends ==
    /\ peer.stage = "open" /\ Reachable /\ peer.gave < Len(Stanzas)
    /\ Wired(Units(Stanzas[peer.gave + 1])) /\ peer' = [peer EXCEPT !.gave = @ + 1]
PeerWarns ==
    /\ peer.stage = "key" /\ Reachable /\ ~peer.warned
    /\ Wired(Units("warning")) /\ peer' = [peer EXCEPT !.warned = TRUE]
PeerRefuses ==
    /\ peer.stage = "key" /\ Reachable
    /\ Wired(Units("alert")) /\ peer' = [peer EXCEPT !.stage = "dead", !.alerted = TRUE]
PeerCloses ==
    /\ peer.stage = "open" /\ Reachable
    /\ tls' = [tls EXCEPT !.wire = @ \o Units("close"), !.lost = "closed"]
    /\ peer' = [peer EXCEPT !.stage = "dead"]
Break ==
    /\ Reachable
    /\ \E how \in {"closed", "reset"} :
          tls' = [tls EXCEPT !.lost = how, !.wire = IF how = "reset" THEN <<>> ELSE @]
    /\ peer' = [peer EXCEPT !.stage = "dead"]

Client == Connect \/ Send \/ Disconnect \/ Recv
Server == PeerReads \/ PeerSends \/ PeerWarns \/ PeerRefuses \/ PeerCloses
Next == Client \/ Server \/ Break

Spec == Init /\ [][Next]_vars
-----------------------------------------------------------------------------
(***************************************************************************)
(* Properties.                                                             *)
(***************************************************************************)
Received == SelectSeq(tls.told, Data)
WarnedGnutls == Is(tls, "gnutls") /\ peer.warned

\* What the server sends reaches the client in order, each stanza once, however TCP cuts
\* it; nothing that came waits for more, except what came with the last message of the
\* handshake, which waits for the next read (decrypt()); and what the client sends
\* reaches the server whole and in order.
UpSize(records) == FoldLeft(LAMBDA n, r : n + r.size, 0, records)
Underway == tls.state = "connected" /\ tls.tcp /\ tls.lost = "no" /\ ~WarnedGnutls
TlsDelivers ==
    /\ IsPrefix(Received, SubSeq(Stanzas, 1, peer.gave))
    /\ Underway /\ tls.fed => Len(tls.held \o tls.buffer) < 2
    /\ Underway /\ peer.stage = "open" =>
          UpSize(peer.got \o tls.out) = StanzaSize * Len(tls.sent)

\* A client is told that it is connected once both ends have finished the handshake, and
\* of a failure when the server refused or, by SChannel, when it has left, and not of
\* stanzas after it has disconnected.  For GnuTLS a warning of the server counts as
\* the end of the handshake, and a session that failed or lost its connection within a
\* write is used again; OpenSSL reads on after a disconnect; and both keep what was
\* not read for the next connection (handshake(), cleanup(), doTLSOperation()).
TlsTellsTruth ==
    /\ Contains(tls.told, "connected") /\ ~WarnedGnutls => peer.stage \in {"open", "dead"}
    /\ Contains(tls.told, "failure") =>
          peer.alerted \/ tls.stale \/ (Is(tls, "schannel") /\ peer.stage = "dead")
    /\ tls.stale => ~Is(tls, "schannel")
    /\ tls.late => Is(tls, "openssl")
    /\ tls.ruined => Is(tls, "gnutls")

\* A client that lets a connection go on because of what it is told of the certificate is
\* not deceived: where a back-end says something, and the status says nothing against
\* it, the certificate can be trusted, is in its time and names the server.  OpenSSL
\* also speaks against some that would do: those with only another name of the server,
\* those whose time ends in or after 2050, which it tells as one before, and those in their
\* first or last moment; GnuTLS against each that the next one in the chain verifies.  It
\* never says that a chain with its root is right
\* (getCertInfo(), OpenSSLBase::handshake(), validateCert()).
Clear == tls.info.status = {}
Unusual(cert) ==
    cert.name = "alternative" \/ cert.to >= Month(2050, 1) \/ Now \in {cert.from, cert.to}
TlsJudgesRight ==
    Contains(tls.told, "certificate") =>
       /\ Clear => Trusted(tls.cert) /\ ~Is(tls, "schannel")
       /\ Is(tls, "schannel") => tls.info.chain = YesNo(Trusted(tls.cert)) /\ tls.info.status = {"unset"}
       /\ Trusted(tls.cert) => Clear \/ Is(tls, "schannel")
                                     \/ (Is(tls, "openssl") /\ Unusual(tls.cert))
                                     \/ (Is(tls, "gnutls") /\ tls.cert.several /\ tls.cert.linked)
       /\ Is(tls, "gnutls") => tls.info.chain # "yes"
       /\ tls.cert.sent /\ tls.info.to # tls.cert.to => Is(tls, "openssl") /\ Unusual(tls.cert)
       /\ tls.info.protocol \in {tls.cert.protocol, "unknown"} /\ tls.info.cipher \in {tls.cert.cipher, ""}
=============================================================================
