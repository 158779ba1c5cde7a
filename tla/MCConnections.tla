--------------------------- MODULE MCConnections ---------------------------
(***************************************************************************)
(* What carries what is said.  A behaviour is one of these, while the      *)
(* variables of the others are not used:                                   *)
(*   - sockets: TCP connections of one client and one listener, in every   *)
(*     build of the name lookup, with three descriptors;                   *)
(*   - bosh: a session over HTTP in each of its three modes;               *)
(*   - tls: two connections over each of the three back-ends;              *)
(*   - proxy: two connections through an HTTP proxy;                       *)
(*   - transfer: one file, with stream hosts of both kinds, one that knows *)
(*     nobody, or none, up to three pieces one way and one the other, and  *)
(*     the numbers of in-band data beginning again after two.              *)
(***************************************************************************)
EXTENDS Sockets, FileTransfer, TLC

MCSetups ==
    {[build |-> b, port |-> "none"] : b \in {"query", "windows", "plain", "addrinfo"}}
        \cup {[build |-> "plain", port |-> "5223"]}
MCHosts == <<"x", "y">>

VARIABLE part       \* which of them this behaviour is
Off == "off"
-----------------------------------------------------------------------------
VARIABLES bosh, manager
BoshSetup(mode, window, http10, connections, breaks, up) ==
    [mode |-> mode, window |-> window, http10 |-> http10, connects |-> connections,
     breaks |-> breaks, up |-> up]
BoshSetups ==
    {BoshSetup("pipelining", 1, FALSE, 1, 1, 2), BoshSetup("pipelining", 2, FALSE, 1, 0, 1),
     BoshSetup("pipelining", 2, TRUE, 1, 0, 1), BoshSetup("persistent", 2, FALSE, 1, 0, 1),
     BoshSetup("legacy", 1, FALSE, 2, 0, 1)}
Bosh == INSTANCE BoshConnection WITH Setups <- BoshSetups, RidMod <- 3, MaxConns <- 2, MaxDown <- 1
boshVars == <<bosh, manager>>
BoshOff == bosh = Off /\ manager = Off

VARIABLES tls, peer
TlsSetups ==
    [library : {"gnutls", "openssl", "schannel"}, quits : {{}, {"certificate"}, {"failure"}, {"first"}}]
Certificate(found, root, name, from, to) ==
    [sent |-> TRUE, found |-> found, root |-> root, several |-> FALSE, linked |-> TRUE, name |-> name,
     from |-> from, to |-> to, protocol |-> "TLSv1", cipher |-> "AES_256", mac |-> "SHA"]
ThisMonth == 2009 * 12 + 6
MCCertificates ==
    {Certificate({}, TRUE, "SERVER", ThisMonth - 200, ThisMonth + 1),
     [Certificate({}, TRUE, "other", ThisMonth - 1, ThisMonth + 1) EXCEPT !.protocol = "TLSv1.2", !.cipher = "CAMELLIA"],
     [Certificate({}, TRUE, "server", ThisMonth - 1, ThisMonth + 1) EXCEPT !.several = TRUE],
     Certificate({"invalid", "signer unknown"}, FALSE, "server", ThisMonth - 1, ThisMonth + 1),
     [Certificate({}, FALSE, "alternative", ThisMonth, ThisMonth) EXCEPT !.several = TRUE, !.linked = FALSE],
     Certificate({}, TRUE, "server", ThisMonth - 1, 2050 * 12 + 1),
     Certificate({}, TRUE, "server", ThisMonth - 2, ThisMonth - 1),
     Certificate({}, TRUE, "server", ThisMonth + 1, ThisMonth + 2),
     [Certificate({}, TRUE, "none", 0, 0) EXCEPT !.sent = FALSE]}
Tls == INSTANCE TlsConnection WITH Setups <- TlsSetups, MaxUp <- 1, MaxConnects <- 2,
                                   Stanzas <- <<"first", "second">>, StanzaSize <- 3, MaxMessage <- 2,
                                   Certificates <- MCCertificates, Now <- ThisMonth
tlsVars == <<tls, peer>>
TlsOff == tls = Off /\ peer = Off

VARIABLES proxied, proxy
Proxy == INSTANCE HttpProxy WITH Statuses <- {"200", "403", "407", "500"}, MaxConnects <- 2, MaxData <- 2
proxyVars == <<proxied, proxy>>
ProxyOff == proxied = Off /\ proxy = Off

MCHostings ==
    {[hosts |-> <<"self", "proxy">>, server |-> TRUE], [hosts |-> <<"self">>, server |-> FALSE],
     [hosts |-> <<>>, server |-> FALSE]}
MCMaxChunks == [I |-> 3, T |-> 1]

ASSUME ConnectionsAssumption ==
    /\ Bosh!BoshAssumption /\ Tls!TlsAssumption /\ Proxy!ProxyAssumption
    /\ TransferAssumption
-----------------------------------------------------------------------------
SocketsOff == Init /\ setup = CHOOSE s \in Setups : TRUE
TransferOff == TransferInit /\ hosting = CHOOSE h \in Hostings : TRUE

ConnectionsInit ==
    \/ /\ part = "sockets" /\ Init
       /\ BoshOff /\ TlsOff /\ ProxyOff /\ TransferOff
    \/ /\ part = "bosh" /\ Bosh!Init
       /\ SocketsOff /\ TlsOff /\ ProxyOff /\ TransferOff
    \/ /\ part = "tls" /\ Tls!Init
       /\ SocketsOff /\ BoshOff /\ ProxyOff /\ TransferOff
    \/ /\ part = "proxy" /\ Proxy!Init
       /\ SocketsOff /\ BoshOff /\ TlsOff /\ TransferOff
    \/ /\ part = "transfer" /\ TransferInit
       /\ SocketsOff /\ BoshOff /\ TlsOff /\ ProxyOff

Alone == UNCHANGED part
ConnectionsNext ==
    \/ /\ part = "sockets" /\ Next /\ Alone
       /\ UNCHANGED <<boshVars, tlsVars, proxyVars, transferVars>>
    \/ /\ part = "bosh" /\ Bosh!Next /\ Alone
       /\ UNCHANGED <<vars, tlsVars, proxyVars, transferVars>>
    \/ /\ part = "tls" /\ Tls!Next /\ Alone
       /\ UNCHANGED <<vars, boshVars, proxyVars, transferVars>>
    \/ /\ part = "proxy" /\ Proxy!Next /\ Alone
       /\ UNCHANGED <<vars, boshVars, tlsVars, transferVars>>
    \/ /\ part = "transfer" /\ TransferNext /\ Alone
       /\ UNCHANGED <<vars, boshVars, tlsVars, proxyVars>>

allVars == <<vars, part, boshVars, tlsVars, proxyVars, transferVars>>
ConnectionsSpec == ConnectionsInit /\ [][ConnectionsNext]_allVars
-----------------------------------------------------------------------------
\* Over HTTP, what is sent arrives once and in order, in no more requests at a time than
\* the manager allows (ConnectionBOSH).
BoshDelivers == part = "bosh" => Bosh!NothingLostUp /\ Bosh!InOrderDown /\ Bosh!WindowKept

\* What TLS and an HTTP proxy stand between gets through whole and in order, and the
\* handler above is told of what has happened below (ConnectionTLS, ConnectionHTTPProxy).
LayersDeliver ==
    /\ part = "tls" => Tls!TlsDelivers /\ Tls!TlsTellsTruth /\ Tls!TlsJudgesRight
    /\ part = "proxy" => Proxy!ProxyTellsTruth
=============================================================================
