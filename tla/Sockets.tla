------------------------------ MODULE Sockets ------------------------------
(***************************************************************************)
(* How gloox comes by its TCP connections, and what becomes of their       *)
(* descriptors: DNS::resolve() and DNS::connect(), the client's            *)
(* connection (ConnectionTCPClient), which one thread reads while another  *)
(* connects, sends and cleans up, and the listening one                    *)
(* (ConnectionTCPServer).                                                  *)
(*                                                                         *)
(* The two mutexes of a connection are held over several steps, whatever   *)
(* a function does with them: the one for reading while a thread waits for *)
(* data, the one for sending while a write blocks and while connect()      *)
(* tries one host after the other, and both for calls that come to         *)
(* nothing.  connect() ends without a mutex.  cleanup() needs both, and    *)
(* with two threads is one step: the other waits for it, or would have its *)
(* own cleanup() right after, which finds nothing to do.  The listener     *)
(* belongs to the thread of the application.  Name servers, hosts and the  *)
(* kernel are external: what they answer is chosen anew for every call,    *)
(* and a new descriptor is any that is free.                               *)
(***************************************************************************)
EXTENDS Integers, Sequences, FiniteSets

CONSTANTS
    Setups,         \* how the library is built, and the port it was given, "none" for none
    Hosts,          \* names of hosts, in the order of a std::map
    MaxFds,         \* the descriptors a process may have
    MaxRecords,     \* bound: records in the answer to a query
    MaxConnects,    \* bound: calls of connect()
    MaxAccepts      \* bound: connections to the listener

NoName == "no name"     \* in a record: the root, which expands to nothing
HostNames == {Hosts[i] : i \in DOMAIN Hosts}
Ports == {"5222", "5223"}
ASSUME SocketsAssumption ==
    /\ Setups \subseteq [build : {"query", "windows", "plain", "addrinfo"}, port : Ports \cup {"none"}]
    /\ Hosts \in Seq(HostNames) /\ Hosts # <<>> /\ NoName \notin HostNames
    /\ \A i, j \in DOMAIN Hosts : Hosts[i] = Hosts[j] => i = j
    /\ {MaxFds, MaxRecords, MaxConnects, MaxAccepts} \subseteq Nat

VARIABLES
    setup,
    open,           \* the descriptors of the process
    lost,           \* those nothing refers to any more (history)
    tcp,            \* the client's connection
    sender, reader, \* who holds m_sendMutex and m_recvMutex
    at,             \* what each thread is doing
    trying,         \* the hosts that connect() has still to try, with what they will answer
    server,         \* the listener
    accepted,       \* the descriptors of the connections it has handed out
    asked,          \* what the last connect() came to, and might have (history)
    broken,         \* a thread has met the end of the connection (history)
    skipped,        \* and a cleanup() of it did nothing, for a mutex was taken (history)
    stale,          \* connect() and a cleanup() have left a state without a socket (history)
    connects, accepts
vars == <<setup, open, lost, tcp, sender, reader, at, trying, server, accepted, asked, broken,
          skipped, stale, connects, accepts>>
serverVars == <<server, accepted, accepts>>
historyVars == <<asked, broken, skipped, stale>>

Threads == {"app", "reading"}
Domain == Hosts[1]      \* the name of the XMPP server is one of a host, too
Fresh == [socket |-> -1, state |-> "disconnected", cancel |-> TRUE]
NotAsked == [result |-> 0, came |-> <<>>, reachable |-> {}, enough |-> FALSE]

Init ==
    /\ setup \in Setups /\ open = {} /\ lost = {} /\ tcp = Fresh
    /\ sender = "free" /\ reader = "free" /\ at = [thread \in Threads |-> "idle"]
    /\ trying = {} /\ server = Fresh /\ accepted = {}
    /\ asked = NotAsked /\ broken = FALSE /\ skipped = FALSE /\ stale = FALSE
    /\ connects = 0 /\ accepts = 0
-----------------------------------------------------------------------------
(***************************************************************************)
(* Names.  A world is what name servers and hosts say to one call: the     *)
(* answer to the query for SRV records (or, with getaddrinfo(), the        *)
(* addresses), whether it came whole, and for each host the port it        *)
(* accepts connections on, if it is known at all.                          *)
(***************************************************************************)
Records == [host : HostNames \cup {NoName}, port : Ports]
Worlds ==
    [whole : BOOLEAN, records : UNION {[1 .. n -> Records] : n \in 0 .. MaxRecords},
     accepts : [HostNames -> Ports \cup {"none", "unknown"}]]

RecordsOf(world, host) == {i \in DOMAIN world.records : world.records[i].host = host}
Before(i, j) == IF setup.build = "query" THEN i <= j ELSE i >= j

\* A host to try: its place in the order, and what will come of it.
ByName == setup.port # "none" \/ setup.build # "addrinfo"
Host(world, host, port, place) ==
    [host |-> host, port |-> port, place |-> place,
     answer |-> IF host # NoName /\ world.accepts[host] = port THEN "accepts"
                ELSE IF ByName /\ (host = NoName \/ world.accepts[host] = "unknown") THEN "unknown"
                ELSE "refuses"]

\* A map from hosts, in their order.  insert() keeps the first port of a host, operator[]
\* the last; a name that cannot be expanded is passed over, but on Windows.
Listable == IF setup.build = "windows" THEN HostNames \cup {NoName} ELSE HostNames
PlaceOf(host) == IF host = NoName THEN 0 ELSE CHOOSE i \in DOMAIN Hosts : Hosts[i] = host
PortOf(world, host) ==
    LET kept == CHOOSE i \in RecordsOf(world, host) : \A j \in RecordsOf(world, host) : Before(i, j)
    IN  world.records[kept].port
Listed(world) ==
    {Host(world, h, PortOf(world, h), PlaceOf(h)) : h \in {k \in Listable : RecordsOf(world, k) # {}}}

DefaultHostMap(world) == {Host(world, Domain, "5222", 1)}
Resolve(world) ==
    IF setup.build = "plain" \/ ~world.whole \/ Listed(world) = {} THEN DefaultHostMap(world)
    ELSE Listed(world)

\* What DNS::connect() goes through: one name if there is a port, the addresses of
\* getaddrinfo(), or a map.
Named(world) ==
    IF setup.port # "none" THEN {Host(world, Domain, setup.port, 1)}
    ELSE IF setup.build = "addrinfo"
         THEN {Host(world, world.records[i].host, world.records[i].port, i) : i \in DOMAIN world.records}
    ELSE Resolve(world)

\* What has been named, and accepts connections.
Names(world, h, p) ==
    IF setup.port # "none" THEN h = Domain /\ p = setup.port
    ELSE IF setup.build = "addrinfo" THEN \E i \in RecordsOf(world, h) : world.records[i].port = p
    ELSE IF setup.build = "plain" \/ ~world.whole \/ \A k \in Listable : RecordsOf(world, k) = {}
         THEN h = Domain /\ p = "5222"
    ELSE \E i \in RecordsOf(world, h) :
            /\ world.records[i].port = p
            /\ \A j \in RecordsOf(world, h) : Before(i, j)
Reachable(world) ==
    {to \in HostNames \X Ports : Names(world, to[1], to[2]) /\ world.accepts[to[1]] = to[2]}
-----------------------------------------------------------------------------
(***************************************************************************)
(* Descriptors: an error is a descriptor of -1.                            *)
(***************************************************************************)
FreeFds == (1 .. MaxFds) \ open
GetSocket == IF FreeFds = {} THEN {-1} ELSE FreeFds
Made(fd) == {fd} \ {-1}

Closed(fd) == open \ {fd}

\* There are descriptors for one that accepts and for those that nobody knows.
Enough(hosts) == Cardinality(FreeFds) > Cardinality({r \in hosts : r.answer = "unknown"})
-----------------------------------------------------------------------------
(***************************************************************************)
(* The client's connection.                                                *)
(***************************************************************************)
\* cleanup(): a thread that finds a mutex taken leaves everything as it is.
CleanupUnlocked(thread) ==      \* mutant: a thread that reads is not waited for
    /\ sender = "free"
    /\ tcp' = Fresh /\ open' = Closed(tcp.socket)
    /\ broken' = FALSE /\ skipped' = FALSE /\ stale' = (at["app"] = "opening")
Cleanup(thread) ==
    IF sender = "free" /\ reader = "free"
    THEN /\ tcp' = Fresh /\ open' = Closed(tcp.socket)
         /\ broken' = FALSE /\ skipped' = FALSE /\ stale' = (at["app"] = "opening")
    ELSE /\ skipped' = (skipped \/ tcp.socket >= 0)
         /\ stale' = (stale \/ (thread = "app" /\ at["app"] = "failed"))
         /\ UNCHANGED <<tcp, open, broken>>

Goes(thread, to) == at' = [at EXCEPT ![thread] = to]

\* connect(): a connection that stands is left alone.
Connect ==
    /\ at["app"] = "idle" /\ sender = "free" /\ connects < MaxConnects
    /\ connects' = connects + 1
    /\ IF tcp.socket >= 0 /\ tcp.state # "disconnected"
       THEN UNCHANGED <<tcp, sender, at, trying, asked>>
       ELSE \E world \in Worlds :
               /\ tcp' = [tcp EXCEPT !.state = "connecting"]
               /\ sender' = "app" /\ Goes("app", "trying")
               /\ trying' = Named(world)
               /\ asked' = [NotAsked EXCEPT !.reachable = Reachable(world), !.enough = Enough(Named(world))]
    /\ UNCHANGED <<setup, open, lost, reader, broken, skipped, stale>> /\ UNCHANGED serverVars

\* DNS::connect() returns a descriptor, or an error.
Returns(fd, came) ==
    /\ tcp' = [tcp EXCEPT !.socket = fd]
    /\ asked' = [asked EXCEPT !.result = fd, !.came = came]
    /\ trying' = {} /\ sender' = "free" /\ Goes("app", "connecting")

\* One host: the socket is made before the name is looked up, and when that fails nobody
\* closes it; one that is refused is closed.
OnlyOne(r) == trying' = {} /\ UNCHANGED <<tcp, sender, at, asked>>     \* mutant: the others are not tried
Fails(r) == trying' = trying \ {r} /\ UNCHANGED <<tcp, sender, at, asked>>
Try ==
    /\ at["app"] = "trying"
    /\ \E r \in trying, fd \in GetSocket :
          /\ \A other \in trying : r.place <= other.place
          /\ \/ /\ fd = -1 \/ r.answer = "refuses"
                /\ Fails(r) /\ UNCHANGED <<open, lost>>
             \/ /\ fd # -1 /\ r.answer = "unknown"
                /\ Fails(r) /\ open' = open \cup {fd} /\ lost' = lost \cup {fd}
             \/ /\ fd # -1 /\ r.answer = "accepts"
                /\ Returns(fd, <<r.host, r.port>>) /\ open' = open \cup {fd} /\ UNCHANGED lost
    /\ UNCHANGED <<setup, reader, broken, skipped, stale, connects>> /\ UNCHANGED serverVars
GiveUp ==
    /\ at["app"] = "trying" /\ trying = {}
    /\ Returns(-1, <<>>)
    /\ UNCHANGED <<setup, open, lost, reader, broken, skipped, stale, connects>> /\ UNCHANGED serverVars

\* The rest of connect() runs without a mutex.  It looks whether there is a socket; if
\* not, the handler is told and cleans up.
Looked ==
    /\ at["app"] = "connecting" /\ asked' = NotAsked
    /\ Goes("app", IF tcp.socket < 0 THEN "failed" ELSE "opening")
    /\ UNCHANGED <<setup, open, lost, tcp, sender, reader, trying, broken, skipped, stale, connects>>
    /\ UNCHANGED serverVars
ConnectFails ==
    /\ at["app"] = "failed" /\ Goes("app", "idle")
    /\ Cleanup("app")
    /\ UNCHANGED <<setup, lost, sender, reader, trying, asked, connects>> /\ UNCHANGED serverVars

\* The state and the flag are set, each before or after those of a cleanup() that the
\* reading thread has meanwhile done.
Crossed == tcp.socket < 0
ConnectEnds ==
    /\ at["app"] = "opening" /\ Goes("app", "idle")
    /\ \E state \in {"connected"} \cup {s \in {tcp.state} : Crossed},
          cancel \in {FALSE} \cup {c \in {tcp.cancel} : Crossed} :
             tcp' = [tcp EXCEPT !.state = state, !.cancel = cancel]
    /\ UNCHANGED <<setup, open, lost, sender, reader, trying, connects>>
    /\ UNCHANGED historyVars /\ UNCHANGED serverVars

\* send(), by the application or by a handler that was called while reading.  Without a
\* socket or data it holds the mutex, too.
MaySend(thread) == IF thread = "app" THEN "idle" ELSE "handling"
Send(thread) ==
    /\ at[thread] = MaySend(thread) /\ sender = "free"
    /\ sender' = thread
    /\ \/ Goes(thread, "declined")
       \/ tcp.socket >= 0 /\ Goes(thread, "sending")
    /\ UNCHANGED <<setup, open, lost, tcp, reader, trying, connects>>
    /\ UNCHANGED historyVars /\ UNCHANGED serverVars
SendEnds(thread) ==
    /\ at[thread] \in {"sending", "declined"} /\ sender' = "free"
    /\ \/ Goes(thread, MaySend(thread)) /\ UNCHANGED broken
       \/ at[thread] = "sending" /\ Goes(thread, "told") /\ broken' = TRUE
    /\ UNCHANGED <<setup, open, lost, tcp, reader, trying, asked, skipped, stale, connects>>
    /\ UNCHANGED serverVars

\* The handler of a connection that broke cleans up.
Told(thread) ==
    /\ at[thread] = "told" /\ Goes(thread, "idle")
    /\ Cleanup(thread)
    /\ UNCHANGED <<setup, lost, sender, reader, trying, asked, connects>> /\ UNCHANGED serverVars

\* recv(), as receive() calls it until it is cancelled, and as it can be called.
Recv ==
    /\ at["reading"] = "idle" /\ reader = "free"
    /\ reader' = "reading"
    /\ Goes("reading", IF tcp.cancel \/ tcp.socket < 0 THEN "refused" ELSE "reading")
    /\ UNCHANGED <<setup, open, lost, tcp, sender, trying, connects>>
    /\ UNCHANGED historyVars /\ UNCHANGED serverVars
RecvEnds ==
    /\ at["reading"] \in {"reading", "refused"} /\ reader' = "free"
    /\ \/ Goes("reading", "idle") /\ UNCHANGED broken
       \/ at["reading"] = "reading" /\ Goes("reading", "handling") /\ UNCHANGED broken
       \/ at["reading"] = "reading" /\ Goes("reading", "told") /\ broken' = TRUE
    /\ UNCHANGED <<setup, open, lost, tcp, sender, trying, asked, skipped, stale, connects>>
    /\ UNCHANGED serverVars
Handled ==
    /\ at["reading"] = "handling" /\ Goes("reading", "idle")
    /\ UNCHANGED <<setup, open, lost, tcp, sender, reader, trying, connects>>
    /\ UNCHANGED historyVars /\ UNCHANGED serverVars

\* disconnect() waits until nobody reads, and keeps others from it; cleanup() may follow.
\* The application calls them, or a handler.
Disconnect(thread) ==
    /\ at[thread] = MaySend(thread) /\ reader = "free"
    /\ reader' = thread /\ Goes(thread, "cancelling")
    /\ UNCHANGED <<setup, open, lost, tcp, sender, trying, connects>>
    /\ UNCHANGED historyVars /\ UNCHANGED serverVars
DisconnectEnds(thread) ==
    /\ at[thread] = "cancelling" /\ Goes(thread, MaySend(thread))
    /\ tcp' = [tcp EXCEPT !.cancel = TRUE] /\ reader' = "free"
    /\ UNCHANGED <<setup, open, lost, sender, trying, connects>>
    /\ UNCHANGED historyVars /\ UNCHANGED serverVars
CleanUp(thread) ==
    /\ at[thread] = MaySend(thread) /\ tcp # Fresh
    /\ Cleanup(thread)
    /\ UNCHANGED <<setup, lost, sender, reader, at, trying, asked, connects>> /\ UNCHANGED serverVars
-----------------------------------------------------------------------------
(***************************************************************************)
(* The listener.                                                           *)
(***************************************************************************)
clientVars == <<setup, lost, tcp, sender, reader, at, trying, connects>>

\* A socket that cannot be bound is kept, and the next connect() is content with it.
Listen ==
    /\ at["app"] = "idle" /\ server.socket < 0 /\ server.state = "disconnected"
    /\ \E fd \in GetSocket, listening \in BOOLEAN :
          /\ open' = open \cup Made(fd)
          /\ server' = [socket |-> fd, state |-> "connecting", cancel |-> fd < 0 \/ ~listening]
    /\ UNCHANGED clientVars /\ UNCHANGED historyVars /\ UNCHANGED <<accepted, accepts>>

\* recv(): accept() may fail, and a connection without a socket is handed out.
Accept ==
    /\ at["app"] = "idle" /\ ~server.cancel /\ server.socket >= 0 /\ accepts < MaxAccepts
    /\ accepts' = accepts + 1
    /\ \E fd \in GetSocket : open' = open \cup Made(fd) /\ accepted' = accepted \cup {fd}
    /\ UNCHANGED clientVars /\ UNCHANGED historyVars /\ UNCHANGED server

\* The application deletes a connection that was handed out.
Drop(fd) ==
    /\ at["app"] = "idle"
    /\ accepted' = accepted \ {fd} /\ open' = Closed(fd)
    /\ UNCHANGED clientVars /\ UNCHANGED historyVars /\ UNCHANGED <<server, accepts>>

CloseServer ==
    /\ at["app"] = "idle" /\ server # Fresh
    /\ server' = Fresh /\ open' = Closed(server.socket)
    /\ UNCHANGED clientVars /\ UNCHANGED historyVars /\ UNCHANGED <<accepted, accepts>>

Listener == Listen \/ Accept \/ (\E fd \in accepted : Drop(fd)) \/ CloseServer
Client ==
    \/ Connect \/ Try \/ GiveUp \/ Looked \/ ConnectFails \/ ConnectEnds \/ Recv \/ RecvEnds \/ Handled
    \/ \E thread \in Threads :
          \/ Send(thread) \/ SendEnds(thread) \/ Told(thread)
          \/ Disconnect(thread) \/ DisconnectEnds(thread) \/ CleanUp(thread)
Next == Client \/ Listener

Spec == Init /\ [][Next]_vars
-----------------------------------------------------------------------------
(***************************************************************************)
(* Properties.                                                             *)
(***************************************************************************)
\* Every descriptor of the process belongs to one connection, or was lost for a name that
\* nobody knows (DNS::connect), and whoever waits on one or writes to it has it open,
\* whatever the other thread does meanwhile (the mutexes of ConnectionTCPBase).
Owned == accepted \cup {tcp.socket, server.socket}
DescriptorsKept ==
    /\ {fd \in Owned : fd > 0} \cap lost = {}
    /\ open = {fd \in Owned : fd > 0} \cup lost
    /\ tcp.socket > 0 => tcp.socket # server.socket /\ tcp.socket \notin accepted
    /\ server.socket > 0 => server.socket \notin accepted
    /\ \A thread \in Threads : at[thread] \in {"sending", "reading"} => tcp.socket \in open

\* connect() fails only if nothing that was named can be reached or descriptors run out,
\* and comes to a host that was named, on its port (DNS::connect, DNS::resolve).
ReachesReachable ==
    /\ asked.result < 0 => asked.reachable = {} \/ ~asked.enough
    /\ asked.result > 0 => asked.came \in asked.reachable

\* A client that has met the end of its connection can make another one, unless its
\* cleanup found another thread inside the connection (ConnectionTCPBase::cleanup): the
\* state is the descriptor's, and a connection that stands is not the one that broke.
\* Only a cleanup that came between the last steps of connect(), or was skipped when it
\* had failed, leaves a state without a descriptor, which connect() starts over from.
ClosedForGood ==
    (\A thread \in Threads : at[thread] = "idle") =>
        /\ \/ tcp.state = IF tcp.socket > 0 THEN "connected" ELSE "disconnected"
           \/ stale /\ tcp.socket < 0
        /\ broken => skipped

SocketsKept == DescriptorsKept /\ ReachesReachable /\ ClosedForGood
=============================================================================
