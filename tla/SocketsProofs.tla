--------------------------- MODULE SocketsProofs ---------------------------
(***************************************************************************)
(* Proofs that descriptors are kept, that connect() reaches what can be    *)
(* reached, that a connection that broke is closed or known to be held by  *)
(* the other thread, and that its state goes with its descriptor or is     *)
(* known to be stale: for any names, answers, numbers of descriptors and   *)
(* calls, and every interleaving of the two threads.                       *)
(***************************************************************************)
EXTENDS Sockets, FiniteSetTheorems, WellFoundedInduction, TLAPS

(***************************************************************************)
(* Names: what is tried is what has been named.                            *)
(***************************************************************************)
LEMMA BoundsType == MaxFds \in Nat /\ MaxRecords \in Nat
  BY SocketsAssumption

\* Of the records of a host there is a first and a last one, of which one is kept.
LEMMA OneIsKept ==
    ASSUME NEW world \in Worlds, NEW host, RecordsOf(world, host) # {}
    PROVE  LET kept == CHOOSE i \in RecordsOf(world, host) :
                           \A j \in RecordsOf(world, host) : Before(i, j)
           IN  kept \in RecordsOf(world, host) /\ \A j \in RecordsOf(world, host) : Before(kept, j)
  <1> DEFINE R == RecordsOf(world, host)
  <1>1. PICK n \in Nat : R \subseteq 1 .. n
    <2>1. PICK n \in 0 .. MaxRecords : world.records \in [1 .. n -> Records] BY DEF Worlds
    <2>2. n \in Nat BY BoundsType
    <2>3. DOMAIN world.records = 1 .. n BY <2>1
    <2>4. R \subseteq 1 .. n BY <2>3 DEF RecordsOf
    <2> QED BY <2>2, <2>4
  <1>2. ASSUME NEW S \in SUBSET Nat, S # {}
        PROVE  \E i \in S : \A j \in S : i <= j
    <2>1. PICK i \in S : \A k \in S : ~(<<k, i>> \in OpToRel(<, Nat))
      BY <1>2, NatLessThanWellFounded, WFMin
    <2>2. ASSUME NEW k \in S PROVE i <= k
      <3>1. ~(k < i) BY <2>1 DEF OpToRel
      <3> QED BY <3>1
    <2> QED BY <2>2
  <1>3. \E i \in R : \A j \in R : i <= j
    BY <1>1, <1>2
  <1>4. \E i \in R : \A j \in R : i >= j
    <2> DEFINE T == {k \in Nat : n - k \in R}
    <2>1. T # {}
      <3>1. PICK i \in R : TRUE OBVIOUS
      <3>2. n - i \in Nat /\ n - (n - i) = i BY <3>1, <1>1
      <3> QED BY <3>1, <3>2
    <2>2. PICK k \in T : \A j \in T : k <= j BY <1>2, <2>1
    <2>3. ASSUME NEW j \in R PROVE n - k >= j
      <3>1. n - j \in Nat /\ n - (n - j) = j BY <1>1
      <3>2. n - j \in T BY <3>1
      <3> QED BY <3>1, <3>2, <2>2, <1>1
    <2> QED BY <2>2, <2>3
  <1>5. \E i \in R : \A j \in R : Before(i, j)
    BY <1>3, <1>4 DEF Before
  <1> QED BY <1>5

LEMMA HostNamesFinite == IsFiniteSet(HostNames)
  <1> DEFINE f == [i \in DOMAIN Hosts |-> Hosts[i]]
  <1>1. IsFiniteSet(DOMAIN Hosts)
    <2>1. DOMAIN Hosts = 1 .. Len(Hosts) /\ Len(Hosts) \in Nat BY SocketsAssumption
    <2> QED BY <2>1, FS_Interval
  <1>2. f \in Surjection(DOMAIN Hosts, HostNames)
    BY DEF Surjection, HostNames
  <1> QED BY <1>1, <1>2, FS_Surjection

LEMMA OneIsFirst ==
    ASSUME NEW i \in Nat, NEW j \in Nat, Before(i, j), Before(j, i)
    PROVE  i = j
  BY DEF Before

\* A world is what Worlds says, with numbered records.
LEMMA WorldType ==
    ASSUME NEW world \in Worlds
    PROVE  /\ \A h \in HostNames : world.accepts[h] \in Ports \cup {"none", "unknown"}
           /\ \A i \in DOMAIN world.records : world.records[i] \in Records
           /\ IsFiniteSet(DOMAIN world.records)
  <1>1. PICK n \in 0 .. MaxRecords : world.records \in [1 .. n -> Records] BY DEF Worlds
  <1>2. n \in Nat BY BoundsType
  <1>3. DOMAIN world.records = 1 .. n BY <1>1
  <1>4. IsFiniteSet(DOMAIN world.records) BY <1>2, <1>3, FS_Interval
  <1>5. world.accepts \in [HostNames -> Ports \cup {"none", "unknown"}] BY DEF Worlds
  <1> QED BY <1>1, <1>4, <1>5

\* The hosts that connect() tries are finitely many.
LEMMA NamedFinite ==
    ASSUME NEW world \in Worlds
    PROVE  IsFiniteSet(Named(world))
  <1>1. IsFiniteSet(Listed(world))
    <2> DEFINE S == {k \in Listable : RecordsOf(world, k) # {}}
               f == [h \in S |-> Host(world, h, PortOf(world, h), PlaceOf(h))]
    <2>1. IsFiniteSet(HostNames \cup {NoName}) BY HostNamesFinite, FS_AddElement
    <2>2. S \in SUBSET (HostNames \cup {NoName}) BY DEF Listable
    <2>3. IsFiniteSet(S) BY <2>1, <2>2, FS_Subset
    <2>4. f \in Surjection(S, Listed(world)) BY DEF Surjection, Listed
    <2> QED BY <2>3, <2>4, FS_Surjection
  <1>2. IsFiniteSet({Host(world, world.records[i].host, world.records[i].port, i) : i \in DOMAIN world.records})
    <2> DEFINE T == {Host(world, world.records[i].host, world.records[i].port, i) : i \in DOMAIN world.records}
               f == [i \in DOMAIN world.records |-> Host(world, world.records[i].host, world.records[i].port, i)]
    <2>1. f \in Surjection(DOMAIN world.records, T) BY DEF Surjection
    <2> QED BY <2>1, WorldType, FS_Surjection
  <1>3. \A r : IsFiniteSet({r}) BY FS_Singleton
  <1> QED BY <1>1, <1>2, <1>3 DEF Named, Resolve, DefaultHostMap

\* A name is that of a host, and a port one that can be.
LEMMA DomainType ==
    /\ Domain \in HostNames /\ Domain # NoName
    /\ "5222" \in Ports
    /\ setup \in Setups => setup.port \in Ports \cup {"none"}
  <1>1. 1 \in DOMAIN Hosts BY SocketsAssumption
  <1>2. Domain \in HostNames /\ NoName \notin HostNames BY <1>1, SocketsAssumption DEF Domain, HostNames
  <1>3. setup \in Setups => setup.port \in Ports \cup {"none"} BY SocketsAssumption
  <1> QED BY <1>2, <1>3 DEF Ports

\* A host answers as the world says.
LEMMA HostAnswers ==
    ASSUME NEW world, NEW h, NEW p, NEW place
    PROVE  /\ Host(world, h, p, place).host = h
           /\ Host(world, h, p, place).port = p
           /\ (Host(world, h, p, place).answer = "accepts") <=> (h # NoName /\ world.accepts[h] = p)
  BY DEF Host

\* The map from hosts has of each the port that has been named for it.
LEMMA ListedNamed ==
    ASSUME NEW world \in Worlds, NEW h \in HostNames, NEW p \in Ports
    PROVE  (\E r \in Listed(world) : r.host = h /\ r.port = p)
           <=> \E i \in RecordsOf(world, h) :
                  /\ world.records[i].port = p
                  /\ \A j \in RecordsOf(world, h) : Before(i, j)
  <1>1. h \in Listable BY DEF Listable
  <1>2. ASSUME NEW r \in Listed(world), r.host = h, r.port = p
        PROVE  \E i \in RecordsOf(world, h) :
                  /\ world.records[i].port = p
                  /\ \A j \in RecordsOf(world, h) : Before(i, j)
    <2>1. PICK k \in Listable : RecordsOf(world, k) # {} /\ r = Host(world, k, PortOf(world, k), PlaceOf(k))
      BY <1>2 DEF Listed
    <2>2. k = h /\ PortOf(world, h) = p BY <1>2, <2>1, HostAnswers
    <2> QED BY <2>1, <2>2, OneIsKept DEF PortOf
  <1>3. ASSUME NEW i \in RecordsOf(world, h), world.records[i].port = p,
               \A j \in RecordsOf(world, h) : Before(i, j)
        PROVE  \E r \in Listed(world) : r.host = h /\ r.port = p
    <2> DEFINE kept == CHOOSE k \in RecordsOf(world, h) : \A j \in RecordsOf(world, h) : Before(k, j)
    <2>1. kept \in RecordsOf(world, h) /\ \A j \in RecordsOf(world, h) : Before(kept, j)
      BY <1>3, OneIsKept
    <2>2. Before(kept, i) /\ Before(i, kept) BY <1>3, <2>1
    <2>3. kept \in Nat /\ i \in Nat
      <3>1. PICK n \in 0 .. MaxRecords : world.records \in [1 .. n -> Records] BY DEF Worlds
      <3>2. DOMAIN world.records = 1 .. n /\ n \in Nat BY <3>1, BoundsType
      <3> QED BY <3>2, <2>1 DEF RecordsOf
    <2>4. kept = i BY <2>2, <2>3, OneIsFirst
    <2>5. PortOf(world, h) = p BY <1>3, <2>4 DEF PortOf
    <2>6. Host(world, h, PortOf(world, h), PlaceOf(h)) \in Listed(world)
      BY <1>1, <1>3 DEF Listed
    <2> QED BY <2>5, <2>6, HostAnswers
  <1> QED BY <1>2, <1>3

\* A list is empty if none of its records names a host.
LEMMA ListedEmpty ==
    ASSUME NEW world \in Worlds
    PROVE  Listed(world) = {} <=> \A k \in Listable : RecordsOf(world, k) = {}
  BY DEF Listed

\* What connect() goes through is what has been named.
LEMMA NamedIsNamed ==
    ASSUME setup \in Setups, NEW world \in Worlds, NEW h \in HostNames, NEW p \in Ports
    PROVE  (\E r \in Named(world) : r.host = h /\ r.port = p) <=> Names(world, h, p)
  <1>1. CASE setup.port # "none"
    BY <1>1, HostAnswers DEF Named, Names
  <1>2. CASE setup.port = "none" /\ setup.build = "addrinfo"
    BY <1>2, HostAnswers DEF Named, Names, RecordsOf
  <1>3. CASE setup.port = "none" /\ setup.build # "addrinfo"
    <2>1. Named(world) = Resolve(world) BY <1>3 DEF Named
    <2>2. CASE setup.build = "plain" \/ ~world.whole \/ Listed(world) = {}
      <3>1. Named(world) = {Host(world, Domain, "5222", 1)} BY <2>1, <2>2 DEF Resolve, DefaultHostMap
      <3>2. Names(world, h, p) <=> h = Domain /\ p = "5222" BY <1>3, <2>2, ListedEmpty DEF Names
      <3> QED BY <3>1, <3>2, HostAnswers
    <2>3. CASE ~(setup.build = "plain" \/ ~world.whole \/ Listed(world) = {})
      <3>1. Named(world) = Listed(world) BY <2>1, <2>3 DEF Resolve
      <3>2. Names(world, h, p) <=> \E i \in RecordsOf(world, h) :
                                      /\ world.records[i].port = p
                                      /\ \A j \in RecordsOf(world, h) : Before(i, j)
        BY <1>3, <2>3, ListedEmpty DEF Names
      <3> QED BY <3>1, <3>2, ListedNamed
    <2> QED BY <2>2, <2>3
  <1> QED BY <1>1, <1>2, <1>3

\* Whoever is tried and accepts is one that can be reached, and with one that can be
\* reached there is one to try that accepts.
LEMMA ReachableTried ==
    ASSUME setup \in Setups, NEW world \in Worlds
    PROVE  /\ \A r \in Named(world) : r.answer = "accepts" => <<r.host, r.port>> \in Reachable(world)
           /\ Reachable(world) # {} => \E r \in Named(world) : r.answer = "accepts"
  <1>1. ASSUME NEW r \in Named(world)
        PROVE  /\ r.host \in HostNames \cup {NoName} /\ r.port \in Ports
               /\ r.answer = "accepts" <=> r.host # NoName /\ world.accepts[r.host] = r.port
    <2>1. PICK h, p, place : r = Host(world, h, p, place) /\ h \in HostNames \cup {NoName} /\ p \in Ports
      <3>1. CASE setup.port # "none"
        BY <3>1, DomainType DEF Named
      <3>2. CASE setup.port = "none" /\ setup.build = "addrinfo"
        <4>1. PICK i \in DOMAIN world.records : r = Host(world, world.records[i].host, world.records[i].port, i)
          BY <3>2 DEF Named
        <4>2. world.records[i] \in Records BY WorldType
        <4> QED BY <4>1, <4>2 DEF Records
      <3>3. CASE setup.port = "none" /\ setup.build # "addrinfo"
        <4>1. r \in DefaultHostMap(world) \/ r \in Listed(world) BY <3>3 DEF Named, Resolve
        <4>2. CASE r \in DefaultHostMap(world) BY <4>2, DomainType DEF DefaultHostMap
        <4>3. CASE r \in Listed(world)
          <5>1. PICK k \in Listable : RecordsOf(world, k) # {} /\ r = Host(world, k, PortOf(world, k), PlaceOf(k))
            BY <4>3 DEF Listed
          <5>2. PortOf(world, k) \in Ports
            <6> DEFINE kept == CHOOSE i \in RecordsOf(world, k) : \A j \in RecordsOf(world, k) : Before(i, j)
            <6>1. kept \in RecordsOf(world, k) BY <5>1, OneIsKept
            <6>2. world.records[kept] \in Records BY <6>1, WorldType DEF RecordsOf
            <6> QED BY <6>2 DEF PortOf, Records
          <5> QED BY <5>1, <5>2 DEF Listable
        <4> QED BY <4>1, <4>2, <4>3
      <3> QED BY <3>1, <3>2, <3>3
    <2> QED BY <2>1, HostAnswers
  <1>2. ASSUME NEW r \in Named(world), r.answer = "accepts"
        PROVE  <<r.host, r.port>> \in Reachable(world)
    <2>1. r.host \in HostNames /\ r.port \in Ports /\ world.accepts[r.host] = r.port BY <1>1, <1>2
    <2>2. Names(world, r.host, r.port) BY <2>1, NamedIsNamed
    <2> QED BY <2>1, <2>2 DEF Reachable
  <1>3. ASSUME NEW to \in Reachable(world)
        PROVE  \E r \in Named(world) : r.answer = "accepts"
    <2>1. to[1] \in HostNames /\ to[2] \in Ports /\ Names(world, to[1], to[2]) /\ world.accepts[to[1]] = to[2]
      BY DEF Reachable
    <2>2. PICK r \in Named(world) : r.host = to[1] /\ r.port = to[2] BY <2>1, NamedIsNamed
    <2>3. to[1] # NoName BY <2>1, SocketsAssumption
    <2> QED BY <1>1, <2>1, <2>2, <2>3
  <1> QED BY <1>2, <1>3
-----------------------------------------------------------------------------
(***************************************************************************)
(* The inductive invariant.                                                *)
(***************************************************************************)
Fds == {-1} \cup (1 .. MaxFds)
Connections == [socket : Fds, state : {"disconnected", "connecting", "connected"}, cancel : BOOLEAN]
Connecting == {"trying", "connecting", "opening", "failed"}
Doings == Connecting \cup {"idle", "reading", "refused", "handling", "sending", "declined",
                           "cancelling", "told"}
Types ==
    /\ setup \in Setups
    /\ open \subseteq 1 .. MaxFds /\ lost \subseteq 1 .. MaxFds /\ accepted \subseteq Fds
    /\ tcp \in Connections /\ server \in Connections
    /\ sender \in Threads \cup {"free"} /\ reader \in Threads \cup {"free"}
    /\ at \in [Threads -> Doings]
    /\ at["app"] \notin {"reading", "refused", "handling"} /\ at["reading"] \notin Connecting
    /\ IsFiniteSet(trying)
    /\ asked \in [result : Fds \cup {0}, came : {<<>>} \cup (HostNames \X Ports),
                  reachable : SUBSET (HostNames \X Ports), enough : BOOLEAN]
    /\ broken \in BOOLEAN /\ skipped \in BOOLEAN /\ stale \in BOOLEAN

\* Descriptors: each has one owner.
Descriptors ==
    /\ open = {fd \in Owned : fd > 0} \cup lost
    /\ \A fd \in lost : fd \notin Owned
    /\ tcp.socket > 0 => tcp.socket # server.socket /\ tcp.socket \notin accepted
    /\ server.socket > 0 => server.socket \notin accepted

\* Who holds a mutex is where it is held, with a socket but while connect() looks for one.
Mutexes ==
    /\ sender = "app" <=> at["app"] \in {"trying", "sending", "declined"}
    /\ sender = "reading" <=> at["reading"] \in {"sending", "declined"}
    /\ reader = "app" <=> at["app"] = "cancelling"
    /\ reader = "reading" <=> at["reading"] \in {"reading", "refused", "cancelling"}
    /\ \A thread \in Threads : at[thread] \in {"sending", "reading"} => tcp.socket > 0

\* The state of the client's connection goes with its descriptor, or is known to be stale;
\* while connect() ends it may be crossed by a cleanup.
Stale == stale /\ tcp.socket = -1
States ==
    /\ tcp.state = "disconnected" => tcp.socket = -1
    /\ tcp.state = "connected" => tcp.socket > 0 \/ Stale
    /\ tcp.state = "connecting" => at["app"] \in Connecting \/ Stale
    /\ at["app"] = "trying" => tcp.socket = -1 /\ tcp.state = "connecting"
    /\ at["app"] = "opening" => tcp.socket > 0 \/ Stale
    /\ at["app"] = "failed" => tcp.socket = -1

\* A connection that broke is one that stands; who has met its end is about to clean up,
\* unless a cleanup has been skipped.
Ends == broken => tcp.socket > 0 /\ (skipped \/ \E thread \in Threads : at[thread] = "told")

\* While connect() goes through the hosts, one that accepts is still to come if there is
\* one, and so are the descriptors for those before it.
Hopes ==
    at["app"] = "trying" =>
        /\ asked.result = 0
        /\ \A r \in trying : r.answer = "accepts" => <<r.host, r.port>> \in asked.reachable
        /\ asked.enough => Enough(trying)
        /\ asked.enough /\ asked.reachable # {} => \E r \in trying : r.answer = "accepts"

SocketsInv ==
    /\ Types /\ Descriptors /\ Mutexes /\ States /\ Ends /\ Hopes
    /\ ReachesReachable

LEMMA InvSuffices ==
    ASSUME SocketsInv
    PROVE  SocketsKept
  <1>1. DescriptorsKept
    <2>1. \A thread \in Threads : at[thread] \in {"sending", "reading"} => tcp.socket \in open
      BY DEF SocketsInv, Mutexes, Descriptors, Owned
    <2> QED BY <2>1 DEF SocketsInv, Descriptors, DescriptorsKept
  <1>2. ClosedForGood
    BY BoundsType DEF SocketsInv, Types, States, Stale, Ends, ClosedForGood, Threads, Connections, Fds,
                      Connecting
  <1> QED BY <1>1, <1>2 DEF SocketsInv, SocketsKept

LEMMA InitInv ==
    ASSUME Init
    PROVE  SocketsInv
  <1>1. Types
    BY FS_EmptySet DEF Init, Types, Fresh, NotAsked, Connections, Fds, Doings, Connecting, Threads
  <1>2. Descriptors
    BY DEF Init, Descriptors, Owned, Fresh
  <1>3. Mutexes /\ States /\ Ends /\ Hopes /\ ReachesReachable
    BY DEF Init, Mutexes, States, Ends, Hopes, ReachesReachable, Fresh, NotAsked, Threads
  <1> QED BY <1>1, <1>2, <1>3 DEF SocketsInv
-----------------------------------------------------------------------------
(***************************************************************************)
(* The steps, one lemma for each action.                                   *)
(***************************************************************************)
\* The type of the client's connection and of what asked says, after each kind of change.
LEMMA FreshType == Fresh \in Connections /\ Fresh.socket = -1 /\ Fresh.state = "disconnected"
  BY DEF Fresh, Connections, Fds

\* cleanup() leaves every owner its own, whoever calls it: a thread that was told of the
\* end, connect() when it has failed, the application or a handler.
LEMMA CleanupKeeps ==
    ASSUME SocketsInv, NEW thread \in Threads, Cleanup(thread),
           UNCHANGED <<setup, lost, sender, reader, trying, asked>>, UNCHANGED serverVars,
           \/ at[thread] = "told" /\ at' = [at EXCEPT ![thread] = "idle"]
           \/ thread = "app" /\ at["app"] = "failed" /\ at' = [at EXCEPT !["app"] = "idle"]
           \/ at[thread] = MaySend(thread) /\ UNCHANGED at
    PROVE  SocketsInv'
  <1> USE BoundsType
  <1> DEFINE Inside == {"trying", "sending", "declined", "reading", "refused", "cancelling"}
  <1>1. /\ at' \in [Threads -> Doings]
        /\ \A other \in Threads :
              \/ at'[other] = at[other]
              \/ at[other] \in {"told", "failed"} /\ at'[other] = "idle" /\ other = thread
    BY DEF SocketsInv, Types, Doings
  <1>2. /\ \/ at'["app"] = at["app"]
           \/ at["app"] \in {"told", "failed"} /\ at'["app"] = "idle" /\ thread = "app"
        /\ \/ at'["reading"] = at["reading"]
           \/ at["reading"] \in {"told", "failed"} /\ at'["reading"] = "idle" /\ thread = "reading"
    BY <1>1 DEF Threads
  <1>a. /\ sender' = sender /\ reader' = reader /\ trying' = trying /\ asked' = asked
        /\ sender \in {"app", "reading", "free"} /\ reader \in {"app", "reading", "free"}
    BY DEF SocketsInv, Types, Threads
  <1>b. /\ at["app"] \in Inside => at'["app"] = at["app"]
        /\ at["reading"] \in Inside => at'["reading"] = at["reading"]
        /\ at["app"] \notin Inside => at'["app"] \notin Inside
        /\ at["reading"] \notin Inside => at'["reading"] \notin Inside
    BY <1>2
  <1>c. /\ sender = "app" <=> at["app"] \in {"trying", "sending", "declined"}
        /\ sender = "reading" <=> at["reading"] \in {"sending", "declined"}
        /\ reader = "app" <=> at["app"] = "cancelling"
        /\ reader = "reading" <=> at["reading"] \in {"reading", "refused", "cancelling"}
        /\ at["app"] \notin {"reading", "refused"} /\ at["reading"] # "trying"
        /\ at["app"] = "sending" \/ at["reading"] \in {"sending", "reading"} => tcp.socket > 0
        /\ tcp.socket \in Int
    BY DEF SocketsInv, Types, Mutexes, Threads, Connections, Fds, Connecting
  <1>3. Types'
    <2>1. tcp' \in Connections BY FreshType DEF Cleanup, SocketsInv, Types
    <2>2. open' \subseteq 1 .. MaxFds BY DEF Cleanup, SocketsInv, Types, Closed
    <2>3. broken' \in BOOLEAN /\ skipped' \in BOOLEAN /\ stale' \in BOOLEAN
      BY DEF Cleanup, SocketsInv, Types
    <2>5. at'["app"] \notin {"reading", "refused", "handling"} /\ at'["reading"] \notin Connecting
      BY <1>2 DEF SocketsInv, Types, Threads, Connecting
    <2> QED BY <1>1, <1>a, <2>1, <2>2, <2>3, <2>5 DEF SocketsInv, Types, serverVars
  <1>4. Descriptors'
    BY FreshType DEF SocketsInv, Types, Descriptors, Cleanup, Closed, Owned, serverVars, Connections, Fds
  <1>5. ASSUME sender = "free" /\ reader = "free"
        PROVE  Mutexes' /\ States' /\ Ends' /\ Hopes'
    <2>1. /\ tcp' = Fresh /\ broken' = FALSE /\ skipped' = FALSE
          /\ stale' = (at["app"] = "opening")
      BY <1>5 DEF Cleanup
    <2>2. at'["app"] \notin Inside /\ at'["reading"] \notin Inside
      <3>1. at["app"] \notin Inside /\ at["reading"] \notin Inside BY <1>5, <1>c
      <3> QED BY <3>1, <1>b
    <2>3. Mutexes' BY <1>5, <1>a, <2>2 DEF Mutexes, Threads
    <2>4. States'
      <3>1. at'["app"] = "opening" => stale' BY <1>2, <2>1
      <3> QED BY <2>1, <2>2, <3>1, FreshType DEF States, Stale
    <2>5. Ends' /\ Hopes' BY <2>1, <2>2 DEF Ends, Hopes, Threads
    <2> QED BY <2>3, <2>4, <2>5
  <1>6. ASSUME ~(sender = "free" /\ reader = "free")
        PROVE  Mutexes' /\ States' /\ Ends' /\ Hopes'
    <2>1. /\ tcp' = tcp /\ open' = open /\ broken' = broken /\ skipped' = (skipped \/ tcp.socket >= 0)
          /\ stale' = (stale \/ (thread = "app" /\ at["app"] = "failed"))
      BY <1>6 DEF Cleanup
    <2>3. Mutexes'
      <3>1. /\ sender' = "app" <=> at'["app"] \in {"trying", "sending", "declined"}
            /\ sender' = "reading" <=> at'["reading"] \in {"sending", "declined"}
            /\ reader' = "app" <=> at'["app"] = "cancelling"
            /\ reader' = "reading" <=> at'["reading"] \in {"reading", "refused", "cancelling"}
        BY <1>2, <1>a, <1>c
      <3>2. /\ at'["app"] \in {"sending", "reading"} => tcp.socket > 0
            /\ at'["reading"] \in {"sending", "reading"} => tcp.socket > 0
        BY <1>2, <1>c
      <3> QED BY <2>1, <3>1, <3>2 DEF Mutexes, Threads
    <2>4. States'
      <3>1. tcp.state = "connecting" => at'["app"] \in Connecting \/ Stale'
        <4>1. CASE at'["app"] = at["app"] BY <2>1, <4>1 DEF SocketsInv, States, Stale
        <4>2. CASE at["app"] = "told"
          BY <2>1, <4>2 DEF SocketsInv, States, Stale, Connecting
        <4>3. CASE at["app"] = "failed" /\ thread = "app"
          BY <2>1, <4>3 DEF SocketsInv, States, Stale
        <4> QED BY <1>2, <4>1, <4>2, <4>3
      <3>2. \A x \in Connecting : at'["app"] = x => at["app"] = x BY <1>2 DEF Connecting
      <3>3. Stale => Stale' BY <2>1 DEF Stale
      <3> QED BY <2>1, <3>1, <3>2, <3>3 DEF SocketsInv, States, Connecting
    <2>5. Ends'
      <3>1. broken => tcp.socket > 0 /\ tcp.socket >= 0 BY <1>c DEF SocketsInv, Ends
      <3> QED BY <2>1, <3>1 DEF Ends
    <2>6. Hopes'
      <3>1. at'["app"] = "trying" => at["app"] = "trying" BY <1>2
      <3>2. Enough(trying)' <=> Enough(trying) BY <1>a, <2>1 DEF Enough, FreeFds
      <3> QED BY <1>a, <3>1, <3>2 DEF SocketsInv, Hopes
    <2> QED BY <2>3, <2>4, <2>5, <2>6
  <1>7. ReachesReachable'
    BY <1>a DEF SocketsInv, ReachesReachable
  <1> QED BY <1>3, <1>4, <1>5, <1>6, <1>7 DEF SocketsInv

LEMMA ConnectKeeps ==
    ASSUME SocketsInv, Connect
    PROVE  SocketsInv'
  <1> USE BoundsType
  <1>1. CASE UNCHANGED <<tcp, sender, at, trying, asked>>
    BY <1>1 DEF Connect, SocketsInv, Types, Descriptors, Mutexes, States, Stale, Ends, Hopes, Owned,
                Enough, FreeFds, ReachesReachable, serverVars
  <1>2. CASE ~(tcp.socket >= 0 /\ tcp.state # "disconnected")
    <2>1. PICK world \in Worlds :
              /\ tcp' = [tcp EXCEPT !.state = "connecting"]
              /\ sender' = "app" /\ at' = [at EXCEPT !["app"] = "trying"]
              /\ trying' = Named(world)
              /\ asked' = [NotAsked EXCEPT !.reachable = Reachable(world), !.enough = Enough(Named(world))]
      BY <1>2 DEF Connect, Goes
    <2>2. /\ at["app"] = "idle" /\ sender = "free"
          /\ UNCHANGED <<setup, open, lost, reader, broken, skipped, stale>> /\ UNCHANGED serverVars
      BY DEF Connect
    <2>3. tcp.socket = -1
      BY <1>2 DEF SocketsInv, Types, States, Connections, Fds
    <2>4. /\ asked'.result = 0 /\ asked'.reachable = Reachable(world) /\ asked'.enough = Enough(Named(world))
          /\ asked' \in [result : Fds \cup {0}, came : {<<>>} \cup (HostNames \X Ports),
                         reachable : SUBSET (HostNames \X Ports), enough : BOOLEAN]
      <3>1. Reachable(world) \in SUBSET (HostNames \X Ports) BY DEF Reachable
      <3>2. Enough(Named(world)) \in BOOLEAN BY DEF Enough
      <3> QED BY <2>1, <3>1, <3>2 DEF NotAsked
    <2>5. Types'
      <3>1. tcp' \in Connections BY <2>1 DEF SocketsInv, Types, Connections
      <3>2. at' \in [Threads -> Doings] /\ at'["app"] = "trying" /\ at'["reading"] = at["reading"]
        BY <2>1 DEF SocketsInv, Types, Threads, Doings, Connecting
      <3>3. IsFiniteSet(trying') BY <2>1, NamedFinite
      <3> QED BY <2>1, <2>2, <2>4, <3>1, <3>2, <3>3 DEF SocketsInv, Types, serverVars, Threads
    <2>6. Descriptors'
      BY <2>1, <2>2 DEF SocketsInv, Types, Descriptors, Owned, serverVars, Connections
    <2>7. Mutexes'
      BY <2>1, <2>2, <2>3 DEF SocketsInv, Types, Mutexes, Threads, Connections
    <2>8. States'
      BY <2>1, <2>2, <2>3 DEF SocketsInv, Types, States, Stale, Threads, Connections, Connecting
    <2>9. Ends'
      BY <2>1, <2>2, <2>3 DEF SocketsInv, Types, Ends
    <2>10. Hopes'
      <3>1. (Enough(trying))' <=> Enough(Named(world)) BY <2>1, <2>2 DEF Enough, FreeFds
      <3>2. setup \in Setups BY DEF SocketsInv, Types
      <3> QED BY <2>1, <2>4, <3>1, <3>2, ReachableTried DEF Hopes
    <2>11. ReachesReachable' BY <2>4 DEF ReachesReachable
    <2> QED BY <2>5, <2>6, <2>7, <2>8, <2>9, <2>10, <2>11 DEF SocketsInv
  <1> QED BY <1>1, <1>2 DEF Connect

\* The descriptors that a host nobody knows costs are counted on both sides.
LEMMA EnoughAfter ==
    ASSUME SocketsInv, NEW r \in trying, trying' = trying \ {r}, Enough(trying),
           \/ UNCHANGED open
           \/ r.answer = "unknown" /\ \E fd \in FreeFds : open' = open \cup {fd}
    PROVE  Enough(trying)'
  <1> DEFINE U == {s \in trying : s.answer = "unknown"}
             V == {s \in trying' : s.answer = "unknown"}
  <1>1. IsFiniteSet(U)
    <2>1. IsFiniteSet(trying) BY DEF SocketsInv, Types
    <2> QED BY <2>1, FS_Subset
  <1>2. V = U \ {r} BY DEF U
  <1>3. IsFiniteSet(FreeFds) /\ Cardinality(FreeFds) \in Nat
    <2>1. IsFiniteSet(1 .. MaxFds) BY BoundsType, FS_Interval
    <2>2. FreeFds \in SUBSET (1 .. MaxFds) BY DEF FreeFds
    <2>3. IsFiniteSet(FreeFds) BY <2>1, <2>2, FS_Subset
    <2> QED BY <2>3, FS_CardinalityType
  <1>4. Cardinality(U) \in Nat BY <1>1, FS_CardinalityType
  <1>5. Cardinality(V) = IF r \in U THEN Cardinality(U) - 1 ELSE Cardinality(U)
    BY <1>1, <1>2, FS_RemoveElement
  <1>6. Cardinality(FreeFds) > Cardinality(U) BY DEF Enough
  <1>7. Cardinality(FreeFds') > Cardinality(V)
    <2>1. CASE UNCHANGED open
      <3>1. FreeFds' = FreeFds BY <2>1 DEF FreeFds
      <3> HIDE DEF U, V
      <3> QED BY <1>3, <1>4, <1>5, <1>6, <3>1
    <2>2. ASSUME r.answer = "unknown", NEW fd \in FreeFds, open' = open \cup {fd}
          PROVE  Cardinality(FreeFds') > Cardinality(V)
      <3>1. FreeFds' = FreeFds \ {fd} BY <2>2 DEF FreeFds
      <3>2. Cardinality(FreeFds') = Cardinality(FreeFds) - 1 BY <1>3, <3>1, <2>2, FS_RemoveElement
      <3>3. r \in U BY <2>2
      <3> HIDE DEF U, V
      <3> QED BY <1>3, <1>4, <1>5, <1>6, <3>2, <3>3
    <2> QED BY <2>1, <2>2
  <1> QED BY <1>7 DEF Enough

LEMMA TryKeeps ==
    ASSUME SocketsInv, Try
    PROVE  SocketsInv'
  <1> USE BoundsType
  <1>1. PICK r \in trying, fd \in GetSocket :
          \/ /\ fd = -1 \/ r.answer = "refuses"
             /\ Fails(r) /\ UNCHANGED <<open, lost>>
          \/ /\ fd # -1 /\ r.answer = "unknown"
             /\ Fails(r) /\ open' = open \cup {fd} /\ lost' = lost \cup {fd}
          \/ /\ fd # -1 /\ r.answer = "accepts"
             /\ Returns(fd, <<r.host, r.port>>) /\ open' = open \cup {fd} /\ UNCHANGED lost
    BY DEF Try
  <1>2. /\ at["app"] = "trying" /\ tcp.socket = -1 /\ asked.result = 0 /\ sender = "app"
        /\ UNCHANGED <<setup, reader, broken, skipped, stale>> /\ UNCHANGED serverVars
    BY DEF Try, SocketsInv, Mutexes, States, Hopes
  <1>3. fd # -1 => fd \in FreeFds /\ fd \in 1 .. MaxFds /\ fd \notin open
    BY <1>1 DEF GetSocket, FreeFds
  <1>4. ~broken BY <1>2 DEF SocketsInv, Ends
  <1>5. CASE Fails(r) /\ r.answer # "accepts" /\ UNCHANGED <<open, lost>>
    <2>1. Types'
      BY <1>2, <1>5, FS_RemoveElement DEF SocketsInv, Types, Fails, serverVars
    <2>2. Descriptors' /\ Mutexes' /\ States' /\ Ends' /\ ReachesReachable'
      BY <1>2, <1>5 DEF SocketsInv, Types, Descriptors, Mutexes, States, Stale, Ends, ReachesReachable,
                        Fails, serverVars, Owned
    <2>3. Hopes'
      <3>1. asked'.enough => Enough(trying)' BY <1>2, <1>5, EnoughAfter DEF SocketsInv, Hopes, Fails
      <3> QED BY <1>2, <1>5, <3>1 DEF SocketsInv, Hopes, Fails
    <2> QED BY <2>1, <2>2, <2>3 DEF SocketsInv
  <1>6. CASE fd = -1 /\ Fails(r) /\ UNCHANGED <<open, lost>>
    <2>1. ~asked.enough
      <3>1. FreeFds = {} BY <1>6, <1>1 DEF GetSocket, FreeFds
      <3>2. IsFiniteSet({s \in trying : s.answer = "unknown"})
        BY FS_Subset DEF SocketsInv, Types
      <3>3. Cardinality({s \in trying : s.answer = "unknown"}) \in Nat BY <3>2, FS_CardinalityType
      <3>4. ~Enough(trying) BY <3>1, <3>3, FS_EmptySet DEF Enough
      <3> QED BY <1>2, <3>4 DEF SocketsInv, Hopes
    <2>2. Types'
      BY <1>2, <1>6, FS_RemoveElement DEF SocketsInv, Types, Fails, serverVars
    <2>3. Descriptors' /\ Mutexes' /\ States' /\ Ends' /\ ReachesReachable'
      BY <1>2, <1>6 DEF SocketsInv, Types, Descriptors, Mutexes, States, Stale, Ends, ReachesReachable,
                        Fails, serverVars, Owned
    <2>4. Hopes' BY <1>2, <1>6, <2>1 DEF SocketsInv, Hopes, Fails
    <2> QED BY <2>2, <2>3, <2>4 DEF SocketsInv
  <1>7. CASE /\ fd # -1 /\ r.answer = "unknown"
             /\ Fails(r) /\ open' = open \cup {fd} /\ lost' = lost \cup {fd}
    <2>1. Types'
      BY <1>2, <1>3, <1>7, FS_RemoveElement DEF SocketsInv, Types, Fails, serverVars
    <2>2. Descriptors'
      BY <1>2, <1>3, <1>7 DEF SocketsInv, Types, Descriptors, Fails, serverVars, Owned
    <2>3. Mutexes' /\ States' /\ Ends' /\ ReachesReachable'
      BY <1>2, <1>7 DEF SocketsInv, Types, Mutexes, States, Stale, Ends, ReachesReachable, Fails
    <2>4. Hopes'
      <3>1. asked'.enough => Enough(trying)'
        BY <1>2, <1>3, <1>7, EnoughAfter DEF SocketsInv, Hopes, Fails
      <3> QED BY <1>2, <1>7, <3>1 DEF SocketsInv, Hopes, Fails
    <2> QED BY <2>1, <2>2, <2>3, <2>4 DEF SocketsInv
  <1>8. CASE /\ fd # -1 /\ r.answer = "accepts"
             /\ Returns(fd, <<r.host, r.port>>) /\ open' = open \cup {fd} /\ UNCHANGED lost
    <2>1. /\ tcp' = [tcp EXCEPT !.socket = fd] /\ tcp'.socket = fd /\ tcp'.state = tcp.state /\ tcp' \in Connections
          /\ trying' = {} /\ sender' = "free" /\ at' = [at EXCEPT !["app"] = "connecting"]
      BY <1>3, <1>8 DEF SocketsInv, Types, Connections, Returns, Goes, Fds
    <2>2. /\ asked'.result = fd /\ asked'.came = <<r.host, r.port>> /\ asked'.reachable = asked.reachable
          /\ <<r.host, r.port>> \in asked.reachable
          /\ asked' \in [result : Fds \cup {0}, came : {<<>>} \cup (HostNames \X Ports),
                         reachable : SUBSET (HostNames \X Ports), enough : BOOLEAN]
      <3>1. <<r.host, r.port>> \in asked.reachable BY <1>2, <1>8 DEF SocketsInv, Hopes
      <3> DEFINE came == <<r.host, r.port>>
      <3>2. asked' = [asked EXCEPT !.result = fd, !.came = came] BY <1>8 DEF Returns
      <3>3. came \in HostNames \X Ports BY <3>1 DEF SocketsInv, Types
      <3> HIDE DEF came
      <3>4. /\ asked'.result = fd /\ asked'.came = came /\ asked'.reachable = asked.reachable
            /\ asked' \in [result : Fds \cup {0}, came : {<<>>} \cup (HostNames \X Ports),
                           reachable : SUBSET (HostNames \X Ports), enough : BOOLEAN]
        BY <3>2, <3>3, <1>3 DEF SocketsInv, Types, Fds
      <3> QED BY <3>1, <3>4 DEF came
    <2>3. Types'
      BY <1>2, <1>3, <1>8, <2>1, <2>2, FS_EmptySet DEF SocketsInv, Types, Threads, Doings, Connecting, serverVars
    <2>4. Descriptors'
      BY <1>2, <1>3, <1>8, <2>1 DEF SocketsInv, Types, Descriptors, Owned, serverVars, Fds
    <2>a. /\ at'["app"] = "connecting" /\ at'["reading"] = at["reading"] /\ tcp.state = "connecting"
          /\ at["reading"] \notin {"sending", "declined", "reading"} /\ reader' = reader /\ tcp'.socket > 0
      <3>1. fd > 0 BY <1>3, <1>8
      <3>2. at'["app"] = "connecting" /\ at'["reading"] = at["reading"]
        BY <2>1 DEF SocketsInv, Types, Threads
      <3>3. at["reading"] \notin {"sending", "declined", "reading"} /\ reader' = reader
        BY <1>2 DEF SocketsInv, Types, Mutexes, Threads
      <3>4. tcp.state = "connecting" BY <1>2 DEF SocketsInv, States
      <3> QED BY <2>1, <3>1, <3>2, <3>3, <3>4
    <2>5. Mutexes' /\ States'
      <3>1. Mutexes' BY <1>2, <2>1, <2>a DEF SocketsInv, Mutexes, Threads
      <3> QED BY <2>1, <2>a, <3>1 DEF States, Connecting
    <2>6. Ends' /\ Hopes' BY <1>2, <1>4, <2>1 DEF SocketsInv, Types, Ends, Hopes, Threads
    <2>7. ReachesReachable' BY <1>3, <1>8, <2>2 DEF ReachesReachable
    <2> QED BY <2>3, <2>4, <2>5, <2>6, <2>7 DEF SocketsInv
  <1> QED BY <1>1, <1>5, <1>6, <1>7, <1>8

LEMMA GiveUpKeeps ==
    ASSUME SocketsInv, GiveUp
    PROVE  SocketsInv'
  <1> USE BoundsType
  <1>1. /\ at["app"] = "trying" /\ tcp.socket = -1 /\ sender = "app" /\ trying = {}
        /\ UNCHANGED <<setup, open, lost, reader, broken, skipped, stale>> /\ UNCHANGED serverVars
    BY DEF GiveUp, SocketsInv, Mutexes, States
  <1>2. /\ tcp' = [tcp EXCEPT !.socket = -1] /\ trying' = {} /\ sender' = "free"
        /\ asked' = [asked EXCEPT !.result = -1, !.came = <<>>]
        /\ at' = [at EXCEPT !["app"] = "connecting"]
    BY DEF GiveUp, Returns, Goes
  <1>3. tcp' = tcp BY <1>1, <1>2 DEF SocketsInv, Types, Connections
  <1>4. /\ asked'.result = -1 /\ asked'.reachable = asked.reachable /\ asked'.enough = asked.enough
        /\ asked' \in [result : Fds \cup {0}, came : {<<>>} \cup (HostNames \X Ports),
                       reachable : SUBSET (HostNames \X Ports), enough : BOOLEAN]
    BY <1>2 DEF SocketsInv, Types, Fds
  <1>5. Types'
    BY <1>1, <1>2, <1>3, <1>4, FS_EmptySet DEF SocketsInv, Types, Threads, Doings, Connecting, serverVars
  <1>6. Descriptors'
    BY <1>1, <1>3 DEF SocketsInv, Descriptors, Owned, serverVars
  <1>7. Mutexes' /\ States' /\ Ends' /\ Hopes'
    BY <1>1, <1>2, <1>3 DEF SocketsInv, Types, Mutexes, States, Stale, Ends, Hopes, Threads, Connecting
  <1>8. ReachesReachable'
    <2>1. asked.reachable = {} \/ ~asked.enough BY <1>1 DEF SocketsInv, Hopes
    <2> QED BY <1>4, <2>1 DEF ReachesReachable
  <1> QED BY <1>5, <1>6, <1>7, <1>8 DEF SocketsInv

\* What asked is when connect() was not asked, or has told what it came to.
LEMMA NotAskedType ==
    NotAsked \in [result : Fds \cup {0}, came : {<<>>} \cup (HostNames \X Ports),
                  reachable : SUBSET (HostNames \X Ports), enough : BOOLEAN]
  BY DEF NotAsked

LEMMA LookedKeeps ==
    ASSUME SocketsInv, Looked
    PROVE  SocketsInv'
  <1> USE BoundsType
  <1> DEFINE to == IF tcp.socket < 0 THEN "failed" ELSE "opening"
  <1>1. /\ at["app"] = "connecting" /\ at' = [at EXCEPT !["app"] = to] /\ asked' = NotAsked
        /\ UNCHANGED <<setup, open, lost, tcp, sender, reader, trying, broken, skipped, stale>>
        /\ UNCHANGED serverVars
    BY DEF Looked, Goes
  <1>2. to \in {"failed", "opening"} /\ (to = "failed" <=> tcp.socket < 0) OBVIOUS
  <1>3. tcp.socket \in Fds /\ (tcp.socket < 0 => tcp.socket = -1) /\ (~(tcp.socket < 0) => tcp.socket > 0)
    BY DEF SocketsInv, Types, Connections, Fds
  <1> HIDE DEF to
  <1>4. /\ at' \in [Threads -> Doings] /\ at'["app"] = to /\ at'["reading"] = at["reading"]
    BY <1>1, <1>2 DEF SocketsInv, Types, Doings, Connecting, Threads
  <1>5. Types'
    BY <1>1, <1>2, <1>4, NotAskedType DEF SocketsInv, Types, serverVars
  <1>6. Descriptors' BY <1>1 DEF SocketsInv, Descriptors, Owned, serverVars
  <1>7. Mutexes' BY <1>1, <1>2, <1>4 DEF SocketsInv, Mutexes, Threads
  <1>8. States' BY <1>1, <1>2, <1>3, <1>4 DEF SocketsInv, States, Stale, Connecting
  <1>9. Ends' BY <1>1, <1>2, <1>4 DEF SocketsInv, Ends, Threads
  <1>10. Hopes' BY <1>2, <1>4 DEF Hopes
  <1>11. ReachesReachable' BY <1>1 DEF ReachesReachable, NotAsked
  <1> QED BY <1>5, <1>6, <1>7, <1>8, <1>9, <1>10, <1>11 DEF SocketsInv

LEMMA ConnectFailsKeeps ==
    ASSUME SocketsInv, ConnectFails
    PROVE  SocketsInv'
  BY CleanupKeeps DEF ConnectFails, Goes, Threads

LEMMA ConnectEndsKeeps ==
    ASSUME SocketsInv, ConnectEnds
    PROVE  SocketsInv'
  <1>1. PICK state \in {"connected"} \cup {s \in {tcp.state} : Crossed},
             cancel \in {FALSE} \cup {c \in {tcp.cancel} : Crossed} :
                tcp' = [tcp EXCEPT !.state = state, !.cancel = cancel]
    BY DEF ConnectEnds
  <1>2. /\ at["app"] = "opening" /\ at' = [at EXCEPT !["app"] = "idle"]
        /\ UNCHANGED <<setup, open, lost, sender, reader, trying, asked, broken, skipped, stale>>
        /\ UNCHANGED serverVars
    BY DEF ConnectEnds, Goes, historyVars
  <1>3. tcp \in Connections BY DEF SocketsInv, Types
  <1>4. state \in {"disconnected", "connecting", "connected"} /\ cancel \in BOOLEAN
    BY <1>3 DEF Connections
  <1>5. tcp' \in Connections /\ tcp'.socket = tcp.socket /\ tcp'.state = state
    BY <1>1, <1>3, <1>4 DEF Connections
  <1>6. state = "connected" \/ tcp.socket < 0 BY DEF Crossed
  <1>7. tcp.socket > 0 \/ Stale BY <1>2 DEF SocketsInv, States
  <1>8. /\ at'["app"] = "idle" /\ at'["reading"] = at["reading"] /\ at' \in [Threads -> Doings]
    BY <1>2 DEF SocketsInv, Types, Threads, Doings
  <1>9. Types'
    BY <1>2, <1>5, <1>8 DEF SocketsInv, Types, serverVars
  <1>10. Descriptors' BY <1>2, <1>5 DEF SocketsInv, Descriptors, Owned, serverVars
  <1>11. Mutexes' BY <1>2, <1>5, <1>8 DEF SocketsInv, Mutexes, Threads
  <1>12. States'
    <2>1. Stale' <=> Stale BY <1>2, <1>5 DEF Stale
    <2>2. CASE Stale BY <1>5, <1>8, <2>1, <2>2 DEF States, Stale
    <2>3. CASE tcp.socket > 0
      <3>1. ~(tcp.socket < 0) BY <1>3, <2>3, BoundsType DEF Connections, Fds
      <3> QED BY <1>5, <1>6, <1>8, <2>3, <3>1 DEF States
    <2> QED BY <1>7, <2>2, <2>3
  <1>13. Ends' BY <1>2, <1>5, <1>8 DEF SocketsInv, Ends, Threads
  <1>14. Hopes' BY <1>8 DEF Hopes
  <1>15. ReachesReachable' BY <1>2 DEF SocketsInv, ReachesReachable
  <1> QED BY <1>9, <1>10, <1>11, <1>12, <1>13, <1>14, <1>15 DEF SocketsInv

\* A thread that goes somewhere, with or without a mutex, leaves what is owned as it is.
LEMMA MoveKeeps ==
    ASSUME SocketsInv, UNCHANGED <<setup, open, lost, tcp, trying, asked, skipped, stale>>,
           UNCHANGED serverVars,
           sender' \in Threads \cup {"free"}, reader' \in Threads \cup {"free"}, broken' \in BOOLEAN,
           at' \in [Threads -> Doings],
           at'["app"] \notin {"reading", "refused", "handling"}, at'["reading"] \notin Connecting,
           \A x \in Connecting : at'["app"] = x <=> at["app"] = x,
           Mutexes', Ends'
    PROVE  SocketsInv'
  <1>1. Types' BY DEF SocketsInv, Types, serverVars
  <1>2. Descriptors' BY DEF SocketsInv, Descriptors, Owned, serverVars
  <1>3. States' BY DEF SocketsInv, States, Stale, Connecting
  <1>4. Hopes' BY DEF SocketsInv, Hopes, Enough, FreeFds, Connecting
  <1>5. ReachesReachable' BY DEF SocketsInv, ReachesReachable
  <1> QED BY <1>1, <1>2, <1>3, <1>4, <1>5 DEF SocketsInv

LEMMA SendKeeps ==
    ASSUME SocketsInv, NEW thread \in Threads, Send(thread)
    PROVE  SocketsInv'
  <1>1. PICK to \in {"declined", "sending"} :
          at' = [at EXCEPT ![thread] = to] /\ (to = "sending" => tcp.socket >= 0)
    BY DEF Send, Goes
  <1>2. /\ sender = "free" /\ sender' = thread /\ (to = "sending" => tcp.socket > 0)
        /\ at[thread] = IF thread = "app" THEN "idle" ELSE "handling"
        /\ UNCHANGED <<setup, open, lost, tcp, reader, trying, asked, skipped, broken, stale>>
        /\ UNCHANGED serverVars
    BY <1>1, BoundsType DEF SocketsInv, Types, Connections, Fds, Send, MaySend, historyVars
  <1>3. /\ at' \in [Threads -> Doings]
        /\ \A other \in Threads : at'[other] = IF other = thread THEN to ELSE at[other]
    BY <1>1 DEF SocketsInv, Types, Doings
  <1>4. Mutexes' BY <1>2, <1>3 DEF SocketsInv, Types, Mutexes, Threads
  <1>5. Ends' BY <1>2, <1>3 DEF SocketsInv, Ends, Threads
  <1>6. /\ at'["app"] \notin {"reading", "refused", "handling"} /\ at'["reading"] \notin Connecting
        /\ \A x \in Connecting : at'["app"] = x <=> at["app"] = x
    BY <1>2, <1>3 DEF SocketsInv, Types, Threads, Connecting
  <1> QED BY <1>2, <1>3, <1>4, <1>5, <1>6, MoveKeeps DEF SocketsInv, Types

LEMMA SendEndsKeeps ==
    ASSUME SocketsInv, NEW thread \in Threads, SendEnds(thread)
    PROVE  SocketsInv'
  <1>1. PICK to \in {"idle", "handling", "told"} :
          /\ at' = [at EXCEPT ![thread] = to]
          /\ \/ to = "told" /\ broken' = TRUE /\ at[thread] = "sending"
             \/ to = MaySend(thread) /\ broken' = broken
    <2>1. CASE Goes(thread, MaySend(thread)) /\ UNCHANGED broken
      BY <2>1 DEF Goes, MaySend
    <2>2. CASE at[thread] = "sending" /\ Goes(thread, "told") /\ broken' = TRUE
      <3>1. at' = [at EXCEPT ![thread] = "told"] /\ broken' = TRUE /\ at[thread] = "sending"
        BY <2>2 DEF Goes
      <3>2. "told" \in {"idle", "handling", "told"} OBVIOUS
      <3> QED BY <3>1, <3>2, Zenon
    <2> QED BY <2>1, <2>2 DEF SendEnds
  <1>2. /\ at[thread] \in {"sending", "declined"} /\ sender' = "free" /\ sender = thread
        /\ (at[thread] = "sending" => tcp.socket > 0)
        /\ UNCHANGED <<setup, open, lost, tcp, reader, trying, asked, skipped, stale>> /\ UNCHANGED serverVars
    BY DEF SocketsInv, Mutexes, Threads, SendEnds
  <1>3. /\ at' \in [Threads -> Doings]
        /\ \A other \in Threads : at'[other] = IF other = thread THEN to ELSE at[other]
        /\ thread = "app" => to \in {"idle", "told"}
    BY <1>1 DEF SocketsInv, Types, Doings, MaySend
  <1>4. Mutexes' BY <1>2, <1>3 DEF SocketsInv, Types, Mutexes, Threads
  <1>5. Ends' BY <1>1, <1>2, <1>3 DEF SocketsInv, Ends, Threads
  <1>6. /\ at'["app"] \notin {"reading", "refused", "handling"} /\ at'["reading"] \notin Connecting
        /\ \A x \in Connecting : at'["app"] = x <=> at["app"] = x
    BY <1>2, <1>3 DEF SocketsInv, Types, Threads, Connecting
  <1>7. broken' \in BOOLEAN BY <1>1 DEF SocketsInv, Types
  <1> QED BY <1>2, <1>3, <1>4, <1>5, <1>6, <1>7, MoveKeeps DEF SocketsInv, Types

LEMMA ToldKeeps ==
    ASSUME SocketsInv, NEW thread \in Threads, Told(thread)
    PROVE  SocketsInv'
  BY CleanupKeeps DEF Told, Goes

LEMMA RecvKeeps ==
    ASSUME SocketsInv, Recv \/ RecvEnds
    PROVE  SocketsInv'
  <1>1. PICK to \in {"idle", "reading", "refused", "handling", "told"} :
          /\ at' = [at EXCEPT !["reading"] = to]
          /\ reader' = IF to \in {"reading", "refused"} THEN "reading" ELSE "free"
          /\ to \in {"reading", "told"} => tcp.socket > 0
          /\ \/ to = "told" /\ broken' = TRUE
             \/ to # "told" /\ broken' = broken
    <2>1. tcp.socket \in Fds BY DEF SocketsInv, Types, Connections
    <2>2. CASE Recv
      <3>1. CASE tcp.cancel \/ tcp.socket < 0
        <4>1. /\ at' = [at EXCEPT !["reading"] = "refused"] /\ broken' = broken /\ reader' = "reading"
          BY <2>2, <3>1 DEF Recv, Goes, historyVars
        <4>2. /\ "refused" \in {"idle", "reading", "refused", "handling", "told"}
              /\ "refused" \in {"reading", "refused"} /\ "refused" \notin {"reading", "told"}
          OBVIOUS
        <4> QED BY <4>1, <4>2, Zenon
      <3>2. CASE ~(tcp.cancel \/ tcp.socket < 0)
        <4>1. tcp.socket > 0 BY <2>1, <3>2, BoundsType DEF Fds
        <4>2. /\ at' = [at EXCEPT !["reading"] = "reading"] /\ broken' = broken /\ reader' = "reading"
          BY <2>2, <3>2 DEF Recv, Goes, historyVars
        <4>3. /\ "reading" \in {"idle", "reading", "refused", "handling", "told"}
              /\ "reading" \in {"reading", "refused"} /\ "reading" # "told"
          OBVIOUS
        <4> QED BY <4>1, <4>2, <4>3, Zenon
      <3> QED BY <3>1, <3>2
    <2>3. CASE RecvEnds
      <3>1. CASE Goes("reading", "idle") /\ UNCHANGED broken
        BY <2>3, <3>1 DEF RecvEnds, Goes
      <3>2. CASE Goes("reading", "handling") /\ UNCHANGED broken
        BY <2>3, <3>2 DEF RecvEnds, Goes
      <3>3. CASE at["reading"] = "reading" /\ Goes("reading", "told") /\ broken' = TRUE
        <4>1. tcp.socket > 0 BY <3>3 DEF SocketsInv, Mutexes, Threads
        <4>2. /\ at' = [at EXCEPT !["reading"] = "told"] /\ broken' = TRUE /\ reader' = "free"
          BY <2>3, <3>3 DEF RecvEnds, Goes
        <4>3. "told" \in {"idle", "reading", "refused", "handling", "told"}
              /\ "told" \notin {"reading", "refused"} OBVIOUS
        <4> QED BY <4>1, <4>2, <4>3, Zenon
      <3> QED BY <2>3, <3>1, <3>2, <3>3 DEF RecvEnds
    <2> QED BY <2>2, <2>3
  <1>2. /\ at["reading"] \in {"idle", "reading", "refused"} /\ reader \in {"reading", "free"}
        /\ UNCHANGED <<setup, open, lost, tcp, sender, trying, asked, skipped, stale>> /\ UNCHANGED serverVars
    BY DEF Recv, RecvEnds, SocketsInv, Mutexes, historyVars
  <1>3. /\ at' \in [Threads -> Doings] /\ at'["app"] = at["app"] /\ at'["reading"] = to
    BY <1>1 DEF SocketsInv, Types, Doings, Threads
  <1>4. Mutexes' BY <1>1, <1>2, <1>3 DEF SocketsInv, Types, Mutexes, Threads
  <1>5. Ends' BY <1>1, <1>2, <1>3 DEF SocketsInv, Ends, Threads
  <1>6. broken' \in BOOLEAN /\ reader' \in Threads \cup {"free"} BY <1>1 DEF SocketsInv, Types, Threads
  <1>7. at'["reading"] \notin Connecting BY <1>3 DEF Connecting
  <1> QED BY <1>2, <1>3, <1>4, <1>5, <1>6, <1>7, MoveKeeps DEF SocketsInv, Types

LEMMA HandledKeeps ==
    ASSUME SocketsInv, Handled
    PROVE  SocketsInv'
  <1>1. /\ at["reading"] = "handling" /\ at' = [at EXCEPT !["reading"] = "idle"]
        /\ UNCHANGED <<setup, open, lost, tcp, sender, reader, trying, asked, broken, skipped, stale>>
        /\ UNCHANGED serverVars
    BY DEF Handled, Goes, historyVars
  <1>2. /\ at' \in [Threads -> Doings] /\ at'["app"] = at["app"] /\ at'["reading"] = "idle"
    BY <1>1 DEF SocketsInv, Types, Doings, Threads
  <1>3. Mutexes' BY <1>1, <1>2 DEF SocketsInv, Mutexes, Threads
  <1>4. Ends' BY <1>1, <1>2 DEF SocketsInv, Ends, Threads
  <1>5. at'["reading"] \notin Connecting BY <1>2 DEF Connecting
  <1> QED BY <1>1, <1>2, <1>3, <1>4, <1>5, MoveKeeps DEF SocketsInv, Types

LEMMA DisconnectKeeps ==
    ASSUME SocketsInv, NEW thread \in Threads, Disconnect(thread)
    PROVE  SocketsInv'
  <1>1. /\ at[thread] = MaySend(thread) /\ reader = "free" /\ reader' = thread
        /\ at' = [at EXCEPT ![thread] = "cancelling"]
        /\ UNCHANGED <<setup, open, lost, tcp, sender, trying, asked, broken, skipped, stale>>
        /\ UNCHANGED serverVars
    BY DEF Disconnect, Goes, historyVars
  <1>2. /\ at' \in [Threads -> Doings]
        /\ \A other \in Threads : at'[other] = IF other = thread THEN "cancelling" ELSE at[other]
    BY <1>1 DEF SocketsInv, Types, Doings
  <1>3. Mutexes' BY <1>1, <1>2 DEF SocketsInv, Mutexes, Threads, MaySend
  <1>4. Ends' BY <1>1, <1>2 DEF SocketsInv, Ends, Threads, MaySend
  <1>5. /\ at'["app"] \notin {"reading", "refused", "handling"} /\ at'["reading"] \notin Connecting
        /\ \A x \in Connecting : at'["app"] = x <=> at["app"] = x
    BY <1>1, <1>2 DEF SocketsInv, Types, Threads, Connecting, MaySend
  <1> QED BY <1>1, <1>2, <1>3, <1>4, <1>5, MoveKeeps DEF SocketsInv, Types

LEMMA DisconnectEndsKeeps ==
    ASSUME SocketsInv, NEW thread \in Threads, DisconnectEnds(thread)
    PROVE  SocketsInv'
  <1>1. /\ at[thread] = "cancelling" /\ at' = [at EXCEPT ![thread] = MaySend(thread)]
        /\ tcp' = [tcp EXCEPT !.cancel = TRUE] /\ reader' = "free"
        /\ UNCHANGED <<setup, open, lost, sender, trying, asked, broken, skipped, stale>>
        /\ UNCHANGED serverVars
    BY DEF DisconnectEnds, Goes, historyVars
  <1>2. tcp' \in Connections /\ tcp'.socket = tcp.socket /\ tcp'.state = tcp.state
    BY <1>1 DEF SocketsInv, Types, Connections
  <1>3. /\ at' \in [Threads -> Doings]
        /\ \A other \in Threads : at'[other] = IF other = thread THEN MaySend(thread) ELSE at[other]
    BY <1>1 DEF SocketsInv, Types, Doings, MaySend
  <1>4. /\ at'["app"] \notin {"reading", "refused", "handling"} /\ at'["reading"] \notin Connecting
        /\ \A x \in Connecting : at'["app"] = x <=> at["app"] = x
    BY <1>1, <1>3 DEF SocketsInv, Types, Threads, Connecting, MaySend
  <1>5. Types' BY <1>1, <1>2, <1>3, <1>4 DEF SocketsInv, Types, serverVars
  <1>6. Descriptors' BY <1>1, <1>2 DEF SocketsInv, Descriptors, Owned, serverVars
  <1>7. Mutexes'
    <2>1. reader = thread BY <1>1 DEF SocketsInv, Mutexes, Threads
    <2> QED BY <1>1, <1>2, <1>3, <2>1 DEF SocketsInv, Mutexes, Threads, MaySend
  <1>8. States' BY <1>1, <1>2, <1>4 DEF SocketsInv, States, Stale, Connecting
  <1>9. Ends' BY <1>1, <1>2, <1>3 DEF SocketsInv, Ends, Threads, MaySend
  <1>10. Hopes' BY <1>1, <1>4 DEF SocketsInv, Hopes, Enough, FreeFds, Connecting
  <1>11. ReachesReachable' BY <1>1 DEF SocketsInv, ReachesReachable
  <1> QED BY <1>5, <1>6, <1>7, <1>8, <1>9, <1>10, <1>11 DEF SocketsInv

LEMMA CleanUpKeeps ==
    ASSUME SocketsInv, NEW thread \in Threads, CleanUp(thread)
    PROVE  SocketsInv'
  BY CleanupKeeps DEF CleanUp

\* The listener's steps come while the application is idle, and change no more than what it
\* owns.
LEMMA ListenerKeeps ==
    ASSUME SocketsInv, Listener
    PROVE  SocketsInv'
  <1> USE BoundsType
  <1>1. /\ at["app"] = "idle"
        /\ UNCHANGED <<setup, lost, tcp, sender, reader, at, trying, asked, broken, skipped, stale>>
    BY DEF Listener, Listen, Accept, Drop, CloseServer, clientVars, historyVars
  <1>2. Mutexes' /\ States' /\ Ends' /\ Hopes' /\ ReachesReachable'
    BY <1>1 DEF SocketsInv, Mutexes, States, Stale, Ends, Hopes, ReachesReachable
  <1>3. SUFFICES /\ open' \subseteq 1 .. MaxFds /\ accepted' \subseteq Fds /\ server' \in Connections
                 /\ Descriptors'
    BY <1>1, <1>2 DEF SocketsInv, Types
  <1>4. ASSUME NEW fd \in GetSocket
        PROVE  /\ fd \in Fds /\ Made(fd) \subseteq FreeFds
               /\ \/ fd = -1 /\ Made(fd) = {}
                  \/ fd \in 1 .. MaxFds /\ Made(fd) = {fd} /\ fd \notin open
    <2>1. CASE fd = -1
      <3>1. fd \in Fds BY <2>1 DEF Fds
      <3>2. Made(fd) = {} BY <2>1 DEF Made
      <3> QED BY <2>1, <3>1, <3>2
    <2>2. CASE fd \in FreeFds BY <2>2 DEF FreeFds, Fds, Made
    <2> QED BY <1>4, <2>1, <2>2 DEF GetSocket
  <1>5. CASE Listen
    <2>1. PICK fd \in GetSocket, listening \in BOOLEAN :
            /\ open' = open \cup Made(fd)
            /\ server' = [socket |-> fd, state |-> "connecting", cancel |-> fd < 0 \/ ~listening]
      BY <1>5 DEF Listen
    <2>2. server.socket = -1 /\ accepted' = accepted
      BY <1>5 DEF Listen, SocketsInv, Types, Connections, Fds
    <2>3. server' \in Connections /\ server'.socket = fd BY <2>1, <1>4 DEF Connections
    <2>4. Descriptors'
      BY <1>1, <1>4, <2>1, <2>2, <2>3 DEF SocketsInv, Types, Descriptors, Owned, Connections, Fds
    <2> QED BY <1>4, <2>1, <2>2, <2>3, <2>4 DEF SocketsInv, Types, FreeFds
  <1>6. CASE Accept
    <2>1. PICK fd \in GetSocket : open' = open \cup Made(fd) /\ accepted' = accepted \cup {fd}
      BY <1>6 DEF Accept
    <2>2. server' = server BY <1>6 DEF Accept
    <2>3. Descriptors'
      BY <1>1, <1>4, <2>1, <2>2 DEF SocketsInv, Types, Descriptors, Owned, Connections, Fds
    <2> QED BY <1>4, <2>1, <2>2, <2>3 DEF SocketsInv, Types, FreeFds
  <1>7. ASSUME NEW fd \in accepted, Drop(fd)
        PROVE  /\ open' \subseteq 1 .. MaxFds /\ accepted' \subseteq Fds /\ server' \in Connections
               /\ Descriptors'
    BY <1>1, <1>7 DEF Drop, Closed, SocketsInv, Types, Descriptors, Owned, Connections, Fds
  <1>8. CASE CloseServer
    BY <1>1, <1>8, FreshType DEF CloseServer, Closed, SocketsInv, Types, Descriptors, Owned, Connections, Fds
  <1> QED BY <1>5, <1>6, <1>7, <1>8 DEF Listener

LEMMA NextInv ==
    ASSUME SocketsInv, [Next]_vars
    PROVE  SocketsInv'
  <1>1. CASE Connect BY <1>1, ConnectKeeps
  <1>2. CASE Try BY <1>2, TryKeeps
  <1>3. CASE GiveUp BY <1>3, GiveUpKeeps
  <1>4. CASE ConnectEnds BY <1>4, ConnectEndsKeeps
  <1>5. CASE Recv \/ RecvEnds BY <1>5, RecvKeeps
  <1>6. CASE Handled BY <1>6, HandledKeeps
  <1>7. CASE Looked \/ ConnectFails BY <1>7, LookedKeeps, ConnectFailsKeeps
  <1>8. ASSUME NEW thread \in Threads,
               \/ Send(thread) \/ SendEnds(thread) \/ Told(thread)
               \/ Disconnect(thread) \/ DisconnectEnds(thread) \/ CleanUp(thread)
        PROVE  SocketsInv'
    BY <1>8, SendKeeps, SendEndsKeeps, ToldKeeps, DisconnectKeeps, DisconnectEndsKeeps, CleanUpKeeps
  <1>9. CASE Listener BY <1>9, ListenerKeeps
  <1>10. CASE UNCHANGED vars
    BY <1>10 DEF vars, SocketsInv, Types, Descriptors, Mutexes, States, Stale, Ends, Hopes, ReachesReachable,
                 Owned, Enough, FreeFds
  <1> QED BY <1>1, <1>2, <1>3, <1>4, <1>5, <1>6, <1>7, <1>8, <1>9, <1>10 DEF Next, Client

\* Whatever names, hosts and the kernel answer, and however the two threads and the
\* listener interleave: every descriptor has one owner or was lost for an unknown name,
\* whoever waits on one has it open, connect() fails only if nothing that was named can be
\* reached or descriptors run out, and a connection that broke is closed, unless the
\* cleanup found the other thread inside; its state is the descriptor's, unless a cleanup
\* came between the last steps of connect() or was skipped when it had failed.
THEOREM SocketsAreKept == Spec => []SocketsKept
  <1>1. Init => SocketsInv BY InitInv
  <1>2. SocketsInv /\ [Next]_vars => SocketsInv' BY NextInv
  <1>3. SocketsInv => SocketsKept BY InvSuffices
  <1> QED BY <1>1, <1>2, <1>3, PTL DEF Spec
=============================================================================
