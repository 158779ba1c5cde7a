-------------------------- MODULE IqRequestsProofs --------------------------
(***************************************************************************)
(* Proof that the answers to the requests of the services get to those who *)
(* wait for them, that nothing is kept for a request that is answered, and *)
(* that nothing else ruins the program than what RuinedOnlyBy names: for   *)
(* any number of handlers, remotes and requests, whatever an application   *)
(* asks for in its life.                                                   *)
(*                                                                         *)
(* The first part is the inductive invariant: what ties a request that     *)
(* somebody waits for to the request on the wire, the id that is tracked   *)
(* and the entries in the tables.  Then come the three kinds of steps:     *)
(* those that ask, those that withdraw and those that answer.              *)
(***************************************************************************)
EXTENDS IqRequests, FiniteSetTheorems, TLAPS

\* The services that tell the handler that has asked, those that are handlers of private
\* XML, and those with one listener.
Own == {"vcard", "search", "privatexml", "disco", "adhoc", "ping", "pubsub"}
Storages == {"bookmarks", "annotations"}
Listening == {"flexoff", "registration", "privacy", "lastactivity", "muc", "uniqueroom"}

\* What a service asks itself, and what it asks through discovery.
AdhocDisco == {"CheckAdhocSupport", "FetchAdhocCommands"}
FlexDisco == {"FOCheckSupport", "FORequestNum", "FORequestHeaders"}
RoomDisco == {"GetRoomInfo", "GetRoomItems"}
Behind(service) ==
    CASE service = "adhoc" -> AdhocDisco
      [] service = "flexoff" -> FlexDisco
      [] service \in Rooms -> RoomDisco
      [] OTHER -> {}
RoomOps == {"SetRole", "SetAffiliation", "RequestList", "StoreList", "StoreOwnerList",
            "SendRoomConfig", "DestroyRoom", "RequestRoomConfig", "CreateInstantRoom",
            "CancelRoomCreation"}
NodeNoted == {"Subscription", "CreateNode", "DeleteNode", "GetSubscriberList",
              "SetSubscriberList", "GetAffiliateList", "SetAffiliateList", "PurgeNodeItems"}
PubSubOps == NodeNoted \cup PayloadTold \cup
    {"Unsubscription", "SetSubscriptionOptions", "SetNodeConfig"}
Direct(service) ==
    CASE service = "vcard" -> {"FetchVCard", "StoreVCard"}
      [] service = "search" -> {"FetchSearchFields", "SearchForm", "SearchFields"}
      [] service = "privatexml" -> {"RequestXml", "StoreXml"}
      [] service = "bookmarks" -> {"StoreBookmarks", "RequestBookmarks"}
      [] service = "annotations" -> {"StoreAnnotations", "RequestAnnotations"}
      [] service = "disco" -> {"GetDiscoInfo", "GetDiscoItems"}
      [] service = "adhoc" -> {"ExecuteAdhocCommand"}
      [] service = "flexoff" -> {"FORequestMsgs", "FORemoveMsgs"}
      [] service = "registration" ->
            {"FetchRegistrationFields", "CreateAccount", "RemoveAccount"}
      [] service = "privacy" ->
            {"PLRequestNames", "PLRequestList", "PLDefault", "PLUnsetDefault",
             "PLActivate", "PLUnsetActivate", "PLRemove", "PLStore"}
      [] service = "lastactivity" -> {"LastActivity"}
      [] service = "ping" -> {"XMPPPing"}
      [] service = "pubsub" -> PubSubOps
      [] service = "muc" -> RoomOps
      [] service = "uniqueroom" -> RoomOps \cup {"RequestUniqueName"}
      [] OTHER -> {}

AllRemotes == Remotes \cup {"room"}
Request == [service : Services, id : Nat, handler : Handlers \cup Services \cup {"listener"},
            op : uses, remote : AllRemotes]
WhoAsks(service) == IF service \in Own THEN Handlers ELSE {"listener"}

\* A request of the application, which some services note in a table, and one that discovery
\* makes for another service.
Plain(x) == x.handler \in WhoAsks(x.service) /\ x.op \in Direct(x.service) \cup Behind(x.service)
Entry(x) == Plain(x) /\ x.service \in Own \cup Storages
For(x) == x.service = "disco" /\ x.handler \in Services /\ x.op \in Behind(x.handler)
Waiter(service, id, op, remote) ==
    [service |-> service, id |-> id, handler |-> "listener", op |-> op, remote |-> remote]

Record(l) ==
    l = [tracks |-> l.tracks, table |-> l.table, nodes |-> l.nodes, wire |-> l.wire,
         next |-> l.next, dead |-> l.dead, deaf |-> l.deaf, open |-> l.open,
         stray |-> l.stray, silent |-> l.silent, joined |-> l.joined,
         creating |-> l.creating, ruin |-> l.ruin]
Types ==
    /\ Record(lib)
    /\ lib.next \in Nat
    /\ lib.tracks \subseteq [id : Nat, ih : Services]
    /\ lib.wire \subseteq [id : Nat, op : uses, remote : AllRemotes] /\ IsFiniteSet(lib.wire)
    /\ lib.nodes \subseteq [id : Nat, op : NodeNoted]
    /\ lib.table \subseteq Request /\ IsFiniteSet(lib.table)
    /\ lib.open \subseteq Request /\ IsFiniteSet(lib.open)
    /\ lib.silent \subseteq [op : uses, remote : AllRemotes, type : {"removed", "bare", "lost"}]
    /\ lib.dead \subseteq Services /\ lib.deaf \subseteq Listening \cup Storages

\* Ids are made up one after another.
Fresh ==
    /\ \A t \in lib.tracks : t.id < lib.next
    /\ \A w \in lib.wire : w.id < lib.next
    /\ \A x \in lib.table : x.id < lib.next
    /\ \A q \in lib.open : q.id < lib.next
    /\ \A n \in lib.nodes : n.id < lib.next

\* What has one id is about one request.
Alike ==
    /\ \A t \in lib.tracks, u \in lib.tracks : t.id = u.id => t = u
    /\ \A w \in lib.wire, v \in lib.wire : w.id = v.id => w = v
    /\ \A x \in lib.table, y \in lib.table :
          x.id = y.id => /\ x.op = y.op /\ x.remote = y.remote
                         /\ x.service = y.service => x = y
    /\ \A q \in lib.open, p \in lib.open : q.id = p.id => q = p
    /\ \A x \in lib.table, q \in lib.open : x.id = q.id => x.op = q.op /\ x.remote = q.remote
    /\ \A x \in lib.table, w \in lib.wire : x.id = w.id => x.op = w.op /\ x.remote = w.remote
    /\ \A q \in lib.open, w \in lib.wire : q.id = w.id => q.op = w.op /\ q.remote = w.remote
    /\ \A n \in lib.nodes, x \in lib.table : n.id = x.id => n.op = x.op
    /\ \A n \in lib.nodes, m \in lib.nodes : n.id = m.id => n = m

\* Where an answer goes.
Channel(service, op) == IF op \in Behind(service) THEN "disco" ELSE service
Asker(t, op) ==
    \E service \in Services :
        t.ih = Channel(service, op) /\ op \in Direct(service) \cup Behind(service)
Routed ==
    /\ \A t \in lib.tracks, w \in lib.wire : t.id = w.id => Asker(t, w.op)
    /\ \A x \in lib.table : For(x) \/ Entry(x)
    /\ \A q \in lib.open : Plain(q)

\* Who is dead or deaf is not waiting.
Gone ==
    /\ \A t \in lib.tracks : t.ih \in lib.dead => t.ih = "pubsub"
    /\ \A x \in lib.table : x.service \notin lib.dead
    /\ \A x \in lib.table : For(x) /\ x.handler \in Rooms => x.handler \notin lib.dead
    /\ \A q \in lib.open : q.service \notin lib.dead \cup lib.deaf
    /\ "disco" \notin lib.dead

\* What is on the wire and in a table is tracked.
Tracked ==
    \A x \in lib.table, w \in lib.wire :
        x.id = w.id => [id |-> x.id, ih |-> Channel(x.service, x.op)] \in lib.tracks

\* What an answer will be told of is waited for.
OwnAwaited(x) == Plain(x) /\ x.service \in Own /\ x.op # "CheckAdhocSupport" => x \in lib.open
StorageAwaited(x) == x.service \in Storages \ lib.deaf => x \in lib.open
DiscoAwaited(x) ==
    For(x) /\ x.handler \in Listening \ (lib.dead \cup lib.deaf) =>
        Waiter(x.handler, x.id, x.op, x.remote) \in lib.open
TrackAwaited(t, w) ==
    t.id = w.id /\ t.ih \in (Listening \ {"uniqueroom"}) \ (lib.dead \cup lib.deaf) =>
        Waiter(t.ih, w.id, w.op, w.remote) \in lib.open
Awaited ==
    /\ \A x \in lib.table : OwnAwaited(x) /\ StorageAwaited(x) /\ DiscoAwaited(x)
    /\ \A t \in lib.tracks, w \in lib.wire : TrackAwaited(t, w)

\* What is waited for is on its way, and will be told.
Unchecked == "CheckAdhocSupport" \notin uses
Linked(q) ==
    /\ [id |-> q.id, op |-> q.op, remote |-> q.remote] \in lib.wire
    /\ [id |-> q.id, ih |-> Channel(q.service, q.op)] \in lib.tracks
    /\ q.op \in Behind(q.service) =>
          [service |-> "disco", id |-> q.id, handler |-> q.service,
           op |-> q.op, remote |-> q.remote] \in lib.table
    /\ q.service \in Own \cup Storages => q \in lib.table
    /\ q.op \in NodeTold \cap NodeNoted => [id |-> q.id, op |-> q.op] \in lib.nodes
Due(q) == Tells(q) /\ ~Excused(q.op, q.remote) /\ q.op # "FetchAdhocCommands"
OnItsWay == \A q \in lib.open : Due(q) => Linked(q)

\* Requests for the commands of a remote are answered in any order.
IsFetch(x, r) == x.service = "adhoc" /\ x.op = "FetchAdhocCommands" /\ x.remote = r
Fetching(r) == {x \in lib.table : IsFetch(x, r)}
Fetches ==
    Unchecked =>
      /\ \A x \in lib.table : x.service = "adhoc" /\ x.op = "FetchAdhocCommands" => x \in lib.open
      /\ \A q \in lib.open : q.op = "FetchAdhocCommands" => q \in lib.table
      /\ \A r \in AllRemotes : \/ Excused("FetchAdhocCommands", r)
                               \/ Cardinality(Fetching(r)) <= Coming("FetchAdhocCommands", r)
ThroughDisco ==
    \A w \in lib.wire : w.op \in AdhocDisco =>
        /\ [id |-> w.id, ih |-> "disco"] \in lib.tracks
        /\ [service |-> "disco", id |-> w.id, handler |-> "adhoc",
            op |-> w.op, remote |-> w.remote] \in lib.table

\* What is kept is not answered yet.
Lost == \E s \in lib.silent : s.type = "lost"
NodeKept(n) ==
    /\ n.id \in Pending
    /\ [id |-> n.id, ih |-> "pubsub"] \in lib.tracks
    /\ \E x \in lib.table : x.service = "pubsub" /\ x.id = n.id
EntryKept(x) ==
    \/ x.service = "adhoc" /\ x.op = "FetchAdhocCommands"
    \/ [id |-> x.id, op |-> x.op, remote |-> x.remote] \in lib.wire
Keeping ==
    ~Lost =>
      /\ \A t \in lib.tracks : t.id \in Pending
      /\ \A n \in lib.nodes : NodeForgotten(n) \/ NodeKept(n)
      /\ \A x \in lib.table : Forgotten(x) \/ EntryKept(x)

Linkage ==
    /\ Fresh /\ Alike /\ Routed /\ Tracked /\ Gone /\ Awaited /\ OnItsWay /\ Fetches
    /\ ThroughDisco /\ Keeping
Inv == Types /\ RuinedOnlyBy /\ ToldOnlyWhoWaits /\ (Intact => Linkage)

(***************************************************************************)
(* What the invariant says of the properties.                              *)
(***************************************************************************)
\* Those of one kind whose requests are on the wire are no more than the requests.
LEMMA NoMoreThanComing ==
    ASSUME NEW S, NEW op, NEW r, IsFiniteSet(lib.wire),
           \A x \in S : [id |-> x.id, op |-> op, remote |-> r] \in lib.wire,
           \A x \in S, y \in S : x.id = y.id => x = y
    PROVE  Cardinality(S) <= Coming(op, r)
  <1> DEFINE W == {w \in lib.wire : w.op = op /\ w.remote = r}
             f == [x \in S |-> [id |-> x.id, op |-> op, remote |-> r]]
  <1>1. IsFiniteSet(W)
    BY FS_Subset
  <1>2. f \in [S -> W]
    OBVIOUS
  <1>3. \A x \in S, y \in S : f[x] = f[y] => x = y
    <2>1. TAKE x \in S, y \in S
    <2>2. HAVE f[x] = f[y]
    <2>3. f[x].id = x.id /\ f[y].id = y.id
      OBVIOUS
    <2> QED  BY <2>2, <2>3
  <1>4. f \in Injection(S, W)
    BY <1>2, <1>3 DEF Injection, IsInjective
  <1>5. Cardinality(S) <= Cardinality(W)
    BY ONLY <1>1, <1>4, FS_Injection
  <1> QED  BY <1>5 DEF Coming

\* Those who wait for something else than the commands of a remote are counted one by one.
LEMMA DueAreComing ==
    ASSUME Types, Alike, OnItsWay, NEW op, NEW r, ~Excused(op, r), op # "FetchAdhocCommands"
    PROVE  Cardinality({q \in lib.open : q.op = op /\ q.remote = r /\ Tells(q)}) <= Coming(op, r)
  <1> DEFINE S == {q \in lib.open : q.op = op /\ q.remote = r /\ Tells(q)}
  <1>1. \A x \in S : [id |-> x.id, op |-> op, remote |-> r] \in lib.wire
    BY DEF OnItsWay, Due, Linked
  <1>2. \A x \in S, y \in S : x.id = y.id => x = y
    BY DEF Alike
  <1>3. IsFiniteSet(lib.wire)
    BY DEF Types
  <1> HIDE DEF S
  <1>4. Cardinality(S) <= Coming(op, r)
    BY ONLY <1>1, <1>2, <1>3, NoMoreThanComing
  <1> QED  BY <1>4 DEF S

\* Those who wait for the commands of a remote are those it is asked for.
LEMMA FetchersAreComing ==
    ASSUME Types, Routed, Fetches, NEW r \in AllRemotes, ~Excused("FetchAdhocCommands", r)
    PROVE  Cardinality({q \in lib.open : q.op = "FetchAdhocCommands" /\ q.remote = r /\ Tells(q)})
             <= Coming("FetchAdhocCommands", r)
  <1> DEFINE S == {q \in lib.open : q.op = "FetchAdhocCommands" /\ q.remote = r /\ Tells(q)}
  <1>1. Unchecked
    BY DEF Excused, Unchecked
  <1>2. Cardinality(Fetching(r)) <= Coming("FetchAdhocCommands", r)
    BY <1>1 DEF Fetches
  <1>3. \A q \in S : q.service = "adhoc"
    BY DEF Routed, Plain, Direct, Behind, AdhocDisco, FlexDisco, RoomDisco, RoomOps, PubSubOps,
           PayloadTold, NodeNoted
  <1>4. S \subseteq Fetching(r)
    BY <1>1, <1>3 DEF Fetching, IsFetch, Fetches
  <1>5. IsFiniteSet(Fetching(r))
    BY FS_Subset DEF Types, Fetching
  <1> HIDE DEF S
  <1>6. /\ Cardinality(S) <= Cardinality(Fetching(r))
        /\ IsFiniteSet(S)
    BY <1>4, <1>5, FS_Subset
  <1>7. Cardinality(S) \in Nat /\ Cardinality(Fetching(r)) \in Nat
    BY <1>5, <1>6, FS_CardinalityType
  <1>8. Coming("FetchAdhocCommands", r) \in Nat
    <2>1. IsFiniteSet({w \in lib.wire : w.op = "FetchAdhocCommands" /\ w.remote = r})
      BY FS_Subset DEF Types
    <2> QED  BY <2>1, FS_CardinalityType DEF Coming
  <1>9. Cardinality(S) <= Coming("FetchAdhocCommands", r)
    BY <1>2, <1>6, <1>7, <1>8
  <1> QED  BY <1>9 DEF S

LEMMA InvAnswers ==
    ASSUME Inv
    PROVE  AnswersReach
  <1>1. ASSUME Intact, NEW op \in Ops, NEW r \in Remotes \cup {"room"}, ~Excused(op, r)
        PROVE  Cardinality({q \in lib.open : q.op = op /\ q.remote = r /\ Tells(q)})
                 <= Coming(op, r)
    <2>1. Types /\ Linkage
      BY <1>1 DEF Inv
    <2>2. CASE op = "FetchAdhocCommands"
      <3>1. r \in AllRemotes
        BY DEF AllRemotes
      <3> QED  BY <1>1, <2>1, <2>2, <3>1, FetchersAreComing DEF Linkage
    <2>3. CASE op # "FetchAdhocCommands"
      BY <1>1, <2>1, <2>3, DueAreComing DEF Linkage
    <2> QED  BY <2>2, <2>3
  <1>2. AnsweredMeansTold
    BY <1>1 DEF AnsweredMeansTold
  <1> QED  BY <1>2 DEF AnswersReach, Inv

LEMMA InvNothingKept ==
    ASSUME Inv
    PROVE  NothingKept
  <1>1. SUFFICES ASSUME Intact, \A s \in lib.silent : s.type # "lost"
        PROVE  /\ \A t \in lib.tracks : t.id \in Pending
               /\ \A n \in lib.nodes : n.id \in Pending \/ NodeForgotten(n)
               /\ \A e \in lib.table :
                     Forgotten(e) \/ Cardinality({x \in lib.table :
                                          <<x.service, x.op, x.remote>>
                                            = <<e.service, e.op, e.remote>>})
                                       <= Coming(e.op, e.remote)
    BY DEF NothingKept
  <1>2. Types /\ Linkage
    BY <1>1 DEF Inv
  <1>3. Keeping /\ ~Lost
    BY <1>1, <1>2 DEF Linkage, Lost
  <1>4. ASSUME NEW e \in lib.table, ~Forgotten(e)
        PROVE  Cardinality({x \in lib.table : <<x.service, x.op, x.remote>>
                                                = <<e.service, e.op, e.remote>>})
                 <= Coming(e.op, e.remote)
    <2> DEFINE S == {x \in lib.table : <<x.service, x.op, x.remote>>
                                         = <<e.service, e.op, e.remote>>}
    <2>1. CASE e.service = "adhoc" /\ e.op = "FetchAdhocCommands"
      <3>1. Unchecked /\ e.remote \in AllRemotes
        BY <1>2, <1>4 DEF Forgotten, Unchecked, Types, Request
      <3>2. ~Excused("FetchAdhocCommands", e.remote)
        <4>1. "FetchAdhocCommands" \notin NeverTold
          BY DEF NeverTold
        <4>2. ASSUME NEW s \in lib.silent, s.op = e.op, s.remote = e.remote, s.type # "removed"
              PROVE  FALSE
          <5>1. s.type = "bare"
            BY <1>1, <1>2, <4>2 DEF Types
          <5>2. s = [op |-> e.op, remote |-> e.remote, type |-> "bare"]
            BY <1>2, <4>2, <5>1 DEF Types
          <5> QED  BY <1>4, <2>1, <5>2 DEF Forgotten
        <4> QED  BY <2>1, <3>1, <4>1, <4>2 DEF Excused, Unchecked
      <3>3. Cardinality(Fetching(e.remote)) <= Coming("FetchAdhocCommands", e.remote)
        BY <1>2, <3>1, <3>2 DEF Linkage, Fetches
      <3>4. S = Fetching(e.remote)
        BY <2>1 DEF Fetching, IsFetch
      <3> QED  BY <2>1, <3>3, <3>4
    <2>2. CASE ~(e.service = "adhoc" /\ e.op = "FetchAdhocCommands")
      <3>1. \A x \in S : [id |-> x.id, op |-> e.op, remote |-> e.remote] \in lib.wire
        BY <1>3, <1>4, <2>2 DEF Keeping, Forgotten, EntryKept
      <3>2. \A x \in S, y \in S : x.id = y.id => x = y
        BY <1>2 DEF Linkage, Alike
      <3>3. IsFiniteSet(lib.wire)
        BY <1>2 DEF Types
      <3> HIDE DEF S
      <3>4. Cardinality(S) <= Coming(e.op, e.remote)
        BY ONLY <3>1, <3>2, <3>3, NoMoreThanComing
      <3> QED  BY <3>4 DEF S
    <2> QED  BY <2>1, <2>2
  <1>5. \A n \in lib.nodes : n.id \in Pending \/ NodeForgotten(n)
    BY <1>3 DEF Keeping, NodeKept
  <1>6. \A t \in lib.tracks : t.id \in Pending
    BY <1>3 DEF Keeping
  <1> QED  BY <1>4, <1>5, <1>6

\* At the start nothing is asked for.
LEMMA InvStart == Init => Inv
  <1>1. SUFFICES ASSUME Init
        PROVE  Inv
    OBVIOUS
  <1>2. lib = [tracks |-> {}, table |-> {}, nodes |-> {}, wire |-> {}, next |-> 1,
               dead |-> {}, deaf |-> {}, open |-> {}, stray |-> {}, silent |-> {},
               joined |-> {"muc"}, creating |-> {"muc"}, ruin |-> <<"none", "">>]
    BY <1>1 DEF Init
  <1>3. Types
    BY <1>2, FS_EmptySet DEF Types, Record
  <1>4. RuinedOnlyBy /\ ToldOnlyWhoWaits
    BY <1>2 DEF RuinedOnlyBy, ToldOnlyWhoWaits
  <1>5. ASSUME NEW r
        PROVE  Cardinality(Fetching(r)) <= Coming("FetchAdhocCommands", r)
    <2>1. Fetching(r) = {} /\ {w \in lib.wire : w.op = "FetchAdhocCommands" /\ w.remote = r} = {}
      BY <1>2 DEF Fetching
    <2>2. Cardinality({}) = 0
      BY FS_EmptySet
    <2> QED  BY <2>1, <2>2 DEF Coming
  <1>6. Fetches
    BY <1>2, <1>5 DEF Fetches
  <1>7. Fresh /\ Alike /\ Routed /\ Tracked /\ Gone
    BY <1>2 DEF Fresh, Alike, Routed, Tracked, Gone
  <1>8. Awaited /\ OnItsWay /\ ThroughDisco /\ Keeping
    BY <1>2 DEF Awaited, OnItsWay, ThroughDisco, Keeping
  <1> QED  BY <1>3, <1>4, <1>6, <1>7, <1>8 DEF Inv, Linkage

(***************************************************************************)
(* Asking.  An operation makes up an id, notes entries and a node under    *)
(* it, and sends a request.                                                *)
(***************************************************************************)
Calm ==
    /\ uses' = uses /\ Record(lib')
    /\ lib'.dead = lib.dead /\ lib'.deaf = lib.deaf /\ lib'.silent = lib.silent
    /\ lib'.stray = lib.stray /\ lib'.ruin = lib.ruin
Grown(ih, op, r, m, E, Q, N) ==
    /\ Calm
    /\ lib'.tracks = lib.tracks \cup {[id |-> m, ih |-> ih]}
    /\ lib'.wire = lib.wire \cup {[id |-> m, op |-> op, remote |-> r]}
    /\ lib'.next = m + 1
    /\ lib'.table = lib.table \cup E
    /\ lib'.open = lib.open \cup Q
    /\ lib'.nodes = lib.nodes \cup N

\* What is noted is about the request: m is its id, E the entries, Q who waits, N the node.
About(op, r, m, E, Q, N) ==
    /\ m \in Nat /\ m >= lib.next /\ op \in uses /\ r \in AllRemotes
    /\ IsFiniteSet(E) /\ IsFiniteSet(Q)
    /\ \A x \in E : x \in Request /\ x.id = lib.next /\ x.op = op /\ x.remote = r
    /\ \A q \in Q : q \in Request /\ q.id = lib.next /\ q.op = op /\ q.remote = r
    /\ \A x \in E, y \in E : x.service = y.service => x = y
    /\ \A q \in Q, p \in Q : q = p
    /\ N \subseteq {[id |-> lib.next, op |-> op]} /\ (N # {} => op \in NodeNoted)
    /\ \A x \in E : For(x) \/ Entry(x)
    /\ \A q \in Q : Plain(q)
Alive(ih, E, Q) ==
    /\ ih \notin lib.dead
    /\ \A x \in E : x.service \notin lib.dead
    /\ \A x \in E : For(x) /\ x.handler \in Rooms => x.handler \notin lib.dead
    /\ \A q \in Q : q.service \notin lib.dead \cup lib.deaf
Waited(ih, op, r, m, E, Q) ==
    /\ \A x \in E : Plain(x) /\ x.service \in Own => x \in Q
    /\ \A x \in E : x.service \in Storages \ lib.deaf => x \in Q
    /\ \A x \in E : For(x) /\ x.handler \in Listening \ (lib.dead \cup lib.deaf) =>
          Waiter(x.handler, x.id, x.op, x.remote) \in Q
    /\ ih \in (Listening \ {"uniqueroom"}) \ (lib.dead \cup lib.deaf) =>
          Waiter(ih, m, op, r) \in Q
WillTell(ih, op, r, m, E, Q, N) ==
    \A q \in Q : Due(q) =>
        /\ m = lib.next /\ ih = Channel(q.service, op)
        /\ op \in Behind(q.service) =>
              [service |-> "disco", id |-> m, handler |-> q.service, op |-> op, remote |-> r] \in E
        /\ q.service \in Own \cup Storages => q \in E
        /\ op \in NodeTold \cap NodeNoted => [id |-> m, op |-> op] \in N
CommandsFetched(ih, op, r, m, E, Q) ==
    /\ \A q \in Q : q.op = "FetchAdhocCommands" => q \in E
    /\ op \in AdhocDisco =>
          /\ m = lib.next /\ ih = "disco"
          /\ [service |-> "disco", id |-> m, handler |-> "adhoc", op |-> op, remote |-> r] \in E
Comes(ih, op, m, E, N) ==
    /\ m = lib.next \/ (N = {} /\ op = "SearchFields")
    /\ m = lib.next => \A x \in E : ih = Channel(x.service, op)
    /\ \A n \in N : NodeForgotten(n) \/ (ih = "pubsub" /\ \E x \in E : x.service = "pubsub")
Meant(ih, op, r, m, E, Q, N) ==
    /\ About(op, r, m, E, Q, N) /\ Alive(ih, E, Q) /\ Waited(ih, op, r, m, E, Q)
    /\ WillTell(ih, op, r, m, E, Q, N) /\ CommandsFetched(ih, op, r, m, E, Q)
    /\ Comes(ih, op, m, E, N)
    /\ ih \in Services /\ Asker([id |-> m, ih |-> ih], op)

\* Types and ids.
LEMMA GrownTypes ==
    ASSUME Types, NEW ih \in Services, NEW op, NEW r, NEW m, NEW E, NEW Q, NEW N,
           Grown(ih, op, r, m, E, Q, N), About(op, r, m, E, Q, N)
    PROVE  Types'
  <1> USE DEF Grown, Calm
  <1>1. Record(lib') /\ lib'.next \in Nat
    BY DEF About
  <1>2. lib'.tracks \subseteq [id : Nat, ih : Services]
    <2>1. [id |-> m, ih |-> ih] \in [id : Nat, ih : Services]
      BY DEF About
    <2> QED  BY <2>1 DEF Types
  <1>3. lib'.wire \subseteq [id : Nat, op : uses, remote : AllRemotes]
    <2>1. [id |-> m, op |-> op, remote |-> r] \in [id : Nat, op : uses, remote : AllRemotes]
      BY DEF About
    <2> QED  BY <2>1 DEF Types
  <1>4. IsFiniteSet(lib'.wire)
    <2>1. IsFiniteSet(lib.wire)
      BY DEF Types
    <2>2. IsFiniteSet(lib.wire \cup {[id |-> m, op |-> op, remote |-> r]})
      BY ONLY <2>1, FS_AddElement
    <2> QED  BY <2>2
  <1>5. lib'.nodes \subseteq [id : Nat, op : NodeNoted]
    <2>1. N \subseteq [id : Nat, op : NodeNoted]
      BY DEF About, Types
    <2> QED  BY <2>1 DEF Types
  <1>6. lib'.table \subseteq Request /\ lib'.open \subseteq Request
    BY DEF About, Types
  <1>7. IsFiniteSet(lib'.table) /\ IsFiniteSet(lib'.open)
    <2>1. IsFiniteSet(lib.table) /\ IsFiniteSet(E) /\ IsFiniteSet(lib.open) /\ IsFiniteSet(Q)
      BY DEF About, Types
    <2>2. IsFiniteSet(lib.table \cup E) /\ IsFiniteSet(lib.open \cup Q)
      BY ONLY <2>1, FS_Union
    <2> QED  BY <2>2
  <1>8. Request' = Request
    BY DEF Request
  <1> QED  BY <1>1, <1>2, <1>3, <1>4, <1>5, <1>6, <1>7, <1>8 DEF Types

\* Nothing has the new id yet.
LEMMA GrownIds ==
    ASSUME Types, Fresh, Alike, NEW ih \in Services, NEW op, NEW r, NEW m, NEW E, NEW Q, NEW N,
           Grown(ih, op, r, m, E, Q, N), About(op, r, m, E, Q, N)
    PROVE  Fresh' /\ Alike'
  <1> USE DEF Grown
  <1> DEFINE w0 == [id |-> m, op |-> op, remote |-> r]
             t0 == [id |-> m, ih |-> ih]
  <1>1. lib.next \in Nat /\ m \in Nat /\ m >= lib.next
    BY DEF Types, About
  <1>2. /\ \A t \in lib.tracks : t.id \in Nat /\ t.id < lib.next
        /\ \A w \in lib.wire : w.id \in Nat /\ w.id < lib.next
        /\ \A x \in lib.table : x.id \in Nat /\ x.id < lib.next
        /\ \A q \in lib.open : q.id \in Nat /\ q.id < lib.next
        /\ \A n \in lib.nodes : n.id \in Nat /\ n.id < lib.next
    BY DEF Types, Fresh, Request
  <1>3. /\ \A x \in E : x.id = lib.next /\ x.op = op /\ x.remote = r
        /\ \A q \in Q : q.id = lib.next /\ q.op = op /\ q.remote = r
        /\ \A n \in N : n = [id |-> lib.next, op |-> op]
    BY DEF About
  <1>4. Fresh'
    BY <1>1, <1>2, <1>3 DEF Fresh
  <1>5. \A t \in lib'.tracks, u \in lib'.tracks : t.id = u.id => t = u
    BY <1>1, <1>2 DEF Alike
  <1>6. \A w \in lib'.wire, v \in lib'.wire : w.id = v.id => w = v
    BY <1>1, <1>2 DEF Alike
  <1>7. \A x \in lib'.table, y \in lib'.table :
          x.id = y.id => /\ x.op = y.op /\ x.remote = y.remote
                         /\ x.service = y.service => x = y
    BY <1>1, <1>2, <1>3 DEF Alike, About
  <1>8. \A q \in lib'.open, p \in lib'.open : q.id = p.id => q = p
    BY <1>1, <1>2, <1>3 DEF Alike, About
  <1>9. \A x \in lib'.table, q \in lib'.open : x.id = q.id => x.op = q.op /\ x.remote = q.remote
    BY <1>1, <1>2, <1>3 DEF Alike
  <1>10. \A x \in lib'.table, w \in lib'.wire : x.id = w.id => x.op = w.op /\ x.remote = w.remote
    BY <1>1, <1>2, <1>3 DEF Alike
  <1>11. \A q \in lib'.open, w \in lib'.wire : q.id = w.id => q.op = w.op /\ q.remote = w.remote
    BY <1>1, <1>2, <1>3 DEF Alike
  <1>12. \A n \in lib'.nodes, x \in lib'.table : n.id = x.id => n.op = x.op
    BY <1>1, <1>2, <1>3 DEF Alike
  <1>13. \A n \in lib'.nodes, k \in lib'.nodes : n.id = k.id => n = k
    BY <1>1, <1>2, <1>3 DEF Alike
  <1>14. Alike'
    BY <1>5, <1>6, <1>7, <1>8, <1>9, <1>10, <1>11, <1>12, <1>13 DEF Alike
  <1> QED  BY <1>4, <1>14

\* The way of the new request, and of the old ones, which have other ids.
LEMMA GrownWays ==
    ASSUME Types, Fresh, Routed, Gone, NEW ih \in Services, NEW op, NEW r, NEW m,
           NEW E, NEW Q, NEW N, Grown(ih, op, r, m, E, Q, N), Meant(ih, op, r, m, E, Q, N)
    PROVE  Routed' /\ Gone'
  <1> USE DEF Grown
  <1>1. /\ \A t \in lib.tracks : t.id # m
        /\ \A w \in lib.wire : w.id # m
    BY DEF Types, Fresh, Meant, About
  <1>2. \A t \in lib'.tracks, w \in lib'.wire : t.id = w.id => Asker(t, w.op)
    BY <1>1 DEF Routed, Meant
  <1>3. \A x \in lib'.table : For(x) \/ Entry(x)
    BY DEF Routed, Meant, About
  <1>4. \A q \in lib'.open : Plain(q)
    BY DEF Routed, Meant, About
  <1>5. Routed'
    BY <1>2, <1>3, <1>4 DEF Routed
  <1>6. Gone'
    BY DEF Gone, Meant, Alive, Calm
  <1> QED  BY <1>5, <1>6

LEMMA GrownAwaited ==
    ASSUME Types, Fresh, Awaited, NEW ih \in Services, NEW op, NEW r, NEW m,
           NEW E, NEW Q, NEW N, Grown(ih, op, r, m, E, Q, N), Meant(ih, op, r, m, E, Q, N)
    PROVE  Awaited'
  <1> USE DEF Grown
  <1>1. /\ \A t \in lib.tracks : t.id # m
        /\ \A w \in lib.wire : w.id # m
    BY DEF Types, Fresh, Meant, About
  <1>2. lib'.dead = lib.dead /\ lib'.deaf = lib.deaf
    BY DEF Calm
  <1>3. \A x \in lib'.table : OwnAwaited(x)'
    BY DEF Awaited, OwnAwaited, Meant, Waited
  <1>4. \A x \in lib'.table : StorageAwaited(x)'
    BY <1>2 DEF Awaited, StorageAwaited, Meant, Waited
  <1>5. \A x \in lib'.table : DiscoAwaited(x)'
    BY <1>2 DEF Awaited, DiscoAwaited, Meant, Waited
  <1>6. \A t \in lib'.tracks, w \in lib'.wire : TrackAwaited(t, w)'
    BY <1>1, <1>2 DEF Awaited, TrackAwaited, Meant, Waited
  <1> QED  BY <1>3, <1>4, <1>5, <1>6 DEF Awaited

\* Of what was said, nothing changes.
LEMMA CalmSays ==
    ASSUME Calm
    PROVE  /\ \A op, r : Excused(op, r)' <=> Excused(op, r)
           /\ \A q : Due(q)' <=> Due(q)
           /\ \A x : Forgotten(x)' <=> Forgotten(x)
           /\ \A n : NodeForgotten(n)' <=> NodeForgotten(n)
           /\ Lost' <=> Lost
           /\ Unchecked' <=> Unchecked
           /\ Intact' <=> Intact
  BY DEF Calm, Excused, Due, Forgotten, NodeForgotten, Lost, Unchecked, Intact

LEMMA GrownOnItsWay ==
    ASSUME Types, OnItsWay, NEW ih \in Services, NEW op, NEW r, NEW m,
           NEW E, NEW Q, NEW N, Grown(ih, op, r, m, E, Q, N), Meant(ih, op, r, m, E, Q, N)
    PROVE  OnItsWay'
  <1> USE DEF Grown
  <1>1. SUFFICES ASSUME NEW q \in lib'.open, Due(q)
        PROVE  Linked(q)'
    BY CalmSays DEF OnItsWay
  <1>2. CASE q \in lib.open
    BY <1>1, <1>2 DEF OnItsWay, Linked
  <1>3. CASE q \in Q
    <2>1. q.id = lib.next /\ q.op = op /\ q.remote = r
      BY <1>3 DEF Meant, About
    <2>2. /\ m = lib.next /\ ih = Channel(q.service, op)
          /\ op \in Behind(q.service) =>
                [service |-> "disco", id |-> m, handler |-> q.service, op |-> op, remote |-> r] \in E
          /\ q.service \in Own \cup Storages => q \in E
          /\ op \in NodeTold \cap NodeNoted => [id |-> m, op |-> op] \in N
      BY <1>1, <1>3 DEF Meant, WillTell
    <2> QED  BY <2>1, <2>2 DEF Linked
  <1> QED  BY <1>1, <1>2, <1>3

\* One request more for the commands of a remote is one answer more.
LEMMA GrownFetches ==
    ASSUME Types, Fresh, Fetches, NEW ih \in Services, NEW op, NEW r, NEW m,
           NEW E, NEW Q, NEW N, Grown(ih, op, r, m, E, Q, N), Meant(ih, op, r, m, E, Q, N)
    PROVE  Fetches'
  <1> USE DEF Grown
  <1>1. SUFFICES ASSUME Unchecked
        PROVE  /\ \A x \in lib'.table :
                     x.service = "adhoc" /\ x.op = "FetchAdhocCommands" => x \in lib'.open
               /\ \A q \in lib'.open : q.op = "FetchAdhocCommands" => q \in lib'.table
               /\ \A s \in AllRemotes :
                     \/ Excused("FetchAdhocCommands", s)
                     \/ Cardinality(Fetching(s)') <= Coming("FetchAdhocCommands", s)'
    BY CalmSays DEF Fetches, Fetching
  <1>2. \A x \in E : x.service = "adhoc" => x \in Q
    BY DEF Meant, About, Waited, Entry, For, Own
  <1>3. \A x \in lib'.table :
          x.service = "adhoc" /\ x.op = "FetchAdhocCommands" => x \in lib'.open
    BY <1>1, <1>2 DEF Fetches
  <1>4. \A q \in lib'.open : q.op = "FetchAdhocCommands" => q \in lib'.table
    BY <1>1 DEF Fetches, Meant, CommandsFetched
  <1>5. ASSUME NEW s \in AllRemotes, ~Excused("FetchAdhocCommands", s)
        PROVE  Cardinality(Fetching(s)') <= Coming("FetchAdhocCommands", s)'
    <2> DEFINE W == {w \in lib.wire : w.op = "FetchAdhocCommands" /\ w.remote = s}
               w0 == [id |-> m, op |-> op, remote |-> r]
    <2>1. IsFiniteSet(W) /\ IsFiniteSet(Fetching(s))
      BY FS_Subset DEF Types, Fetching
    <2>2. Cardinality(W) \in Nat /\ Cardinality(Fetching(s)) \in Nat
      BY <2>1, FS_CardinalityType
    <2>3. Cardinality(Fetching(s)) <= Cardinality(W)
      BY <1>1, <1>5 DEF Fetches, Coming
    <2>4. CASE op = "FetchAdhocCommands" /\ r = s
      <3>1. w0 \notin W
        BY DEF Types, Fresh, Meant, About
      <3>2. Coming("FetchAdhocCommands", s)' = Cardinality(W \cup {w0})
        <4>1. {w \in lib'.wire : w.op = "FetchAdhocCommands" /\ w.remote = s} = W \cup {w0}
          BY <2>4
        <4> QED  BY <4>1 DEF Coming
      <3> HIDE DEF W, w0
      <3>3. Cardinality(W \cup {w0}) = Cardinality(W) + 1
        BY ONLY <2>1, <3>1, FS_AddElement
      <3>4. PICK e : Fetching(s)' \subseteq Fetching(s) \cup {e}
        <4>1. \A x \in E, y \in E : IsFetch(x, s) /\ IsFetch(y, s) => x = y
          BY DEF Meant, About, IsFetch
        <4>2. CASE \E x \in E : IsFetch(x, s)
          BY <4>1, <4>2 DEF Fetching
        <4>3. CASE ~\E x \in E : IsFetch(x, s)
          BY <4>3 DEF Fetching
        <4> QED  BY <4>2, <4>3
      <3>5. /\ IsFiniteSet(Fetching(s) \cup {e})
            /\ Cardinality(Fetching(s) \cup {e}) <= Cardinality(Fetching(s)) + 1
        <4> DEFINE F == Fetching(s)
        <4> HIDE DEF F
        <4>1. IsFiniteSet(F) /\ Cardinality(F) \in Nat
          BY <2>1, <2>2 DEF F
        <4>2. /\ IsFiniteSet(F \cup {e})
              /\ Cardinality(F \cup {e}) = IF e \in F THEN Cardinality(F) ELSE Cardinality(F) + 1
          BY ONLY <4>1, FS_AddElement
        <4>3. Cardinality(F \cup {e}) <= Cardinality(F) + 1
          BY ONLY <4>1, <4>2
        <4> QED  BY <4>2, <4>3 DEF F
      <3>6. /\ IsFiniteSet(Fetching(s)')
            /\ Cardinality(Fetching(s)') <= Cardinality(Fetching(s) \cup {e})
        BY ONLY <3>4, <3>5, FS_Subset
      <3>7. Cardinality(Fetching(s)') \in Nat /\ Cardinality(Fetching(s) \cup {e}) \in Nat
        BY <3>5, <3>6, FS_CardinalityType
      <3> QED  BY ONLY <2>2, <2>3, <3>2, <3>3, <3>5, <3>6, <3>7
    <2>5. CASE ~(op = "FetchAdhocCommands" /\ r = s)
      <3>1. {w \in lib'.wire : w.op = "FetchAdhocCommands" /\ w.remote = s} = W
        BY <2>5
      <3>2. Fetching(s)' = Fetching(s)
        BY <2>5 DEF Fetching, IsFetch, Meant, About
      <3> QED  BY <2>3, <3>1, <3>2 DEF Coming
    <2> QED  BY <2>4, <2>5
  <1> QED  BY <1>3, <1>4, <1>5

LEMMA GrownKeeping ==
    ASSUME Types, ThroughDisco, Keeping, NEW ih \in Services, NEW op, NEW r, NEW m,
           NEW E, NEW Q, NEW N, Grown(ih, op, r, m, E, Q, N), Meant(ih, op, r, m, E, Q, N)
    PROVE  ThroughDisco' /\ Keeping'
  <1> USE DEF Grown
  <1>1. ThroughDisco'
    BY DEF ThroughDisco, Meant, CommandsFetched
  <1>2. SUFFICES ASSUME ~Lost
        PROVE  /\ \A t \in lib'.tracks : t.id \in Pending'
               /\ \A n \in lib'.nodes : NodeForgotten(n) \/ NodeKept(n)'
               /\ \A x \in lib'.table : Forgotten(x) \/ EntryKept(x)'
    BY <1>1 DEF Keeping, Calm, Lost, Forgotten, NodeForgotten
  <1>3. m \in Pending' /\ Pending \subseteq Pending'
    <2>1. [id |-> m, op |-> op, remote |-> r] \in lib'.wire
      OBVIOUS
    <2>2. [id |-> m, op |-> op, remote |-> r].id \in Pending'
      BY ONLY <2>1 DEF Pending
    <2>3. lib.wire \subseteq lib'.wire
      OBVIOUS
    <2>4. Pending \subseteq Pending'
      BY ONLY <2>3 DEF Pending
    <2> QED  BY <2>2, <2>4
  <1>4. \A t \in lib'.tracks : t.id \in Pending'
    BY <1>2, <1>3 DEF Keeping
  <1>5. ASSUME NEW n \in lib'.nodes
        PROVE  NodeForgotten(n) \/ NodeKept(n)'
    <2>1. CASE n \in lib.nodes
      BY <1>2, <1>3, <2>1 DEF Keeping, NodeKept
    <2>2. CASE n \in N
      <3>1. n.id = m /\ m = lib.next
        BY <2>2 DEF Meant, About, Comes
      <3>2. (ih = "pubsub" /\ \E x \in E : x.service = "pubsub") \/ NodeForgotten(n)
        BY <2>2 DEF Meant, Comes
      <3>3. \A x \in E : x.id = m
        BY <3>1 DEF Meant, About
      <3> QED  BY <1>3, <3>1, <3>2, <3>3 DEF NodeKept
    <2> QED  BY <2>1, <2>2
  <1>6. ASSUME NEW x \in lib'.table
        PROVE  Forgotten(x) \/ EntryKept(x)'
    <2>1. CASE x \in lib.table
      BY <1>2, <2>1 DEF Keeping, EntryKept
    <2>2. CASE x \in E
      <3>1. x.id = lib.next /\ x.op = op /\ x.remote = r
        BY <2>2 DEF Meant, About
      <3>2. CASE m = lib.next
        BY <3>1, <3>2 DEF EntryKept
      <3>3. CASE op = "SearchFields"
        BY <3>1, <3>3 DEF Forgotten
      <3> QED  BY <3>2, <3>3 DEF Meant, Comes
    <2> QED  BY <2>1, <2>2
  <1> QED  BY <1>4, <1>5, <1>6

\* What is new in a table is tracked where its answer is looked for.
LEMMA GrownTracked ==
    ASSUME Types, Fresh, Tracked, NEW ih \in Services, NEW op, NEW r, NEW m,
           NEW E, NEW Q, NEW N, Grown(ih, op, r, m, E, Q, N), Meant(ih, op, r, m, E, Q, N)
    PROVE  Tracked'
  <1> USE DEF Grown
  <1>1. SUFFICES ASSUME NEW x \in lib'.table, NEW w \in lib'.wire, x.id = w.id
        PROVE  [id |-> x.id, ih |-> Channel(x.service, x.op)] \in lib'.tracks
    BY DEF Tracked
  <1>2. lib.next \in Nat /\ m \in Nat /\ m >= lib.next
    BY DEF Types, Meant, About
  <1>3. CASE x \in lib.table
    <2>1. x.id \in Nat /\ x.id < lib.next
      BY <1>3 DEF Types, Request, Fresh
    <2>2. w \in lib.wire
      BY <1>1, <1>2, <2>1
    <2> QED  BY <1>1, <1>3, <2>2 DEF Tracked
  <1>4. CASE x \in E
    <2>1. x.id = lib.next /\ x.op = op
      BY <1>4 DEF Meant, About
    <2>2. w \notin lib.wire
      <3>1. ASSUME w \in lib.wire
            PROVE  w.id \in Nat /\ w.id < lib.next
        BY <3>1 DEF Types, Fresh
      <3> QED  BY <1>1, <1>2, <2>1, <3>1
    <2>3. m = lib.next
      <3>1. w = [id |-> m, op |-> op, remote |-> r]
        BY <1>1, <2>2
      <3>2. w.id = m
        BY <3>1
      <3> QED  BY <1>1, <2>1, <3>2
    <2>4. ih = Channel(x.service, x.op)
      BY <1>4, <2>1, <2>3 DEF Meant, Comes
    <2>5. [id |-> m, ih |-> ih] \in lib'.tracks
      OBVIOUS
    <2> QED  BY <2>1, <2>3, <2>4, <2>5
  <1> QED  BY <1>3, <1>4

\* An operation that notes what it means keeps the invariant.
LEMMA AskingKeeps ==
    ASSUME Inv, Intact, NEW ih, NEW op, NEW r, NEW m, NEW E, NEW Q, NEW N,
           Grown(ih, op, r, m, E, Q, N), Meant(ih, op, r, m, E, Q, N)
    PROVE  Inv'
  <1>1. Types /\ Linkage
    BY DEF Inv
  <1>2. ih \in Services /\ About(op, r, m, E, Q, N)
    BY DEF Meant
  <1>3. Types'
    BY <1>1, <1>2, GrownTypes
  <1>4. Fresh' /\ Alike'
    BY <1>1, <1>2, GrownIds DEF Linkage
  <1>5. Routed' /\ Tracked' /\ Gone' /\ Awaited'
    BY <1>1, <1>2, GrownWays, GrownTracked, GrownAwaited DEF Linkage
  <1>6. OnItsWay' /\ Fetches'
    BY <1>1, <1>2, GrownOnItsWay, GrownFetches DEF Linkage
  <1>7. ThroughDisco' /\ Keeping'
    BY <1>1, <1>2, GrownKeeping DEF Linkage
  <1>8. RuinedOnlyBy' /\ ToldOnlyWhoWaits'
    BY DEF Grown, Calm, Inv, RuinedOnlyBy, ToldOnlyWhoWaits
  <1> QED  BY <1>3, <1>4, <1>5, <1>6, <1>7, <1>8 DEF Inv, Linkage

(***************************************************************************)
(* The operations, by what they note.                                      *)
(***************************************************************************)
\* A service asks itself or through discovery, not both for one operation.
LEMMA DirectOrBehind ==
    ASSUME NEW service, NEW op \in Direct(service)
    PROVE  /\ service \in Services
           /\ op \notin Behind(service) /\ op \notin AdhocDisco
           /\ Channel(service, op) = service
  <1>1. service \in Services
    BY DEF Direct, Services, Rooms
  <1>2. op \notin AdhocDisco \cup FlexDisco \cup RoomDisco
    BY <1>1 DEF Direct, Services, Rooms, AdhocDisco, FlexDisco, RoomDisco, RoomOps, PubSubOps,
                NodeNoted, PayloadTold
  <1>3. op \notin Behind(service)
    BY <1>2 DEF Behind
  <1> QED  BY <1>1, <1>2, <1>3 DEF Channel

LEMMA HandlersAreNoServices ==
    ASSUME NEW h \in Handlers
    PROVE  h \notin Services /\ h # "listener"
  BY RequestsAssumption

\* The operations of the services that keep a table.
LEMMA OwnAskKeeps ==
    ASSUME Inv, Intact, UNCHANGED uses, NEW op \in uses, NEW service \in Own \ lib.dead,
           op \in Direct(service), NEW h \in Handlers, NEW r \in Remotes,
           NEW N, \/ /\ op \in NodeNoted /\ N = {[id |-> lib.next, op |-> op]}
                     /\ lib' = [Asked(lib, service, h, op, r) EXCEPT !.nodes = @ \cup N]
                  \/ /\ op \notin NodeNoted /\ N = {}
                     /\ lib' = Asked(lib, service, h, op, r)
    PROVE  Inv'
  <1> DEFINE x == [service |-> service, id |-> lib.next, handler |-> h, op |-> op, remote |-> r]
             n == lib.next
  <1>1. Types
    BY DEF Inv
  <1>2. service \in Services /\ service \notin lib.deaf /\ service \notin Listening \cup Storages
    BY <1>1 DEF Types, Own, Listening, Storages, Services, Rooms
  <1>3. h \notin Services
    BY HandlersAreNoServices
  <1>4. op \notin Behind(service) /\ op \notin AdhocDisco /\ Channel(service, op) = service
    BY DirectOrBehind
  <1>5. n \in Nat /\ x \in Request
    BY <1>1, <1>2 DEF Types, Request, AllRemotes
  <1>6. Grown(service, op, r, n, {x}, {x}, N)
    <2>1. Record(lib)
      BY <1>1 DEF Types
    <2>2. PICK k : k = Asked(lib, service, h, op, r)
      OBVIOUS
    <2>3. service \notin lib.deaf
      BY <1>2
    <2> HIDE DEF x, n
    <2>4. /\ Record(k) /\ k.tracks = lib.tracks \cup {[id |-> n, ih |-> service]}
          /\ k.table = lib.table \cup {x} /\ k.nodes = lib.nodes
          /\ k.wire = lib.wire \cup {[id |-> n, op |-> op, remote |-> r]}
          /\ k.next = n + 1 /\ k.open = lib.open \cup {x}
          /\ k.dead = lib.dead /\ k.deaf = lib.deaf /\ k.silent = lib.silent
          /\ k.stray = lib.stray /\ k.ruin = lib.ruin
      BY ONLY <2>1, <2>2, <2>3 DEF Record, Asked, Noted, Kept, Opened, Sent, x, n
    <2>5. CASE lib' = k /\ N = {}
      BY <2>4, <2>5 DEF Grown, Calm
    <2>6. CASE lib' = [k EXCEPT !.nodes = @ \cup N]
      BY <2>4, <2>6 DEF Grown, Calm, Record
    <2> QED  BY <2>2, <2>5, <2>6
  <1>7. About(op, r, n, {x}, {x}, N)
    <2>1. IsFiniteSet({x})
      BY FS_Singleton
    <2>2. Plain(x) /\ Entry(x)
      BY DEF Plain, WhoAsks, Entry
    <2> QED  BY <1>5, <2>1, <2>2 DEF About, AllRemotes
  <1>8. ~For(x)
    BY <1>3 DEF For
  <1>9. Alive(service, {x}, {x}) /\ Waited(service, op, r, n, {x}, {x})
    BY <1>2, <1>8 DEF Alive, Waited
  <1>10. WillTell(service, op, r, n, {x}, {x}, N)
    BY <1>4 DEF WillTell
  <1>11. CommandsFetched(service, op, r, n, {x}, {x})
    BY <1>4 DEF CommandsFetched
  <1>12. Comes(service, op, n, {x}, N)
    <2>1. op \in NodeNoted => service = "pubsub"
      BY DEF NodeNoted, Direct, RoomOps, Own
    <2> QED  BY <1>4, <2>1 DEF Comes
  <1>13. Asker([id |-> n, ih |-> service], op)
    BY <1>2, <1>4 DEF Asker
  <1>14. Meant(service, op, r, n, {x}, {x}, N)
    BY <1>2, <1>7, <1>9, <1>10, <1>11, <1>12, <1>13 DEF Meant
  <1> HIDE DEF x, n
  <1> QED  BY <1>6, <1>14, AskingKeeps

LEMMA AsksKeeps ==
    ASSUME Inv, NEW op, NEW service \in Own, op \in Direct(service) \ NodeNoted, Asks(op, service)
    PROVE  Inv'
  <1>1. Intact /\ UNCHANGED uses /\ op \in uses /\ service \notin lib.dead
    BY DEF Asks, Requests
  <1>2. PICK h \in Handlers, r \in Remotes : lib' = Asked(lib, service, h, op, r)
    BY DEF Asks
  <1> QED  BY <1>1, <1>2, OwnAskKeeps

LEMMA NodeAsksKeeps ==
    ASSUME Inv, NEW op \in NodeNoted, NodeAsks(op)
    PROVE  Inv'
  <1>1. Intact /\ UNCHANGED uses /\ op \in uses /\ "pubsub" \notin lib.dead
    BY DEF NodeAsks, Requests
  <1>2. PICK h \in Handlers, r \in Remotes : lib' = NodeAsked(lib, h, op, r)
    BY DEF NodeAsks
  <1>3. lib' = [Asked(lib, "pubsub", h, op, r) EXCEPT !.nodes = @ \cup {[id |-> lib.next, op |-> op]}]
    BY <1>2 DEF NodeAsked
  <1>4. op \in Direct("pubsub") /\ "pubsub" \in Own
    BY DEF Direct, PubSubOps, Own
  <1> QED  BY <1>1, <1>3, <1>4, OwnAskKeeps

\* The operations of the services with one listener, who may be gone.
LEMMA ListenerAskKeeps ==
    ASSUME Inv, Intact, UNCHANGED uses, NEW op \in uses, NEW service \in Listening \ lib.dead,
           op \in Direct(service), NEW r \in AllRemotes, NEW C,
           lib' = [ListenerAsked(lib, service, op, r) EXCEPT !.creating = C]
    PROVE  Inv'
  <1> DEFINE q == Waiter(service, lib.next, op, r)
             Q == IF service \in lib.deaf THEN {} ELSE {q}
             n == lib.next
  <1>1. Types
    BY DEF Inv
  <1>2. service \in Services /\ service \notin Own \cup Storages
    BY <1>1 DEF Types, Own, Listening, Storages, Services, Rooms
  <1>3. op \notin Behind(service) /\ op \notin AdhocDisco /\ Channel(service, op) = service
    BY DirectOrBehind
  <1>4. n \in Nat /\ q \in Request
    BY <1>1, <1>2 DEF Types, Request, Waiter
  <1>5. Grown(service, op, r, n, {}, Q, {})
    BY <1>1 DEF Types, Grown, Calm, Record, ListenerAsked, Opened, Sent, Waiter
  <1>6. About(op, r, n, {}, Q, {})
    <2>1. IsFiniteSet({}) /\ IsFiniteSet(Q)
      BY FS_EmptySet, FS_Singleton
    <2>2. Plain(q)
      BY <1>2 DEF Plain, WhoAsks, Waiter
    <2>3. \A p \in Q : p = q
      OBVIOUS
    <2> HIDE DEF Q
    <2> QED  BY <1>4, <2>1, <2>2, <2>3 DEF About, Waiter
  <1>7. Alive(service, {}, Q) /\ Waited(service, op, r, n, {}, Q)
    BY <1>2 DEF Alive, Waited, Waiter
  <1>8. WillTell(service, op, r, n, {}, Q, {})
    <2>1. op \notin NodeNoted
      BY DEF Direct, Listening, RoomOps, NodeNoted
    <2> QED  BY <1>2, <1>3, <2>1 DEF WillTell, Waiter
  <1>9. CommandsFetched(service, op, r, n, {}, Q)
    BY <1>3 DEF CommandsFetched, AdhocDisco, Waiter
  <1>10. Comes(service, op, n, {}, {})
    BY DEF Comes
  <1>11. Asker([id |-> n, ih |-> service], op)
    BY <1>2, <1>3 DEF Asker
  <1>12. Meant(service, op, r, n, {}, Q, {})
    BY <1>2, <1>6, <1>7, <1>8, <1>9, <1>10, <1>11 DEF Meant
  <1> HIDE DEF n, Q
  <1> QED  BY <1>5, <1>12, AskingKeeps

LEMMA ListenerAsksKeeps ==
    ASSUME Inv, NEW op, NEW service \in Listening, op \in Direct(service),
           ListenerAsks(op, service)
    PROVE  Inv'
  <1>1. Intact /\ UNCHANGED uses /\ op \in uses /\ service \notin lib.dead
    BY DEF ListenerAsks, Requests
  <1>2. PICK r \in Remotes : lib' = ListenerAsked(lib, service, op, r)
    BY DEF ListenerAsks
  <1>3. lib' = [ListenerAsked(lib, service, op, r) EXCEPT !.creating = lib.creating]
    BY <1>2, ZenonT(60) DEF Inv, Types, Record, ListenerAsked, Opened, Sent
  <1>4. r \in AllRemotes
    BY DEF AllRemotes
  <1> QED  BY <1>1, <1>3, <1>4, ListenerAskKeeps

LEMMA RoomAskKeeps ==
    ASSUME Inv, NEW room \in Rooms, NEW op \in Direct(room), Requests(op, room), NEW C,
           lib' = [RoomAsked(lib, room, op) EXCEPT !.creating = C]
    PROVE  Inv'
  <1>1. Intact /\ UNCHANGED uses /\ op \in uses /\ room \notin lib.dead
    BY DEF Requests
  <1>2. room \in Listening \ lib.dead /\ "room" \in AllRemotes
    BY <1>1 DEF Rooms, Listening, AllRemotes
  <1>3. lib' = [ListenerAsked(lib, room, op, "room") EXCEPT !.creating = C]
    BY DEF RoomAsked
  <1>4. op \in Direct(room) /\ Inv
    OBVIOUS
  <1> QED  BY ONLY <1>1, <1>2, <1>3, <1>4, ListenerAskKeeps

LEMMA RoomAsksKeeps ==
    ASSUME Inv, NEW op \in RoomOps, NEW room \in Rooms, Requests(op, room),
           lib' = RoomAsked(lib, room, op)
    PROVE  Inv'
  <1>1. op \in Direct(room)
    BY DEF Direct, Rooms
  <1>2. lib' = [RoomAsked(lib, room, op) EXCEPT !.creating = lib.creating]
    BY ZenonT(60) DEF Inv, Types, Record, RoomAsked, ListenerAsked, Opened, Sent
  <1> QED  BY <1>1, <1>2, RoomAskKeeps

\* Bookmarks and annotations are noted in a table as well.
LEMMA StorageAskKeeps ==
    ASSUME Inv, NEW op, NEW service \in Storages, op \in Direct(service),
           StorageAsks(op, service)
    PROVE  Inv'
  <1>1. Intact /\ UNCHANGED uses /\ op \in uses /\ service \notin lib.dead
    BY DEF StorageAsks, Requests
  <1>2. PICK r \in Remotes : lib' = Asked(lib, service, "listener", op, r)
    BY DEF StorageAsks
  <1> DEFINE x == Waiter(service, lib.next, op, r)
             Q == IF service \in lib.deaf THEN {} ELSE {x}
             n == lib.next
  <1>3. Types
    BY DEF Inv
  <1>4. service \in Services /\ service \notin Own \cup Listening
    BY DEF Own, Listening, Storages, Services, Rooms
  <1>5. op \notin Behind(service) /\ op \notin AdhocDisco /\ Channel(service, op) = service
    BY DirectOrBehind
  <1>6. n \in Nat /\ x \in Request
    BY <1>1, <1>3, <1>4 DEF Types, Request, Waiter, AllRemotes
  <1>7. Grown(service, op, r, n, {x}, Q, {})
    BY <1>1, <1>2, <1>3 DEF Types, Grown, Calm, Record, Asked, Noted, Kept, Opened, Sent, Waiter
  <1>8. About(op, r, n, {x}, Q, {})
    <2>1. IsFiniteSet({x}) /\ IsFiniteSet(Q)
      BY FS_EmptySet, FS_Singleton
    <2>2. Plain(x) /\ Entry(x)
      BY <1>4 DEF Plain, WhoAsks, Waiter, Entry
    <2>3. \A p \in Q : p = x
      OBVIOUS
    <2> HIDE DEF Q
    <2> QED  BY <1>1, <1>6, <2>1, <2>2, <2>3 DEF About, Waiter, AllRemotes
  <1>9. ~For(x)
    BY DEF For, Waiter, Services, Rooms
  <1>10. Alive(service, {x}, Q) /\ Waited(service, op, r, n, {x}, Q)
    BY <1>1, <1>4, <1>9 DEF Alive, Waited, Waiter
  <1>11. WillTell(service, op, r, n, {x}, Q, {})
    <2>1. op \notin NodeNoted
      BY DEF Direct, Storages, NodeNoted
    <2> QED  BY <1>4, <1>5, <2>1 DEF WillTell, Waiter
  <1>12. CommandsFetched(service, op, r, n, {x}, Q)
    BY <1>5 DEF CommandsFetched
  <1>13. Comes(service, op, n, {x}, {})
    BY <1>5 DEF Comes, Waiter
  <1>14. Asker([id |-> n, ih |-> service], op)
    BY <1>4, <1>5 DEF Asker
  <1>15. Meant(service, op, r, n, {x}, Q, {})
    BY <1>4, <1>8, <1>10, <1>11, <1>12, <1>13, <1>14 DEF Meant
  <1> HIDE DEF n, Q, x
  <1> QED  BY <1>1, <1>7, <1>15, AskingKeeps

\* What is asked through discovery for ad-hoc commands.
LEMMA AdhocThroughDiscoKeeps ==
    ASSUME Inv, NEW op \in AdhocDisco, AdhocThroughDisco(op)
    PROVE  Inv'
  <1>1. Intact /\ UNCHANGED uses /\ op \in uses /\ "adhoc" \notin lib.dead
    BY DEF AdhocThroughDisco, Requests
  <1>2. PICK h \in Handlers, r \in Remotes :
          lib' = DiscoFor(Noted(lib, "adhoc", h, op, r), "adhoc", op, r)
    BY DEF AdhocThroughDisco
  <1> DEFINE x == [service |-> "adhoc", id |-> lib.next, handler |-> h, op |-> op, remote |-> r]
             d == [service |-> "disco", id |-> lib.next, handler |-> "adhoc",
                   op |-> op, remote |-> r]
             n == lib.next
  <1>3. Types /\ "disco" \notin lib.dead /\ "adhoc" \notin lib.deaf
    BY <1>1 DEF Inv, Linkage, Gone, Types, Listening, Storages
  <1>4. h \notin Services /\ "adhoc" \in Services /\ "disco" \in Services /\ "adhoc" \notin Handlers
    BY HandlersAreNoServices DEF Services
  <1>5. op \in Behind("adhoc") /\ op \notin Direct("disco") /\ op \notin Behind("disco")
    BY DEF Behind, Direct, AdhocDisco, Rooms
  <1>6. n \in Nat /\ x \in Request /\ d \in Request
    BY <1>1, <1>3, <1>4 DEF Types, Request, AllRemotes
  <1>7. Grown("disco", op, r, n, {x, d}, {x}, {})
    BY <1>1, <1>2, <1>3, ZenonT(60) DEF Types, Grown, Calm, Record, DiscoFor, Noted, Kept, Opened, Sent
  <1>8. Plain(x) /\ Entry(x) /\ For(d) /\ ~For(x) /\ ~Plain(d)
    BY <1>4, <1>5 DEF Plain, Entry, For, WhoAsks, Own
  <1>9. About(op, r, n, {x, d}, {x}, {})
    <2>1. IsFiniteSet({x}) /\ IsFiniteSet({x, d})
      <3>1. IsFiniteSet({x}) /\ IsFiniteSet({x} \cup {d})
        <4>1. IsFiniteSet({x})
          BY FS_Singleton
        <4> HIDE DEF x, d
        <4> QED  BY ONLY <4>1, FS_AddElement
      <3>2. {x, d} = {x} \cup {d}
        OBVIOUS
      <3> QED  BY ONLY <3>1, <3>2
    <2>2. n >= lib.next /\ r \in AllRemotes
      BY <1>6 DEF AllRemotes
    <2> QED  BY <1>1, <1>6, <1>8, <2>1, <2>2 DEF About
  <1>10. Alive("disco", {x, d}, {x})
    BY <1>1, <1>3, <1>8 DEF Alive, Rooms
  <1>11. Waited("disco", op, r, n, {x, d}, {x})
    BY <1>8 DEF Waited, Listening, Storages
  <1>12. WillTell("disco", op, r, n, {x, d}, {x}, {})
    <2>1. op \notin NodeNoted
      BY DEF AdhocDisco, NodeNoted
    <2> QED  BY <1>5, <2>1 DEF WillTell, Channel
  <1>13. CommandsFetched("disco", op, r, n, {x, d}, {x})
    BY DEF CommandsFetched
  <1>14. Comes("disco", op, n, {x, d}, {})
    BY <1>5 DEF Comes, Channel
  <1>15. Asker([id |-> n, ih |-> "disco"], op)
    BY <1>4, <1>5 DEF Asker, Channel
  <1>16. Meant("disco", op, r, n, {x, d}, {x}, {})
    BY <1>4, <1>9, <1>10, <1>11, <1>12, <1>13, <1>14, <1>15 DEF Meant
  <1> HIDE DEF n, x, d
  <1> QED  BY <1>1, <1>7, <1>16, AskingKeeps

\* What is asked through discovery for a service with one listener.
LEMMA ListenerThroughDiscoKeeps ==
    ASSUME Inv, NEW service \in {"flexoff"} \cup Rooms, NEW op \in Behind(service),
           Requests(op, service), NEW r \in AllRemotes,
           lib' = DiscoFor(Opened(lib, service, "listener", op, r), service, op, r)
    PROVE  Inv'
  <1>1. Intact /\ UNCHANGED uses /\ op \in uses /\ service \notin lib.dead
    BY DEF Requests
  <1> DEFINE q == Waiter(service, lib.next, op, r)
             Q == IF service \in lib.deaf THEN {} ELSE {q}
             d == [service |-> "disco", id |-> lib.next, handler |-> service,
                   op |-> op, remote |-> r]
             n == lib.next
  <1>2. Types /\ "disco" \notin lib.dead
    BY <1>1 DEF Inv, Linkage, Gone
  <1>3. service \in Services /\ service \in Listening /\ service \notin Handlers /\ "disco" \in Services
    BY HandlersAreNoServices DEF Services, Listening, Rooms
  <1>4. op \notin AdhocDisco
    BY DEF Behind, AdhocDisco, FlexDisco, RoomDisco, Rooms
  <1>5. n \in Nat /\ q \in Request /\ d \in Request
    BY <1>1, <1>2, <1>3 DEF Types, Request, Waiter
  <1>6. Grown("disco", op, r, n, {d}, Q, {})
    BY <1>1, <1>2 DEF Types, Grown, Calm, Record, DiscoFor, Kept, Opened, Sent, Waiter
  <1>7. Plain(q) /\ For(d) /\ ~Plain(d)
    BY <1>3 DEF Plain, For, WhoAsks, Own, Waiter, Listening
  <1>8. About(op, r, n, {d}, Q, {})
    <2>1. IsFiniteSet({d}) /\ IsFiniteSet(Q)
      BY FS_EmptySet, FS_Singleton
    <2>2. \A p \in Q : p = q
      OBVIOUS
    <2> HIDE DEF Q
    <2> QED  BY <1>1, <1>5, <1>7, <2>1, <2>2 DEF About, Waiter
  <1>9. Alive("disco", {d}, Q)
    BY <1>1, <1>2 DEF Alive, Waiter
  <1>10. Waited("disco", op, r, n, {d}, Q)
    BY <1>7 DEF Waited, Listening, Storages, Waiter
  <1>11. WillTell("disco", op, r, n, {d}, Q, {})
    <2>1. op \notin NodeNoted
      BY DEF Behind, AdhocDisco, FlexDisco, RoomDisco, NodeNoted
    <2>2. service \notin Own \cup Storages
      BY <1>3 DEF Listening, Own, Storages
    <2> QED  BY <2>1, <2>2 DEF WillTell, Channel, Waiter
  <1>12. CommandsFetched("disco", op, r, n, {d}, Q)
    BY <1>4 DEF CommandsFetched, AdhocDisco, Waiter
  <1>13. Comes("disco", op, n, {d}, {})
    BY DEF Comes, Channel
  <1>14. Asker([id |-> n, ih |-> "disco"], op)
    BY <1>3 DEF Asker, Channel
  <1>15. Meant("disco", op, r, n, {d}, Q, {})
    BY <1>3, <1>8, <1>9, <1>10, <1>11, <1>12, <1>13, <1>14 DEF Meant
  <1> HIDE DEF n, Q, d
  <1> QED  BY <1>1, <1>6, <1>15, AskingKeeps

\* A search by fields is noted under one id and sent under the next.
LEMMA SearchFieldsKeeps ==
    ASSUME Inv, SearchFields
    PROVE  Inv'
  <1> DEFINE op == "SearchFields"
  <1>1. Intact /\ UNCHANGED uses /\ op \in uses /\ "search" \notin lib.dead
    BY DEF SearchFields, Requests
  <1>2. PICK h \in Handlers, r \in Remotes :
          lib' = Sent([Noted(lib, "search", h, op, r) EXCEPT !.next = @ + 1], "search", op, r)
    BY DEF SearchFields
  <1> DEFINE x == [service |-> "search", id |-> lib.next, handler |-> h, op |-> op, remote |-> r]
             m == lib.next + 1
  <1>3. Types /\ "search" \notin lib.deaf
    BY DEF Inv, Types, Listening, Storages
  <1>4. h \notin Services /\ "search" \in Services
    BY HandlersAreNoServices DEF Services
  <1>5. op \notin Behind("search") /\ op \notin AdhocDisco /\ op \in Direct("search")
    BY DEF Behind, AdhocDisco, Direct, Rooms
  <1>6. m \in Nat /\ lib.next \in Nat /\ x \in Request /\ m >= lib.next
    BY <1>1, <1>3, <1>4 DEF Types, Request, AllRemotes
  <1>7. Grown("search", op, r, m, {x}, {x}, {})
    BY <1>1, <1>2, <1>3 DEF Types, Grown, Calm, Record, Noted, Kept, Opened, Sent
  <1>8. About(op, r, m, {x}, {x}, {})
    <2>1. IsFiniteSet({x})
      BY FS_Singleton
    <2>2. Plain(x) /\ Entry(x)
      BY <1>5 DEF Plain, WhoAsks, Own, Entry
    <2> QED  BY <1>1, <1>6, <2>1, <2>2 DEF About, AllRemotes
  <1>9. Alive("search", {x}, {x}) /\ Waited("search", op, r, m, {x}, {x})
    BY <1>1, <1>3, <1>4 DEF Alive, Waited, For, Listening, Storages
  <1>10. WillTell("search", op, r, m, {x}, {x}, {})
    BY DEF WillTell, Due, Excused, NeverTold
  <1>11. CommandsFetched("search", op, r, m, {x}, {x})
    BY <1>5 DEF CommandsFetched
  <1>12. Comes("search", op, m, {x}, {})
    BY <1>6 DEF Comes
  <1>13. Asker([id |-> m, ih |-> "search"], op)
    BY <1>4, <1>5 DEF Asker, Channel
  <1>14. Meant("search", op, r, m, {x}, {x}, {})
    BY <1>4, <1>8, <1>9, <1>10, <1>11, <1>12, <1>13 DEF Meant
  <1> HIDE DEF m, x, op
  <1> QED  BY <1>1, <1>7, <1>14, AskingKeeps

\* The name of a unique room is asked for by nobody who waits.
LEMMA JoinUniqueKeeps ==
    ASSUME Inv, JoinUnique
    PROVE  Inv'
  <1> DEFINE op == "RequestUniqueName"
             n == lib.next
  <1>1. Intact /\ UNCHANGED uses /\ op \in uses /\ "uniqueroom" \notin lib.dead
    BY DEF JoinUnique, Requests
  <1>2. lib' = Sent(lib, "uniqueroom", op, "room")
    BY DEF JoinUnique
  <1>3. Types
    BY DEF Inv
  <1>4. Grown("uniqueroom", op, "room", n, {}, {}, {})
    BY <1>1, <1>2, <1>3 DEF Types, Grown, Calm, Record, Sent
  <1>5. op \in Direct("uniqueroom") /\ op \notin Behind("uniqueroom") /\ op \notin AdhocDisco
    BY DEF Direct, Behind, RoomDisco, Rooms, AdhocDisco
  <1>6. About(op, "room", n, {}, {}, {})
    <2>1. n \in Nat /\ n >= lib.next
      BY <1>3 DEF Types
    <2> QED  BY <1>1, <2>1, FS_EmptySet DEF About, AllRemotes
  <1>7. Alive("uniqueroom", {}, {}) /\ Waited("uniqueroom", op, "room", n, {}, {})
    BY <1>1 DEF Alive, Waited
  <1>8. /\ WillTell("uniqueroom", op, "room", n, {}, {}, {})
        /\ CommandsFetched("uniqueroom", op, "room", n, {}, {})
        /\ Comes("uniqueroom", op, n, {}, {})
    BY <1>5 DEF WillTell, CommandsFetched, Comes
  <1>9. "uniqueroom" \in Services /\ Asker([id |-> n, ih |-> "uniqueroom"], op)
    BY <1>5 DEF Asker, Channel, Services, Rooms
  <1>10. Meant("uniqueroom", op, "room", n, {}, {}, {})
    BY <1>6, <1>7, <1>8, <1>9 DEF Meant
  <1> HIDE DEF n, op
  <1> QED  BY <1>1, <1>4, <1>10, AskingKeeps

\* Every operation is one of these.
LEMMA OperationsKeep ==
    ASSUME Inv, Operation
    PROVE  Inv'
  <1> USE DEF Own, Direct, NodeNoted, PubSubOps, PayloadTold
  <1>1. CASE FetchVCard \/ StoreVCard
    BY <1>1, AsksKeeps DEF FetchVCard, StoreVCard
  <1>2. CASE FetchSearchFields \/ SearchForm
    BY <1>2, AsksKeeps DEF FetchSearchFields, SearchForm
  <1>3. CASE RequestXml \/ StoreXml
    BY <1>3, AsksKeeps DEF RequestXml, StoreXml
  <1>4. CASE StoreBookmarks \/ RequestBookmarks \/ StoreAnnotations \/ RequestAnnotations
    BY <1>4, StorageAskKeeps
       DEF StoreBookmarks, RequestBookmarks, StoreAnnotations, RequestAnnotations, Storages
  <1>5. CASE GetDisco \/ ExecuteAdhocCommand \/ XmppPing
    BY <1>5, AsksKeeps DEF GetDisco, ExecuteAdhocCommand, XmppPing
  <1>6. CASE CheckAdhocSupport \/ FetchAdhocCommands
    BY <1>6, AdhocThroughDiscoKeeps DEF CheckAdhocSupport, FetchAdhocCommands, AdhocDisco
  <1>7. ASSUME NEW op \in FlexDisco, OfflineThroughDisco(op)
        PROVE  Inv'
    <2>1. PICK r \in Remotes : lib' = DiscoFor(Opened(lib, "flexoff", "listener", op, r), "flexoff", op, r)
      BY <1>7 DEF OfflineThroughDisco
    <2>2. op \in Behind("flexoff") /\ r \in AllRemotes /\ Requests(op, "flexoff")
      BY <1>7 DEF Behind, Rooms, AllRemotes, OfflineThroughDisco
    <2>3. "flexoff" \in {"flexoff"} \cup Rooms
      OBVIOUS
    <2> QED  BY ONLY Inv, <2>1, <2>2, <2>3, ListenerThroughDiscoKeeps
  <1>8. CASE FOCheckSupport \/ FORequestNum \/ FORequestHeaders
    BY <1>7, <1>8 DEF FOCheckSupport, FORequestNum, FORequestHeaders, FlexDisco
  <1>9. CASE FOMessageOperation \/ LastActivityQuery
    BY <1>9, ListenerAsksKeeps DEF FOMessageOperation, LastActivityQuery, Listening
  <1>10. CASE FetchRegistrationFields \/ CreateAccount \/ RemoveAccount
    BY <1>10, ListenerAsksKeeps
       DEF FetchRegistrationFields, CreateAccount, RemoveAccount, Listening
  <1>11. CASE PrivacyOperation \/ PrivacyStore
    <2>1. ASSUME NEW op \in Direct("privacy"), ListenerAsks(op, "privacy")
          PROVE  Inv'
      BY <2>1, ListenerAsksKeeps DEF Listening
    <2> QED  BY <1>11, <2>1 DEF PrivacyOperation, PrivacyStore
  <1>12. ASSUME NEW op \in PubSubOps \ NodeNoted, Asks(op, "pubsub")
         PROVE  Inv'
    BY <1>12, AsksKeeps
  <1>13. CASE GetSubscriptionsOrAffiliations \/ Unsubscribe \/ SubscriptionOptions \/ RequestItems
    BY <1>12, <1>13
       DEF GetSubscriptionsOrAffiliations, Unsubscribe, SubscriptionOptions, RequestItems
  <1>14. CASE PublishItem \/ DeleteItem \/ GetDefaultNodeConfig \/ NodeConfig
    BY <1>12, <1>14 DEF PublishItem, DeleteItem, GetDefaultNodeConfig, NodeConfig
  <1>15. CASE Subscribe \/ CreateNode \/ DeleteNode \/ SubscriberLists \/ AffiliateLists \/ PurgeNode
    BY <1>15, NodeAsksKeeps
       DEF Subscribe, CreateNode, DeleteNode, SubscriberLists, AffiliateLists, PurgeNode
  <1>16. CASE SetRole \/ SetAffiliation \/ RequestList \/ StoreList \/ SetRoomConfig \/ DestroyRoom
    <2>1. ASSUME NEW op \in RoomOps, RoomAsks(op)
          PROVE  Inv'
      BY <2>1, RoomAsksKeeps DEF RoomAsks, RoomRequests
    <2>2. CASE RequestList
      BY <2>2, RoomAsksKeeps DEF RequestList, RoomRequests, RoomOps
    <2>3. CASE DestroyRoom
      BY <2>3, RoomAsksKeeps DEF DestroyRoom, RoomOps
    <2> QED  BY <1>16, <2>1, <2>2, <2>3 DEF SetRole, SetAffiliation, StoreList, SetRoomConfig, RoomOps
  <1>17. CASE RequestRoomConfig
    <2>1. PICK room \in Rooms :
             /\ Requests("RequestRoomConfig", room)
             /\ lib' = [RoomAsked(lib, room, "RequestRoomConfig") EXCEPT !.creating = @ \ {room}]
      BY <1>17 DEF RequestRoomConfig, RoomRequests
    <2>2. "RequestRoomConfig" \in Direct(room)
      BY DEF RoomOps, Rooms
    <2>3. Inv
      OBVIOUS
    <2> QED  BY ONLY <2>1, <2>2, <2>3, RoomAskKeeps
  <1>18. CASE InstantRoom
    <2>1. PICK room \in Rooms, op \in {"CreateInstantRoom", "CancelRoomCreation"} :
             /\ Requests(op, room)
             /\ lib' = [RoomAsked(lib, room, op) EXCEPT !.creating = @ \ {room}]
      BY <1>18 DEF InstantRoom, RoomRequests
    <2>2. op \in Direct(room)
      BY DEF RoomOps, Rooms
    <2>3. Inv
      OBVIOUS
    <2> QED  BY ONLY <2>1, <2>2, <2>3, RoomAskKeeps
  <1>19. CASE GetRoomDisco
    <2>1. PICK room \in Rooms, op \in {"GetRoomInfo", "GetRoomItems"} :
             /\ Requests(op, room)
             /\ lib' = DiscoFor(Opened(lib, room, "listener", op, "room"), room, op, "room")
      BY <1>19 DEF GetRoomDisco
    <2>2. op \in Behind(room) /\ room \in {"flexoff"} \cup Rooms /\ "room" \in AllRemotes
      BY DEF Behind, RoomDisco, Rooms, AllRemotes
    <2>3. Inv
      OBVIOUS
    <2> QED  BY ONLY <2>1, <2>2, <2>3, ListenerThroughDiscoKeeps
  <1>20. CASE SearchFields \/ JoinUnique
    BY <1>20, SearchFieldsKeeps, JoinUniqueKeeps
  <1> QED
    BY <1>1, <1>2, <1>3, <1>4, <1>5, <1>6, <1>8, <1>9, <1>10, <1>11, <1>13, <1>14, <1>15, <1>16,
       <1>17, <1>18, <1>19, <1>20 DEF Operation

(***************************************************************************)
(* Withdrawing and answering: everything gets less, and more was said.     *)
(***************************************************************************)
Less ==
    /\ uses' = uses /\ Record(lib') /\ lib'.next = lib.next
    /\ lib'.tracks \subseteq lib.tracks /\ lib'.wire \subseteq lib.wire
    /\ lib'.table \subseteq lib.table /\ lib'.open \subseteq lib.open
    /\ lib'.nodes \subseteq lib.nodes
    /\ lib.silent \subseteq lib'.silent
    /\ lib'.silent \subseteq [op : uses, remote : AllRemotes, type : {"removed", "bare", "lost"}]
    /\ lib'.dead \subseteq Services /\ lib'.deaf \subseteq Listening \cup Storages
Shrunk == Less /\ lib'.ruin = lib.ruin

LEMMA LessTypes ==
    ASSUME Types, Less
    PROVE  Types'
  <1> USE DEF Less
  <1>1. IsFiniteSet(lib'.wire) /\ IsFiniteSet(lib'.table) /\ IsFiniteSet(lib'.open)
    <2>1. IsFiniteSet(lib.wire) /\ IsFiniteSet(lib.table) /\ IsFiniteSet(lib.open)
      BY DEF Types
    <2>2. /\ lib'.wire \subseteq lib.wire /\ lib'.table \subseteq lib.table
          /\ lib'.open \subseteq lib.open
      OBVIOUS
    <2> QED  BY ONLY <2>1, <2>2, FS_Subset
  <1>2. lib'.table \subseteq Request /\ lib'.open \subseteq Request /\ Request' = Request
    BY DEF Types, Request
  <1>3. lib'.tracks \subseteq [id : Nat, ih : Services] /\ lib'.nodes \subseteq [id : Nat, op : NodeNoted]
    BY DEF Types
  <1>4. lib'.wire \subseteq [id : Nat, op : uses, remote : AllRemotes]
    BY DEF Types
  <1> QED  BY <1>1, <1>2, <1>3, <1>4 DEF Types

LEMMA ShrunkBasics ==
    ASSUME Types, Fresh, Alike, Routed, Shrunk
    PROVE  Types' /\ Fresh' /\ Alike' /\ Routed'
  <1> USE DEF Shrunk, Less
  <1>5. Types'
    BY LessTypes
  <1>6. Fresh'
    BY DEF Fresh
  <1>7. Alike'
    BY DEF Alike
  <1>8. Routed'
    BY DEF Routed
  <1> QED  BY <1>5, <1>6, <1>7, <1>8

\* What has been said is not taken back.
LEMMA ShrunkSays ==
    ASSUME Shrunk
    PROVE  /\ \A op, r : Excused(op, r) => Excused(op, r)'
           /\ \A q : Due(q)' => Due(q)
           /\ \A x : Forgotten(x) => Forgotten(x)'
           /\ \A n : NodeForgotten(n) => NodeForgotten(n)'
           /\ Lost => Lost'
           /\ Unchecked' <=> Unchecked
           /\ Intact' <=> Intact
  <1> USE DEF Shrunk, Less
  <1>1. \A op, r : Excused(op, r) => Excused(op, r)'
    BY DEF Excused
  <1>2. \A q : Due(q)' => Due(q)
    BY <1>1 DEF Due
  <1>3. \A x : Forgotten(x) => Forgotten(x)'
    BY DEF Forgotten
  <1>4. \A n : NodeForgotten(n) => NodeForgotten(n)'
    BY DEF NodeForgotten
  <1>5. Lost => Lost'
    BY DEF Lost
  <1>6. (Unchecked' <=> Unchecked) /\ (Intact' <=> Intact)
    BY DEF Unchecked, Intact
  <1> QED  BY <1>1, <1>2, <1>3, <1>4, <1>5, <1>6

\* Who waits no more is not going to be told, whoever waits still is, and what stays in the
\* nodes and in the table of discovery stays with what it needs.
Withdrawn ==
    /\ Shrunk /\ lib'.wire = lib.wire /\ lib'.stray = lib.stray
    /\ lib.dead \subseteq lib'.dead /\ lib.deaf \subseteq lib'.deaf
    /\ \A q \in lib.open \ lib'.open :
          /\ q.service \in Own => q \notin lib'.table
          /\ q.service \in Storages => q \notin lib'.table \/ q.service \in lib'.deaf
          /\ q.service \in Listening => q.service \in lib'.dead \cup lib'.deaf
    /\ \A q \in lib'.open : q \in lib.table => q \in lib'.table
    /\ \A q \in lib'.open : Linked(q) => Linked(q)'
    /\ \A t \in lib.tracks : t.ih = "disco" => t \in lib'.tracks
    /\ \A x \in lib.table : x.service = "disco" /\ x.handler = "adhoc" => x \in lib'.table
    /\ \A x \in lib'.table, t \in lib.tracks : t.ih = Channel(x.service, x.op) => t \in lib'.tracks
    /\ \A n \in lib'.nodes : NodeKept(n) => NodeKept(n)' \/ NodeForgotten(n)'

LEMMA WithdrawnAwaited ==
    ASSUME Types, Awaited, Withdrawn
    PROVE  Awaited'
  <1> USE DEF Withdrawn, Shrunk, Less
  <1>1. ASSUME NEW x \in lib'.table
        PROVE  OwnAwaited(x)' /\ StorageAwaited(x)' /\ DiscoAwaited(x)'
    <2>1. OwnAwaited(x) /\ StorageAwaited(x) /\ DiscoAwaited(x)
      BY DEF Awaited
    <2>2. OwnAwaited(x)'
      BY <2>1 DEF OwnAwaited
    <2>3. StorageAwaited(x)'
      BY <2>1 DEF StorageAwaited
    <2>4. DiscoAwaited(x)'
      BY <2>1 DEF DiscoAwaited, Waiter
    <2> QED  BY <2>2, <2>3, <2>4
  <1>2. ASSUME NEW t \in lib'.tracks, NEW w \in lib'.wire
        PROVE  TrackAwaited(t, w)'
    <2>1. TrackAwaited(t, w)
      BY DEF Awaited
    <2> QED  BY <2>1 DEF TrackAwaited, Waiter
  <1> QED  BY <1>1, <1>2 DEF Awaited

LEMMA WithdrawnFetches ==
    ASSUME Types, Routed, Awaited', Fetches, Withdrawn
    PROVE  Fetches'
  <1> USE DEF Withdrawn, Shrunk, Less
  <1>1. SUFFICES ASSUME Unchecked
        PROVE  /\ \A x \in lib'.table :
                     x.service = "adhoc" /\ x.op = "FetchAdhocCommands" => x \in lib'.open
               /\ \A q \in lib'.open : q.op = "FetchAdhocCommands" => q \in lib'.table
               /\ \A s \in AllRemotes :
                     \/ Excused("FetchAdhocCommands", s)'
                     \/ Cardinality(Fetching(s)') <= Coming("FetchAdhocCommands", s)'
    BY ShrunkSays DEF Fetches, Fetching
  <1>2. \A x \in lib'.table :
           x.service = "adhoc" /\ x.op = "FetchAdhocCommands" => x \in lib'.open
    BY <1>1 DEF Fetches, Own
  <1>3. \A q \in lib'.open : q.op = "FetchAdhocCommands" => q \in lib'.table
    BY <1>1 DEF Fetches
  <1>4. ASSUME NEW s \in AllRemotes, ~Excused("FetchAdhocCommands", s)
        PROVE  Cardinality(Fetching(s)') <= Coming("FetchAdhocCommands", s)'
    <2>1. Cardinality(Fetching(s)) <= Coming("FetchAdhocCommands", s)
      BY <1>1, <1>4 DEF Fetches
    <2>2. Coming("FetchAdhocCommands", s)' = Coming("FetchAdhocCommands", s)
      BY DEF Coming
    <2>3. Fetching(s)' \subseteq Fetching(s)
      BY DEF Fetching
    <2>4. IsFiniteSet(Fetching(s))
      BY FS_Subset DEF Types, Fetching
    <2>5. IsFiniteSet(Fetching(s)') /\ Cardinality(Fetching(s)') <= Cardinality(Fetching(s))
      BY ONLY <2>3, <2>4, FS_Subset
    <2>6. Cardinality(Fetching(s)') \in Nat /\ Cardinality(Fetching(s)) \in Nat
      BY <2>4, <2>5, FS_CardinalityType
    <2>7. Coming("FetchAdhocCommands", s) \in Nat
      <3>1. IsFiniteSet({w \in lib.wire : w.op = "FetchAdhocCommands" /\ w.remote = s})
        BY FS_Subset DEF Types
      <3> QED  BY <3>1, FS_CardinalityType DEF Coming
    <2> QED  BY ONLY <2>1, <2>2, <2>5, <2>6, <2>7
  <1> QED  BY <1>2, <1>3, <1>4, ShrunkSays

LEMMA WithdrawnKeeps ==
    ASSUME Inv, Intact, Withdrawn, Gone'
    PROVE  Inv'
  <1>1. Types /\ Linkage
    BY DEF Inv
  <1>2. Shrunk
    BY DEF Withdrawn
  <1>3. Types' /\ Fresh' /\ Alike' /\ Routed'
    BY <1>1, <1>2, ShrunkBasics DEF Linkage
  <1>4. Awaited' /\ Tracked'
    BY <1>1, <1>2, WithdrawnAwaited DEF Linkage, Tracked, Withdrawn, Shrunk, Less
  <1>5. Fetches'
    BY <1>1, <1>4, WithdrawnFetches DEF Linkage
  <1>6. OnItsWay'
    <2>1. SUFFICES ASSUME NEW q \in lib'.open, Due(q)'
          PROVE  Linked(q)'
      BY DEF OnItsWay
    <2>2. Due(q) /\ q \in lib.open
      BY <1>2, <2>1, ShrunkSays DEF Shrunk, Less
    <2> QED  BY <1>1, <2>2 DEF Linkage, OnItsWay, Withdrawn
  <1>7. ThroughDisco'
    BY <1>1 DEF Linkage, ThroughDisco, Withdrawn
  <1>8. Keeping'
    <2>1. SUFFICES ASSUME ~Lost'
          PROVE  /\ \A t \in lib'.tracks : t.id \in Pending'
                 /\ \A n \in lib'.nodes : NodeForgotten(n)' \/ NodeKept(n)'
                 /\ \A x \in lib'.table : Forgotten(x)' \/ EntryKept(x)'
      BY DEF Keeping
    <2>2. /\ \A t \in lib.tracks : t.id \in Pending
          /\ \A n \in lib.nodes : NodeForgotten(n) \/ NodeKept(n)
          /\ \A x \in lib.table : Forgotten(x) \/ EntryKept(x)
      BY <1>1, <1>2, <2>1, ShrunkSays DEF Linkage, Keeping
    <2>3. Pending' = Pending
      BY DEF Withdrawn, Pending
    <2>4. \A t \in lib'.tracks : t.id \in Pending'
      BY <2>2, <2>3 DEF Withdrawn, Shrunk, Less
    <2>5. \A n \in lib'.nodes : NodeForgotten(n)' \/ NodeKept(n)'
      BY <1>2, <2>2, ShrunkSays DEF Withdrawn, Shrunk, Less
    <2>6. \A x \in lib'.table : Forgotten(x)' \/ EntryKept(x)'
      BY <1>2, <2>2, ShrunkSays DEF Withdrawn, Shrunk, Less, EntryKept
    <2> QED  BY <2>4, <2>5, <2>6
  <1>9. RuinedOnlyBy' /\ ToldOnlyWhoWaits'
    BY DEF Withdrawn, Shrunk, Less, Inv, RuinedOnlyBy, ToldOnlyWhoWaits
  <1> QED  BY <1>1, <1>3, <1>4, <1>5, <1>6, <1>7, <1>8, <1>9 DEF Inv, Linkage

(***************************************************************************)
(* The withdrawals.                                                        *)
(***************************************************************************)
\* A handler is taken out of a table.  None of them asks in the name of another service.
LEMMA CancelKeeps ==
    ASSUME Inv, NEW service \in {"vcard", "disco"}, Cancel(service)
    PROVE  Inv'
  <1>1. Intact /\ UNCHANGED uses /\ Types /\ Linkage
    BY DEF Cancel, Inv
  <1>2. PICK q0 \in lib.open : q0.service = service /\ lib' = Cancelled(lib, service, q0.handler)
    BY DEF Cancel
  <1> DEFINE h == q0.handler
  <1>3. h \in Handlers /\ h \notin Services
    BY <1>1, <1>2, HandlersAreNoServices DEF Linkage, Routed, Plain, WhoAsks, Own
  <1>4. /\ Record(lib') /\ lib'.next = lib.next /\ lib'.ruin = lib.ruin /\ lib'.stray = lib.stray
        /\ lib'.tracks = lib.tracks /\ lib'.wire = lib.wire /\ lib'.nodes = lib.nodes
        /\ lib'.silent = lib.silent /\ lib'.dead = lib.dead /\ lib'.deaf = lib.deaf
        /\ lib'.table = {e \in lib.table : ~(e.service = service /\ e.handler = h)}
        /\ lib'.open = {q \in lib.open : ~(q.service = service /\ q.handler = h)}
    BY <1>1, <1>2 DEF Types, Record, Cancelled
  <1> HIDE DEF h
  <1>5. Shrunk
    BY <1>1, <1>4 DEF Shrunk, Less, Types
  <1>6. \A q \in lib.open \ lib'.open : q.service = service /\ q \notin lib'.table
    BY <1>4
  <1>7. \A q \in lib'.open : q \in lib.table => q \in lib'.table
    BY <1>4
  <1>8. \A q \in lib'.open : Linked(q) => Linked(q)'
    <2>1. ASSUME NEW q \in lib'.open, Linked(q)
          PROVE  q.op \in Behind(q.service) =>
                    [service |-> "disco", id |-> q.id, handler |-> q.service,
                     op |-> q.op, remote |-> q.remote] \in lib'.table
      <3>1. q.service \in Services
        BY <1>1, <1>4, <2>1 DEF Types, Request
      <3> QED  BY <1>3, <1>4, <2>1, <3>1 DEF Linked
    <2> QED  BY <1>4, <1>7, <2>1 DEF Linked
  <1>9. \A x \in lib.table : x.service = "disco" /\ x.handler = "adhoc" => x \in lib'.table
    BY <1>3, <1>4 DEF Services
  <1>10. \A n \in lib'.nodes : NodeKept(n) => NodeKept(n)'
    BY <1>4 DEF NodeKept, Pending
  <1>11. Withdrawn
    BY <1>4, <1>5, <1>6, <1>7, <1>8, <1>9, <1>10 DEF Withdrawn, Storages, Listening
  <1>12. Gone'
    BY <1>1, <1>4 DEF Linkage, Gone
  <1> QED  BY <1>1, <1>11, <1>12, WithdrawnKeeps

\* An entry of publish-subscribe is removed; its node stays behind.
LEMMA RemoveIDKeeps ==
    ASSUME Inv, RemoveID
    PROVE  Inv'
  <1>1. Intact /\ UNCHANGED uses /\ Types /\ Linkage
    BY DEF RemoveID, Inv
  <1>2. PICK e \in lib.table :
          /\ e.service = "pubsub"
          /\ lib' = [lib EXCEPT !.table = @ \ {e}, !.open = {q \in @ : q.id # e.id},
                            !.silent = @ \cup
                                {[op |-> e.op, remote |-> e.remote, type |-> "removed"]}]
    BY DEF RemoveID
  <1>3. /\ Record(lib') /\ lib'.next = lib.next /\ lib'.ruin = lib.ruin /\ lib'.stray = lib.stray
        /\ lib'.tracks = lib.tracks /\ lib'.wire = lib.wire /\ lib'.nodes = lib.nodes
        /\ lib'.dead = lib.dead /\ lib'.deaf = lib.deaf
        /\ lib'.table = lib.table \ {e}
        /\ lib'.open = {q \in lib.open : q.id # e.id}
        /\ lib'.silent = lib.silent \cup {[op |-> e.op, remote |-> e.remote, type |-> "removed"]}
    BY <1>1, <1>2 DEF Types, Record
  <1>4. e \in lib.open /\ e.op # "CheckAdhocSupport"
    <2>1. Plain(e) /\ ~For(e)
      BY <1>1, <1>2 DEF Linkage, Routed, For, Entry
    <2>2. e.op # "CheckAdhocSupport"
      BY <1>2, <2>1 DEF Plain, Direct, Behind, Rooms, PubSubOps, NodeNoted, PayloadTold
    <2> QED  BY <1>1, <1>2, <2>1, <2>2 DEF Linkage, Awaited, OwnAwaited, Own
  <1>5. Shrunk
    <2>1. [op |-> e.op, remote |-> e.remote, type |-> "removed"]
             \in [op : uses, remote : AllRemotes, type : {"removed", "bare", "lost"}]
      BY <1>1 DEF Types, Request
    <2> QED  BY <1>1, <1>3, <2>1 DEF Shrunk, Less, Types
  <1>6. \A q \in lib.open \ lib'.open : q = e
    BY <1>1, <1>3, <1>4 DEF Linkage, Alike
  <1>7. \A q \in lib'.open : q # e
    BY <1>3
  <1>8. \A q \in lib'.open : Linked(q) => Linked(q)'
    BY <1>2, <1>3, <1>7 DEF Linked
  <1>9. \A x \in lib.table : x.service = "disco" /\ x.handler = "adhoc" => x \in lib'.table
    BY <1>2, <1>3
  <1>10. ASSUME NEW n \in lib'.nodes, NodeKept(n)
         PROVE  NodeKept(n)' \/ NodeForgotten(n)'
    <2>1. CASE n.id = e.id
      <3>1. n.op = e.op
        BY <1>1, <1>3, <2>1 DEF Linkage, Alike
      <3>2. [op |-> e.op, remote |-> e.remote, type |-> "removed"] \in lib'.silent
        BY <1>3
      <3> QED  BY <3>1, <3>2 DEF NodeForgotten
    <2>2. CASE n.id # e.id
      BY <1>3, <1>10, <2>2 DEF NodeKept, Pending
    <2> QED  BY <2>1, <2>2
  <1>11. Withdrawn
    <2>1. \A q \in lib.open \ lib'.open : q.service = "pubsub" /\ q \notin lib'.table
      BY <1>2, <1>3, <1>6
    <2>2. \A q \in lib'.open : q \in lib.table => q \in lib'.table
      BY <1>3, <1>7
    <2> QED  BY <1>3, <1>5, <1>8, <1>9, <1>10, <2>1, <2>2 DEF Withdrawn, Storages, Listening
  <1>12. Gone'
    BY <1>1, <1>3 DEF Linkage, Gone
  <1> QED  BY <1>1, <1>11, <1>12, WithdrawnKeeps

\* A listener is taken away.
LEMMA RemoveListenerKeeps ==
    ASSUME Inv, RemoveListener
    PROVE  Inv'
  <1>1. Intact /\ UNCHANGED uses /\ Types /\ Linkage
    BY DEF RemoveListener, Inv
  <1>2. PICK service \in Listening \cup Storages :
          lib' = [lib EXCEPT !.deaf = @ \cup {service}, !.open = {q \in @ : q.service # service}]
    BY DEF RemoveListener, Listening, Storages, Rooms
  <1>3. /\ Record(lib') /\ lib'.next = lib.next /\ lib'.ruin = lib.ruin /\ lib'.stray = lib.stray
        /\ lib'.tracks = lib.tracks /\ lib'.wire = lib.wire /\ lib'.nodes = lib.nodes
        /\ lib'.silent = lib.silent /\ lib'.table = lib.table
        /\ lib'.dead = lib.dead /\ lib'.deaf = lib.deaf \cup {service}
        /\ lib'.open = {q \in lib.open : q.service # service}
    BY <1>1, <1>2 DEF Types, Record
  <1>4. Shrunk
    BY <1>1, <1>3 DEF Shrunk, Less, Types
  <1>5. \A q \in lib.open \ lib'.open : q.service = service
    BY <1>3
  <1>6. \A q \in lib'.open : Linked(q) => Linked(q)'
    BY <1>3 DEF Linked
  <1>7. \A n \in lib'.nodes : NodeKept(n) => NodeKept(n)'
    BY <1>3 DEF NodeKept, Pending
  <1>8. service \notin Own
    BY DEF Own, Listening, Storages
  <1>9. Withdrawn
    BY <1>3, <1>4, <1>5, <1>6, <1>7, <1>8 DEF Withdrawn
  <1>10. Gone'
    BY <1>1, <1>3 DEF Linkage, Gone
  <1> QED  BY <1>1, <1>9, <1>10, WithdrawnKeeps

\* A service goes, and its table with it; it may stay among those who are tracked.
LEMMA ServiceGoes ==
    ASSUME Inv, Intact, UNCHANGED uses, NEW service \in Services \ {"disco"},
           Record(lib'), lib'.next = lib.next, lib'.ruin = lib.ruin, lib'.stray = lib.stray,
           lib'.wire = lib.wire, lib'.silent = lib.silent, lib'.deaf = lib.deaf,
           lib'.dead = lib.dead \cup {service},
           lib'.open = {q \in lib.open : q.service # service},
           \/ /\ service # "pubsub" /\ lib'.nodes = lib.nodes
              /\ lib'.tracks = {t \in lib.tracks : t.ih # service}
           \/ service = "pubsub" /\ lib'.nodes = {} /\ lib'.tracks = lib.tracks,
           lib'.table = {x \in lib.table : /\ x.service # service
                                           /\ service \in Rooms =>
                                                 ~(x.service = "disco" /\ x.handler = service)}
    PROVE  Inv'
  <1>1. Types /\ Linkage
    BY DEF Inv
  <1>2. Shrunk
    BY <1>1 DEF Shrunk, Less, Types
  <1>3. \A q \in lib.open \ lib'.open : q.service = service /\ q \notin lib'.table
    OBVIOUS
  <1>4. ASSUME NEW q \in lib'.open, q \in lib.table
        PROVE  q \in lib'.table
    <2>1. q.service # service
      OBVIOUS
    <2>2. q.service = "disco" => q.handler \notin Services
      BY <1>1, HandlersAreNoServices DEF Linkage, Routed, Plain, WhoAsks, Own
    <2> QED  BY <1>4, <2>1, <2>2
  <1>5. ASSUME NEW q \in lib'.open, Linked(q)
        PROVE  Linked(q)'
    <2>1. q.service # service /\ q \in lib.open
      OBVIOUS
    <2>2. [id |-> q.id, ih |-> Channel(q.service, q.op)] \in lib'.tracks
      BY <1>5, <2>1 DEF Linked, Channel
    <2>3. q.op \in Behind(q.service) =>
             [service |-> "disco", id |-> q.id, handler |-> q.service,
              op |-> q.op, remote |-> q.remote] \in lib'.table
      BY <1>5, <2>1 DEF Linked
    <2>4. q.service \in Own \cup Storages => q \in lib'.table
      BY <1>4, <1>5 DEF Linked
    <2>5. q.op \in NodeTold \cap NodeNoted => [id |-> q.id, op |-> q.op] \in lib'.nodes
      <3>1. q.op \in NodeNoted => q.service = "pubsub"
        <4>1. q.service \in Services /\ Plain(q)
          BY <1>1, <2>1 DEF Types, Request, Linkage, Routed
        <4> QED  BY <4>1 DEF Plain, Direct, Behind, AdhocDisco, FlexDisco, RoomDisco, RoomOps, NodeNoted
      <3> QED  BY <1>5, <2>1, <3>1 DEF Linked
    <2> QED  BY <1>5, <2>2, <2>3, <2>4, <2>5 DEF Linked
  <1>6. \A t \in lib.tracks : t.ih = "disco" => t \in lib'.tracks
    OBVIOUS
  <1>7. \A x \in lib.table : x.service = "disco" /\ x.handler = "adhoc" => x \in lib'.table
    BY DEF Rooms
  <1>8. \A n \in lib'.nodes : NodeKept(n) => NodeKept(n)'
    BY DEF NodeKept, Pending
  <1>9. ASSUME NEW x \in lib'.table, NEW t \in lib.tracks, t.ih = Channel(x.service, x.op)
        PROVE  t \in lib'.tracks
    BY <1>9 DEF Channel
  <1>10. Withdrawn
    BY <1>2, <1>3, <1>4, <1>5, <1>6, <1>7, <1>8, <1>9 DEF Withdrawn
  <1>11. Gone'
    <2>1. \A t \in lib'.tracks : t.ih \in lib'.dead => t.ih = "pubsub"
      BY <1>1 DEF Linkage, Gone
    <2>2. \A x \in lib'.table : x.service \notin lib'.dead
      BY <1>1 DEF Linkage, Gone
    <2>3. \A x \in lib'.table : For(x) /\ x.handler \in Rooms => x.handler \notin lib'.dead
      BY <1>1 DEF Linkage, Gone, For
    <2>4. \A q \in lib'.open : q.service \notin lib'.dead \cup lib'.deaf
      BY <1>1 DEF Linkage, Gone
    <2>5. "disco" \notin lib'.dead
      BY <1>1 DEF Linkage, Gone
    <2> QED  BY <2>1, <2>2, <2>3, <2>4, <2>5 DEF Gone
  <1> QED  BY <1>10, <1>11, WithdrawnKeeps

LEMMA WithdrawalsKeep ==
    ASSUME Inv, Withdrawal
    PROVE  Inv'
  <1>1. Types /\ Record(lib)
    BY DEF Inv, Types
  <1>2. CASE CancelVCardOperations \/ RemoveDiscoHandler
    BY <1>2, CancelKeeps DEF CancelVCardOperations, RemoveDiscoHandler
  <1>3. CASE RemoveID \/ RemoveListener
    BY <1>3, RemoveIDKeeps, RemoveListenerKeeps
  <1>4. CASE DestroyService
    <2>1. PICK service \in {"vcard", "search", "privatexml", "bookmarks", "annotations", "adhoc",
                            "flexoff", "registration", "privacy", "lastactivity"} :
             Destroy(service)
      BY <1>4 DEF DestroyService
    <2>2. Intact /\ UNCHANGED uses
      BY <2>1 DEF Destroy
    <2>3. service \in Services \ {"disco"} /\ service # "pubsub" /\ service \notin Rooms
      BY <2>1 DEF Services, Rooms
    <2>4. lib' = [Destroyed(lib, service) EXCEPT !.tracks = {t \in @ : t.ih # service}]
      BY <2>1 DEF Destroy
    <2>5. /\ Record(lib') /\ lib'.next = lib.next /\ lib'.ruin = lib.ruin
          /\ lib'.stray = lib.stray /\ lib'.wire = lib.wire /\ lib'.silent = lib.silent
          /\ lib'.deaf = lib.deaf /\ lib'.dead = lib.dead \cup {service}
          /\ lib'.open = {q \in lib.open : q.service # service}
          /\ lib'.nodes = lib.nodes /\ lib'.tracks = {t \in lib.tracks : t.ih # service}
          /\ lib'.table = {x \in lib.table : x.service # service}
      BY <1>1, <2>4 DEF Record, Destroyed
    <2>6. lib'.table = {x \in lib.table : /\ x.service # service
                                          /\ service \in Rooms =>
                                                ~(x.service = "disco" /\ x.handler = service)}
      BY <2>3, <2>5
    <2> QED  BY ONLY Inv, <2>2, <2>3, <2>5, <2>6, ServiceGoes
  <1>5. CASE DestroyRoomObject
    <2>1. PICK room \in Rooms :
             /\ Intact
             /\ lib' = [Cancelled(Destroyed(lib, room), "disco", room) EXCEPT
                           !.tracks = {t \in @ : t.ih # room}, !.joined = @ \ {room}]
             /\ UNCHANGED uses
      BY <1>5 DEF DestroyRoomObject
    <2>2. room \in Services \ {"disco"} /\ room # "pubsub" /\ room \notin Handlers
      BY HandlersAreNoServices DEF Services, Rooms
    <2>3. /\ Record(lib') /\ lib'.next = lib.next /\ lib'.ruin = lib.ruin
          /\ lib'.stray = lib.stray /\ lib'.wire = lib.wire /\ lib'.silent = lib.silent
          /\ lib'.deaf = lib.deaf /\ lib'.dead = lib.dead \cup {room}
          /\ lib'.open = {q \in {q \in lib.open : q.service # room} :
                              ~(q.service = "disco" /\ q.handler = room)}
          /\ lib'.nodes = lib.nodes /\ lib'.tracks = {t \in lib.tracks : t.ih # room}
          /\ lib'.table = {x \in {x \in lib.table : x.service # room} :
                              ~(x.service = "disco" /\ x.handler = room)}
      BY <1>1, <2>1 DEF Record, Destroyed, Cancelled
    <2>4. lib'.open = {q \in lib.open : q.service # room}
      <3>1. \A q \in lib.open : q.service = "disco" => q.handler # room
        BY <2>1, <2>2 DEF Inv, Linkage, Routed, Plain, WhoAsks, Own
      <3> QED  BY <2>3, <3>1
    <2>5. lib'.table = {x \in lib.table : /\ x.service # room
                                          /\ room \in Rooms =>
                                                ~(x.service = "disco" /\ x.handler = room)}
      BY <2>3
    <2> QED  BY ONLY Inv, <2>1, <2>2, <2>3, <2>4, <2>5, ServiceGoes
  <1>6. CASE DestroyPubSub
    <2>1. Intact /\ UNCHANGED uses /\ lib' = [Destroyed(lib, "pubsub") EXCEPT !.nodes = {}]
      BY <1>6 DEF DestroyPubSub
    <2>2. "pubsub" \in Services \ {"disco"} /\ "pubsub" \notin Rooms
      BY DEF Services, Rooms
    <2>3. /\ Record(lib') /\ lib'.next = lib.next /\ lib'.ruin = lib.ruin
          /\ lib'.stray = lib.stray /\ lib'.wire = lib.wire /\ lib'.silent = lib.silent
          /\ lib'.deaf = lib.deaf /\ lib'.dead = lib.dead \cup {"pubsub"}
          /\ lib'.open = {q \in lib.open : q.service # "pubsub"}
          /\ lib'.nodes = {} /\ lib'.tracks = lib.tracks
          /\ lib'.table = {x \in lib.table : x.service # "pubsub"}
      BY <1>1, <2>1 DEF Record, Destroyed
    <2>4. lib'.table = {x \in lib.table : /\ x.service # "pubsub"
                                          /\ "pubsub" \in Rooms =>
                                                ~(x.service = "disco" /\ x.handler = "pubsub")}
      BY <2>2, <2>3
    <2> QED  BY ONLY Inv, <2>1, <2>2, <2>3, <2>4, ServiceGoes
  <1>7. CASE LeaveRoom
    <2>1. PICK room : Intact /\ lib' = [lib EXCEPT !.joined = @ \ {room}] /\ UNCHANGED uses
      BY <1>7 DEF LeaveRoom
    <2>2. /\ Record(lib') /\ lib'.next = lib.next /\ lib'.ruin = lib.ruin
          /\ lib'.stray = lib.stray /\ lib'.wire = lib.wire /\ lib'.silent = lib.silent
          /\ lib'.deaf = lib.deaf /\ lib'.dead = lib.dead /\ lib'.open = lib.open
          /\ lib'.nodes = lib.nodes /\ lib'.tracks = lib.tracks /\ lib'.table = lib.table
      BY <1>1, <2>1 DEF Record
    <2>3. Shrunk
      BY <1>1, <2>1, <2>2 DEF Shrunk, Less, Types
    <2>4. \A q \in lib'.open : Linked(q) => Linked(q)'
      BY <2>2 DEF Linked
    <2>5. \A n \in lib'.nodes : NodeKept(n) => NodeKept(n)'
      BY <2>2 DEF NodeKept, Pending
    <2>6. Withdrawn
      BY <2>2, <2>3, <2>4, <2>5 DEF Withdrawn
    <2>7. Gone'
      BY <2>1, <2>2 DEF Inv, Linkage, Gone
    <2> QED  BY <2>1, <2>6, <2>7, WithdrawnKeeps
  <1> QED  BY <1>2, <1>3, <1>4, <1>5, <1>6, <1>7 DEF Withdrawal

(***************************************************************************)
(* Answering, in general.  w is the request that is answered.              *)
(***************************************************************************)
\* What an answer may not leave behind: nobody who waits for it and can be told, no entry
\* of a request that somebody else asks for, and nothing of its id but what is forgotten.
Handled(w) ==
    /\ Shrunk /\ lib'.dead = lib.dead /\ lib'.deaf = lib.deaf
    /\ \A e \in lib'.stray : e.op = "CheckAdhocSupport"
    /\ lib'.wire = lib.wire \ {w}
    /\ lib'.tracks = {t \in lib.tracks : t.id # w.id}
    /\ \A n \in lib.nodes \ lib'.nodes : n.id = w.id
    /\ \A x \in lib.table \ lib'.table :
          x.id = w.id \/ (x.service = "adhoc" /\ (x \notin lib'.open \/ ~Unchecked))
NoneLeft(w) ==
    /\ \A q \in lib'.open : q.id = w.id => ~Due(q)'
    /\ \A q \in lib.open \ lib'.open :
          /\ q.service \in Own => q \notin lib'.table \/ q.op = "CheckAdhocSupport"
          /\ q.service \in Storages => q \notin lib'.table
          /\ q.service \in Listening =>
                q.id = w.id /\ \A x \in lib'.table : ~(x.id = w.id /\ For(x))
FetchHandled(w) ==
    Unchecked =>
      /\ \A q \in lib'.open : q.op = "FetchAdhocCommands" => q \in lib'.table
      /\ w.op = "FetchAdhocCommands" =>
            \/ Excused("FetchAdhocCommands", w.remote)'
            \/ Fetching(w.remote) = {}
            \/ \E x \in Fetching(w.remote) : x \notin lib'.table
NothingLeft(w) ==
    ~Lost' =>
      /\ \A x \in lib'.table :
            x.id = w.id => Forgotten(x)' \/ (x.service = "adhoc" /\ x.op = "FetchAdhocCommands")
      /\ \A n \in lib'.nodes : n.id = w.id => NodeForgotten(n)'

LEMMA HandledAwaited ==
    ASSUME Types, Routed, Awaited, NEW w \in lib.wire, Handled(w), NoneLeft(w)
    PROVE  Awaited'
  <1> USE DEF Handled, Shrunk, Less
  <1>1. ASSUME NEW x \in lib'.table
        PROVE  OwnAwaited(x)' /\ StorageAwaited(x)' /\ DiscoAwaited(x)'
    <2>1. OwnAwaited(x) /\ StorageAwaited(x) /\ DiscoAwaited(x)
      BY DEF Awaited
    <2>2. OwnAwaited(x)'
      BY <2>1 DEF OwnAwaited, NoneLeft
    <2>3. StorageAwaited(x)'
      BY <2>1 DEF StorageAwaited, NoneLeft
    <2>4. DiscoAwaited(x)'
      BY <2>1 DEF DiscoAwaited, Waiter, NoneLeft
    <2> QED  BY <2>2, <2>3, <2>4
  <1>2. ASSUME NEW t \in lib'.tracks, NEW v \in lib'.wire
        PROVE  TrackAwaited(t, v)'
    <2>1. TrackAwaited(t, v)
      BY DEF Awaited
    <2>2. t.id # w.id
      OBVIOUS
    <2> QED  BY <2>1, <2>2 DEF TrackAwaited, Waiter, NoneLeft
  <1> QED  BY <1>1, <1>2 DEF Awaited

LEMMA HandledOnItsWay ==
    ASSUME Types, Alike, OnItsWay, NEW w \in lib.wire, Handled(w), NoneLeft(w)
    PROVE  OnItsWay'
  <1> USE DEF Handled
  <1>1. SUFFICES ASSUME NEW q \in lib'.open, Due(q)'
        PROVE  Linked(q)'
    BY DEF OnItsWay
  <1>2. Due(q) /\ q \in lib.open
    BY <1>1, ShrunkSays DEF Shrunk, Less
  <1>3. Linked(q) /\ q.id # w.id /\ Unchecked
    BY <1>1, <1>2 DEF OnItsWay, NoneLeft, Due, Excused, Unchecked
  <1>4. [id |-> q.id, op |-> q.op, remote |-> q.remote] \in lib'.wire
    BY <1>3 DEF Linked
  <1>5. [id |-> q.id, ih |-> Channel(q.service, q.op)] \in lib'.tracks
    BY <1>3 DEF Linked
  <1>6. q.op \in Behind(q.service) =>
           [service |-> "disco", id |-> q.id, handler |-> q.service,
            op |-> q.op, remote |-> q.remote] \in lib'.table
    BY <1>3 DEF Linked
  <1>7. q.service \in Own \cup Storages => q \in lib'.table
    BY <1>3 DEF Linked
  <1>8. q.op \in NodeTold \cap NodeNoted => [id |-> q.id, op |-> q.op] \in lib'.nodes
    BY <1>3 DEF Linked
  <1> QED  BY <1>4, <1>5, <1>6, <1>7, <1>8 DEF Linked

\* One answer less, and one who waits less.
LEMMA HandledFetches ==
    ASSUME Types, Awaited', Routed', Fetches, NEW w \in lib.wire, Handled(w), NoneLeft(w), FetchHandled(w)
    PROVE  Fetches'
  <1> USE DEF Handled, Shrunk, Less
  <1>1. SUFFICES ASSUME Unchecked
        PROVE  /\ \A x \in lib'.table :
                     x.service = "adhoc" /\ x.op = "FetchAdhocCommands" => x \in lib'.open
               /\ \A q \in lib'.open : q.op = "FetchAdhocCommands" => q \in lib'.table
               /\ \A s \in AllRemotes :
                     \/ Excused("FetchAdhocCommands", s)'
                     \/ Cardinality(Fetching(s)') <= Coming("FetchAdhocCommands", s)'
    BY ShrunkSays DEF Fetches, Fetching
  <1>2. \A x \in lib'.table :
           x.service = "adhoc" /\ x.op = "FetchAdhocCommands" => x \in lib'.open
    BY <1>1 DEF Awaited, OwnAwaited, Routed, Entry, For, Own
  <1>3. \A q \in lib'.open : q.op = "FetchAdhocCommands" => q \in lib'.table
    BY <1>1 DEF FetchHandled
  <1>4. ASSUME NEW s \in AllRemotes, ~Excused("FetchAdhocCommands", s)'
        PROVE  Cardinality(Fetching(s)') <= Coming("FetchAdhocCommands", s)'
    <2> DEFINE W == {v \in lib.wire : v.op = "FetchAdhocCommands" /\ v.remote = s}
    <2>1. ~Excused("FetchAdhocCommands", s)
      BY <1>4, ShrunkSays
    <2>2. Cardinality(Fetching(s)) <= Cardinality(W)
      BY <1>1, <2>1 DEF Fetches, Coming
    <2>3. IsFiniteSet(W) /\ IsFiniteSet(Fetching(s)) /\ Fetching(s)' \subseteq Fetching(s)
      BY FS_Subset DEF Types, Fetching
    <2>4. Coming("FetchAdhocCommands", s)' = Cardinality(W \ {w})
      <3>1. {v \in lib'.wire : v.op = "FetchAdhocCommands" /\ v.remote = s} = W \ {w}
        OBVIOUS
      <3> QED  BY <3>1 DEF Coming
    <2> DEFINE F == Fetching(s)
               G == Fetching(s)'
    <2>5. CASE w \notin W
      <3>1. W \ {w} = W
        BY <2>5
      <3> HIDE DEF W, F, G
      <3>2. IsFiniteSet(G) /\ Cardinality(G) <= Cardinality(F)
        BY ONLY <2>3, FS_Subset DEF F, G
      <3>3. Cardinality(G) \in Nat /\ Cardinality(F) \in Nat /\ Cardinality(W) \in Nat
        BY <2>3, <3>2, FS_CardinalityType DEF F
      <3>4. Cardinality(F) <= Cardinality(W)
        BY <2>2 DEF F
      <3>5. Cardinality(G) <= Cardinality(W)
        BY ONLY <3>2, <3>3, <3>4
      <3> QED  BY <2>4, <3>1, <3>5 DEF G
    <2>6. CASE w \in W
      <3>1. F = {} \/ \E x \in F : x \notin G
        BY <1>1, <1>4, <2>6 DEF FetchHandled, Fetching
      <3> HIDE DEF W, F, G
      <3>2. /\ IsFiniteSet(W \ {w}) /\ Cardinality(W \ {w}) \in Nat
            /\ Cardinality(W \ {w}) = Cardinality(W) - 1 /\ Cardinality(W) \in Nat
        BY ONLY <2>3, <2>6, FS_RemoveElement, FS_CardinalityType
      <3>3. CASE F = {}
        <4>1. G = {}
          BY <2>3, <3>3 DEF F, G
        <4>2. Cardinality(G) = 0
          BY <4>1, FS_EmptySet
        <4> QED  BY <2>4, <3>2, <4>2 DEF G
      <3>4. CASE \E x \in F : x \notin G
        <4>1. PICK x \in F : x \notin G
          BY <3>4
        <4>2. G \subseteq F \ {x}
          BY <2>3, <4>1 DEF F, G
        <4>3. IsFiniteSet(F)
          BY <2>3 DEF F
        <4>4. /\ IsFiniteSet(F \ {x}) /\ Cardinality(F \ {x}) = Cardinality(F) - 1
              /\ Cardinality(F \ {x}) \in Nat /\ Cardinality(F) \in Nat
          BY ONLY <4>1, <4>3, FS_RemoveElement, FS_CardinalityType
        <4>5. IsFiniteSet(G) /\ Cardinality(G) <= Cardinality(F \ {x})
          BY ONLY <4>2, <4>4, FS_Subset
        <4>6. Cardinality(G) \in Nat
          BY <4>5, FS_CardinalityType
        <4>7. Cardinality(F) <= Cardinality(W)
          BY <2>2 DEF F
        <4>8. Cardinality(G) <= Cardinality(W \ {w})
          BY ONLY <3>2, <4>4, <4>5, <4>6, <4>7
        <4> QED  BY <2>4, <4>8 DEF G
      <3> QED  BY <3>1, <3>3, <3>4
    <2> QED  BY <2>5, <2>6
  <1> QED  BY <1>2, <1>3, <1>4

LEMMA HandledKeeping ==
    ASSUME Types, Alike, ThroughDisco, Keeping, NEW w \in lib.wire, Handled(w), NothingLeft(w)
    PROVE  ThroughDisco' /\ Keeping'
  <1> USE DEF Handled
  <1>1. \A v \in lib'.wire : v.id # w.id
    BY DEF Alike
  <1>2. ThroughDisco'
    BY <1>1 DEF ThroughDisco
  <1>3. SUFFICES ASSUME ~Lost'
        PROVE  /\ \A t \in lib'.tracks : t.id \in Pending'
               /\ \A n \in lib'.nodes : NodeForgotten(n)' \/ NodeKept(n)'
               /\ \A x \in lib'.table : Forgotten(x)' \/ EntryKept(x)'
    BY <1>2 DEF Keeping
  <1>4. /\ \A t \in lib.tracks : t.id \in Pending
        /\ \A n \in lib.nodes : NodeForgotten(n) \/ NodeKept(n)
        /\ \A x \in lib.table : Forgotten(x) \/ EntryKept(x)
    BY <1>3, ShrunkSays DEF Keeping
  <1>5. \A k \in Pending : k = w.id \/ k \in Pending'
    BY DEF Pending
  <1>6. \A t \in lib'.tracks : t.id \in Pending'
    BY <1>4, <1>5
  <1>7. ASSUME NEW n \in lib'.nodes
        PROVE  NodeForgotten(n)' \/ NodeKept(n)'
    <2>1. CASE n.id = w.id
      BY <1>3, <2>1 DEF NothingLeft
    <2>2. CASE n.id # w.id
      <3>1. n \in lib.nodes
        BY DEF Shrunk, Less
      <3>2. CASE NodeForgotten(n)
        BY <3>2, ShrunkSays
      <3>3. CASE NodeKept(n)
        <4>1. n.id \in Pending'
          BY <1>5, <2>2, <3>3 DEF NodeKept
        <4>2. \E x \in lib'.table : x.service = "pubsub" /\ x.id = n.id
          BY <2>2, <3>3 DEF NodeKept
        <4> QED  BY <2>2, <3>3, <4>1, <4>2 DEF NodeKept
      <3> QED  BY <1>4, <3>1, <3>2, <3>3
    <2> QED  BY <2>1, <2>2
  <1>8. ASSUME NEW x \in lib'.table
        PROVE  Forgotten(x)' \/ EntryKept(x)'
    <2>1. CASE x.id = w.id
      BY <1>3, <2>1 DEF NothingLeft, EntryKept
    <2>2. CASE x.id # w.id
      <3>1. x \in lib.table
        BY DEF Shrunk, Less
      <3>2. CASE Forgotten(x)
        BY <3>2, ShrunkSays
      <3>3. CASE EntryKept(x)
        BY <2>2, <3>3 DEF EntryKept
      <3> QED  BY <1>4, <3>1, <3>2, <3>3
    <2> QED  BY <2>1, <2>2
  <1> QED  BY <1>6, <1>7, <1>8

LEMMA HandledKeeps ==
    ASSUME Inv, Intact, NEW w \in lib.wire,
           Handled(w), NoneLeft(w), FetchHandled(w), NothingLeft(w)
    PROVE  Inv'
  <1>1. Types /\ Linkage
    BY DEF Inv
  <1>2. Shrunk
    BY DEF Handled
  <1>3. Types' /\ Fresh' /\ Alike' /\ Routed'
    BY <1>1, <1>2, ShrunkBasics DEF Linkage
  <1>9. Tracked'
    BY <1>1 DEF Linkage, Tracked, Handled, Shrunk, Less, Alike
  <1>4. Awaited'
    BY <1>1, HandledAwaited DEF Linkage
  <1>5. OnItsWay' /\ Fetches'
    BY <1>1, <1>3, <1>4, HandledOnItsWay, HandledFetches DEF Linkage
  <1>6. ThroughDisco' /\ Keeping'
    BY <1>1, HandledKeeping DEF Linkage
  <1>7. Gone'
    BY <1>1 DEF Linkage, Gone, Handled, Shrunk, Less
  <1>8. RuinedOnlyBy' /\ ToldOnlyWhoWaits'
    BY DEF Handled, Shrunk, Inv, RuinedOnlyBy, ToldOnlyWhoWaits
  <1> QED  BY <1>3, <1>4, <1>5, <1>6, <1>7, <1>8, <1>9 DEF Inv, Linkage

\* Where all ends, nothing is asked any more.
LEMMA RuinKeeps ==
    ASSUME Inv, Less, RuinedOnlyBy', \A e \in lib'.stray : e.op = "CheckAdhocSupport", ~Intact'
    PROVE  Inv'
  <1>1. Types'
    BY LessTypes DEF Inv
  <1>2. ToldOnlyWhoWaits'
    BY DEF ToldOnlyWhoWaits
  <1> QED  BY <1>1, <1>2 DEF Inv

(***************************************************************************)
(* What the answers have in common.                                        *)
(***************************************************************************)
\* A service is asked to handle the answer a to the request w.
Arrives(w, a, ih) ==
    /\ Intact /\ UNCHANGED uses /\ w \in lib.wire /\ a \in Answers
    /\ [id |-> w.id, ih |-> ih] \in lib.tracks /\ ih \in Services

\* The tables with all that l says, but for the request and its id.
Without(l, w) ==
    /\ Record(lib') /\ lib'.next = l.next
    /\ lib'.tracks = {t \in l.tracks : t.id # w.id}
    /\ lib'.table = l.table /\ lib'.nodes = l.nodes /\ lib'.wire = l.wire
    /\ lib'.dead = l.dead /\ lib'.deaf = l.deaf /\ lib'.open = l.open
    /\ lib'.stray = l.stray /\ lib'.silent = l.silent /\ lib'.ruin = l.ruin

\* The tables when the answer has arrived.
Start(k, w) ==
    /\ Record(k) /\ k.next = lib.next /\ k.tracks = lib.tracks /\ k.table = lib.table
    /\ k.nodes = lib.nodes /\ k.wire = lib.wire \ {w} /\ k.dead = lib.dead /\ k.deaf = lib.deaf
    /\ k.open = lib.open /\ k.stray = lib.stray /\ k.ruin = lib.ruin
    /\ lib.silent \subseteq k.silent
    /\ k.silent \subseteq [op : uses, remote : AllRemotes, type : {"removed", "bare", "lost"}]

LEMMA ArrivedIs ==
    ASSUME Types, NEW w \in lib.wire, NEW a \in Answers, NEW k, k = Arrived(w, a)
    PROVE  /\ Start(k, w)
           /\ Bare(w, a) => [op |-> w.op, remote |-> w.remote, type |-> "bare"] \in k.silent
  <1>1. Record(lib)
    BY DEF Types
  <1> DEFINE s == [op |-> w.op, remote |-> w.remote, type |-> "bare"]
  <1>2. s \in [op : uses, remote : AllRemotes, type : {"removed", "bare", "lost"}]
    BY DEF Types
  <1>3. lib.silent \subseteq [op : uses, remote : AllRemotes, type : {"removed", "bare", "lost"}]
    BY DEF Types
  <1>4. CASE Bare(w, a)
    <2>1. k = [[lib EXCEPT !.wire = @ \ {w}] EXCEPT !.silent = @ \cup {s}]
      BY <1>4 DEF Arrived, Bare
    <2> HIDE DEF s
    <2>2. PICK l : l = [lib EXCEPT !.wire = @ \ {w}]
      OBVIOUS
    <2>3. /\ Record(l) /\ l.next = lib.next /\ l.tracks = lib.tracks /\ l.table = lib.table
          /\ l.nodes = lib.nodes /\ l.wire = lib.wire \ {w} /\ l.dead = lib.dead
          /\ l.deaf = lib.deaf /\ l.open = lib.open /\ l.stray = lib.stray /\ l.ruin = lib.ruin
          /\ l.silent = lib.silent
      BY <1>1, <2>2 DEF Record
    <2>4. k = [l EXCEPT !.silent = @ \cup {s}]
      BY <2>1, <2>2
    <2>5. Start(k, w) /\ s \in k.silent
      BY <1>2, <1>3, <2>3, <2>4, ZenonT(60) DEF Start, Record
    <2> QED  BY <2>5 DEF s
  <1>5. CASE ~Bare(w, a)
    <2>1. k = [lib EXCEPT !.wire = @ \ {w}]
      BY <1>5 DEF Arrived, Bare
    <2>2. Start(k, w)
      BY <1>1, <1>3, <2>1 DEF Start, Record
    <2> QED  BY <1>5, <2>2
  <1> QED  BY <1>4, <1>5

LEMMA UntrackedIs ==
    ASSUME NEW l, Record(l), NEW w, lib' = Untracked(l, w)
    PROVE  Without(l, w)
  BY DEF Record, Untracked, Without

\* Who waits is told, and waits no more.
LEMMA ToldIs ==
    ASSUME NEW l, Record(l), NEW e \in l.open, \A q \in l.open : q.id = e.id => q = e
    PROVE  Told(l, e) = [l EXCEPT !.open = @ \ {e}]
  <1> DEFINE waiting == {q \in l.open : <<q.service, q.handler, q.op, q.remote>>
                                          = <<e.service, e.handler, e.op, e.remote>>}
             own == {q \in waiting : q.id = e.id}
  <1>1. e \in own /\ e \in waiting
    OBVIOUS
  <1>2. Told(l, e) = [l EXCEPT !.open = @ \ {CHOOSE q \in own : TRUE}]
    BY <1>1 DEF Told
  <1>3. (CHOOSE q \in own : TRUE) = e
    BY <1>1
  <1> QED  BY <1>2, <1>3

\* An operation is asked by one service, but for those of the rooms.
LEMMA OneService ==
    ASSUME NEW service \in Services, NEW other \in Services,
           NEW op \in Direct(service), op \in Direct(other) \cup Behind(other)
    PROVE  /\ other = service \/ {service, other} \subseteq Rooms
           /\ op \notin Behind(other)
  <1>1. op \notin AdhocDisco \cup FlexDisco \cup RoomDisco
    BY DEF Direct, Services, Rooms, AdhocDisco, FlexDisco, RoomDisco, RoomOps, PubSubOps,
           NodeNoted, PayloadTold
  <1>2. op \notin Behind(other)
    BY <1>1 DEF Behind
  <1>3. op \in Direct(other)
    BY <1>2
  <1>4. other = service \/ {service, other} \subseteq Rooms
    BY <1>3 DEF Direct, Services, Rooms, RoomOps, PubSubOps, NodeNoted, PayloadTold
  <1> QED  BY <1>2, <1>4

\* What the request is about, by who handles its answer.
LEMMA RequestOf ==
    ASSUME Types, Routed, NEW w, NEW a, NEW ih, Arrives(w, a, ih)
    PROVE  /\ ih # "disco" => w.op \in Direct(ih)
           /\ ih = "disco" => \/ w.op \in Direct("disco")
                              \/ \E service \in Services : w.op \in Behind(service)
           /\ w.op \in uses /\ w.remote \in AllRemotes /\ w.id \in Nat
  <1>1. Asker([id |-> w.id, ih |-> ih], w.op)
    BY DEF Arrives, Routed
  <1>2. PICK service \in Services : ih = Channel(service, w.op)
                                    /\ w.op \in Direct(service) \cup Behind(service)
    BY <1>1 DEF Asker
  <1>3. w.op \in uses /\ w.remote \in AllRemotes /\ w.id \in Nat
    BY DEF Types, Arrives
  <1> QED  BY <1>2, <1>3 DEF Channel

\* Who waits for the answer has asked the service that handles it, and all is in place.
LEMMA WhoIsMeant ==
    ASSUME Types, Linkage, NEW w, NEW a, NEW ih, Arrives(w, a, ih), NEW q \in lib.open, q.id = w.id
    PROVE  /\ q.op = w.op /\ q.remote = w.remote
           /\ Due(q) => Linked(q) /\ ih = Channel(q.service, q.op)
  <1>1. q.op = w.op /\ q.remote = w.remote
    BY DEF Linkage, Alike, Arrives
  <1>2. ASSUME Due(q)
        PROVE  Linked(q) /\ ih = Channel(q.service, q.op)
    <2>1. Linked(q)
      BY <1>2 DEF Linkage, OnItsWay
    <2>2. [id |-> w.id, ih |-> Channel(q.service, q.op)] \in lib.tracks
      BY <2>1 DEF Linked
    <2>3. [id |-> w.id, ih |-> Channel(q.service, q.op)] = [id |-> w.id, ih |-> ih]
      BY <2>2 DEF Linkage, Alike, Arrives
    <2> QED  BY <2>1, <2>3
  <1> QED  BY <1>1, <1>2

\* The nodes that are left when another service handles the answer.
LEMMA NodesOfOthers ==
    ASSUME Types, Linkage, NEW w, NEW a, NEW ih, Arrives(w, a, ih), ih # "pubsub", Shrunk,
           ~Lost', NEW n \in lib.nodes, n.id = w.id
    PROVE  NodeForgotten(n)'
  <1>1. NodeForgotten(n) \/ NodeKept(n)
    BY ShrunkSays DEF Linkage, Keeping
  <1>2. ~NodeKept(n)
    <2>1. SUFFICES ASSUME NodeKept(n)
          PROVE  FALSE
      OBVIOUS
    <2>2. [id |-> w.id, ih |-> "pubsub"] \in lib.tracks
      BY <2>1 DEF NodeKept
    <2>3. [id |-> w.id, ih |-> "pubsub"] = [id |-> w.id, ih |-> ih]
      BY <2>2 DEF Linkage, Alike, Arrives
    <2> QED  BY <2>3
  <1> QED  BY <1>1, <1>2, ShrunkSays

\* What ends it all with one of the known ruins.
Reduced(m) ==
    /\ Record(m) /\ m.next = lib.next /\ m.dead = lib.dead /\ m.deaf = lib.deaf
    /\ m.tracks \subseteq lib.tracks /\ m.wire \subseteq lib.wire
    /\ m.table \subseteq lib.table /\ m.open \subseteq lib.open /\ m.nodes \subseteq lib.nodes
    /\ lib.silent \subseteq m.silent
    /\ m.silent \subseteq [op : uses, remote : AllRemotes, type : {"removed", "bare", "lost"}]
    /\ \A e \in m.stray : e.op = "CheckAdhocSupport"
Ruins == {<<"dead", "pubsub">>, <<"dead", "adhoc">>, <<"dead", "flexoff">>,
          <<"erasedTwice", "vcard">>, <<"erasedTwice", "disco">>, <<"stuck", "pubsub">>,
          <<"renamed", "uniqueroom">>, <<"joinedUnasked", "uniqueroom">>,
          <<"null", "privacy">>, <<"null", "flexoff">>}

LEMMA RuinsKeep ==
    ASSUME Inv, UNCHANGED uses, NEW m, Reduced(m), NEW how, NEW service,
           <<how, service>> \in Ruins, NEW w, lib' = Untracked(Ruined(m, how, service), w)
    PROVE  Inv'
  <1>1. Record(m)
    BY DEF Reduced
  <1> DEFINE l == Ruined(m, how, service)
  <1>2. /\ Record(l) /\ l.next = m.next /\ l.tracks = m.tracks /\ l.table = m.table
        /\ l.nodes = m.nodes /\ l.wire = m.wire /\ l.dead = m.dead /\ l.deaf = m.deaf
        /\ l.open = m.open /\ l.stray = m.stray /\ l.silent = m.silent
        /\ l.ruin = <<how, service>>
    BY <1>1 DEF Record, Ruined
  <1> HIDE DEF l
  <1>3. Without(l, w)
    BY <1>2, UntrackedIs DEF l
  <1>4. Less
    BY <1>2, <1>3 DEF Less, Without, Reduced, Inv, Types
  <1>5. lib'.ruin = <<how, service>>
    BY <1>2, <1>3 DEF Without
  <1>6. RuinedOnlyBy'
    BY <1>5 DEF RuinedOnlyBy, Ruins
  <1>7. how # "none"
    BY DEF Ruins
  <1>8. ~Intact'
    BY <1>5, <1>7 DEF Intact
  <1>9. \A e \in lib'.stray : e.op = "CheckAdhocSupport"
    BY <1>2, <1>3 DEF Without, Reduced
  <1> QED  BY <1>4, <1>6, <1>8, <1>9, RuinKeeps

(***************************************************************************)
(* The answers to what a service asks itself.                              *)
(***************************************************************************)
\* The tables when such an answer is handled: what has its id is gone, or all is left.
Outcome(l, w) ==
    /\ Record(l) /\ l.next = lib.next /\ l.tracks = lib.tracks /\ l.wire = lib.wire \ {w}
    /\ l.dead = lib.dead /\ l.deaf = lib.deaf /\ l.ruin = lib.ruin
    /\ lib.silent \subseteq l.silent
    /\ l.silent \subseteq [op : uses, remote : AllRemotes, type : {"removed", "bare", "lost"}]
    /\ \A e \in l.stray : e.op = "CheckAdhocSupport"
    /\ l.table = lib.table \/ l.table = {x \in lib.table : x.id # w.id}
    /\ l.open = lib.open \/ l.open = {q \in lib.open : q.id # w.id}
    /\ l.nodes \subseteq lib.nodes /\ \A n \in lib.nodes \ l.nodes : n.id = w.id

\* The entries of the id are those of the service, and it is the service that they wait for.
LEMMA OnlyItsOwn ==
    ASSUME Types, Linkage, NEW w, NEW a, NEW service, Arrives(w, a, service), w.op \in Direct(service)
    PROVE  /\ \A x \in lib.table : x.id = w.id =>
                 /\ ~For(x) /\ Entry(x) /\ x.op = w.op /\ x.remote = w.remote
                 /\ x.service = service \/ {x.service, service} \subseteq Rooms
           /\ \A q \in lib.open : q.id = w.id =>
                 /\ q.op = w.op /\ q.remote = w.remote
                 /\ q.service = service \/ {q.service, service} \subseteq Rooms
                 /\ Due(q) => q.service = service /\ Linked(q)
  <1>1. service \in Services /\ w \in lib.wire
    BY DEF Arrives
  <1>2. ASSUME NEW x \in lib.table, x.id = w.id
        PROVE  /\ ~For(x) /\ Entry(x) /\ x.op = w.op /\ x.remote = w.remote
               /\ x.service = service \/ {x.service, service} \subseteq Rooms
    <2>1. x.op = w.op /\ x.remote = w.remote /\ x.service \in Services
      BY <1>1, <1>2 DEF Linkage, Alike, Types, Request
    <2>2. ~For(x)
      BY <1>1, <2>1, OneService DEF For
    <2>3. Entry(x)
      BY <2>2 DEF Linkage, Routed
    <2>4. x.service = service \/ {x.service, service} \subseteq Rooms
      BY <1>1, <2>1, <2>3, OneService DEF Entry, Plain
    <2> QED  BY <2>1, <2>2, <2>3, <2>4
  <1>3. ASSUME NEW q \in lib.open, q.id = w.id
        PROVE  /\ q.op = w.op /\ q.remote = w.remote
               /\ q.service = service \/ {q.service, service} \subseteq Rooms
               /\ Due(q) => q.service = service /\ Linked(q)
    <2>1. /\ q.op = w.op /\ q.remote = w.remote /\ q.service \in Services
          /\ Due(q) => Linked(q) /\ service = Channel(q.service, q.op)
      BY <1>3, WhoIsMeant DEF Types, Request
    <2>2. Plain(q)
      BY DEF Linkage, Routed
    <2>3. /\ q.service = service \/ {q.service, service} \subseteq Rooms
          /\ q.op \notin Behind(q.service)
      BY <1>1, <2>1, <2>2, OneService DEF Plain
    <2> QED  BY <2>1, <2>3 DEF Channel
  <1> QED  BY <1>2, <1>3

LEMMA DirectHandled ==
    ASSUME Inv, NEW w, NEW a, NEW service, Arrives(w, a, service), w.op \in Direct(service),
           NEW l, Outcome(l, w), Without(l, w),
           l.open = lib.open => \A q \in lib.open : q.id = w.id => ~Due(q)',
           l.table = lib.table => \A x \in lib.table : x.id = w.id => Forgotten(x)',
           \A q \in lib.open \ l.open : q.service \in Own \cup Storages => q \notin l.table,
           ~Lost' => \A n \in l.nodes : n.id = w.id => NodeForgotten(n)'
    PROVE  Inv'
  <1> USE DEF Without
  <1>1. Types /\ Linkage /\ Intact /\ w \in lib.wire /\ uses' = uses
    BY DEF Inv, Arrives
  <1>2. w.op \notin AdhocDisco
    BY DirectOrBehind
  <1>3. Shrunk
    BY <1>1 DEF Shrunk, Less, Outcome, Types
  <1>4. \A x \in lib.table \ lib'.table : x.id = w.id
    BY DEF Outcome
  <1>5. \A q \in lib.open \ lib'.open : q.id = w.id
    BY DEF Outcome
  <1>6. Handled(w)
    BY <1>3, <1>4 DEF Handled, Outcome
  <1>7. NoneLeft(w)
    <2>1. \A q \in lib'.open : q.id = w.id => ~Due(q)'
      BY DEF Outcome
    <2>2. \A x \in lib'.table : ~(x.id = w.id /\ For(x))
      BY <1>1, OnlyItsOwn DEF Outcome
    <2> QED  BY <1>5, <2>1, <2>2 DEF NoneLeft
  <1>8. FetchHandled(w)
    <2>1. ASSUME Unchecked, NEW q \in lib'.open, q.op = "FetchAdhocCommands"
          PROVE  q \in lib'.table
      <3>1. q \in lib.open /\ q \in lib.table
        BY <1>1, <2>1 DEF Linkage, Fetches, Outcome
      <3>2. q.id # w.id
        BY <1>1, <1>2, <2>1, <3>1, OnlyItsOwn DEF AdhocDisco
      <3> QED  BY <1>4, <3>1, <3>2
    <2> QED  BY <1>2, <2>1 DEF FetchHandled, AdhocDisco
  <1>9. NothingLeft(w)
    <2>1. ASSUME NEW x \in lib'.table, x.id = w.id
          PROVE  Forgotten(x)'
      BY <2>1 DEF Outcome
    <2> QED  BY <2>1 DEF NothingLeft
  <1> QED  BY <1>1, <1>6, <1>7, <1>8, <1>9, HandledKeeps

\* Where the entry is looked up by the id, the handler is told and the entry erased.
LEMMA LookupKeeps ==
    ASSUME Inv, NEW service \in {"vcard", "search", "privatexml", "adhoc", "ping"} \cup Storages,
           NEW w, NEW a, Arrives(w, a, service), NEW k, k = Arrived(w, a),
           NEW tells \in BOOLEAN, NEW l \in Lookup(k, service, w, tells), lib' = Untracked(l, w),
           tells => service \notin lib.deaf, tells \/ w.op \in NeverTold \/ Bare(w, a)
    PROVE  Inv'
  <1>1. Types /\ Linkage /\ Intact /\ w \in lib.wire /\ uses' = uses /\ a \in Answers
    BY DEF Inv, Arrives
  <1>2. w.op \in Direct(service) /\ service \in Own \cup Storages
    BY <1>1, RequestOf DEF Linkage, Storages, Own
  <1>3. Start(k, w) /\ (Bare(w, a) => [op |-> w.op, remote |-> w.remote, type |-> "bare"] \in k.silent)
    BY <1>1, ArrivedIs
  <1>4. \A x \in lib.table : x.id = w.id => x.service = service /\ Entry(x)
    BY <1>1, <1>2, OnlyItsOwn DEF Rooms, Storages
  <1>5. \A q \in lib.open : q.id = w.id => q.op = w.op /\ q.remote = w.remote
    BY <1>1, <1>2, OnlyItsOwn
  <1>6. ASSUME NEW n \in lib.nodes, n.id = w.id, Shrunk, ~Lost'
        PROVE  NodeForgotten(n)'
    BY <1>1, <1>6, NodesOfOthers DEF Storages
  <1>7. \A e \in lib.stray : e.op = "CheckAdhocSupport"
    BY DEF Inv, ToldOnlyWhoWaits
  <1>8. CASE Entries(k, service, w) = {}
    <2>1. l = k
      BY <1>8 DEF Lookup
    <2>2. Outcome(l, w) /\ Without(l, w)
      BY <1>3, <1>7, <2>1, UntrackedIs DEF Outcome, Start
    <2>3. \A x \in lib.table : x.id # w.id
      BY <1>3, <1>4, <1>8 DEF Entries, Start
    <2>4. Shrunk
      BY <1>1, <2>2 DEF Shrunk, Less, Outcome, Without, Types
    <2>5. \A q \in lib.open : q.id = w.id => ~Due(q)'
      <3>1. ASSUME NEW q \in lib.open, q.id = w.id, Due(q)
            PROVE  FALSE
        <4>1. q.service = service /\ Linked(q)
          BY <1>1, <1>2, <3>1, OnlyItsOwn
        <4>2. q \in lib.table
          BY <1>2, <4>1 DEF Linked
        <4> QED  BY <2>3, <3>1, <4>2
      <3> QED  BY <2>4, <3>1, ShrunkSays
    <2>6. ~Lost' => \A n \in l.nodes : n.id = w.id => NodeForgotten(n)'
      BY <1>3, <1>6, <2>1, <2>4 DEF Start
    <2> QED  BY <1>2, <2>2, <2>3, <2>5, <2>6, <1>3, <2>1, DirectHandled DEF Start
  <1>9. CASE Entries(k, service, w) # {}
    <2> DEFINE e == CHOOSE e \in Entries(k, service, w) : TRUE
    <2>1. e \in Entries(k, service, w)
      BY <1>9
    <2> HIDE DEF e
    <2>2. e \in lib.table /\ e.id = w.id /\ e.service = service /\ Entry(e)
      BY <1>3, <1>4, <2>1 DEF Entries, Start
    <2>3. \A x \in lib.table : x.id = w.id => x = e
      BY <1>1, <1>4, <2>2 DEF Linkage, Alike
    <2>4. PICK m \in IF tells THEN ToldMayCancel(k, e) ELSE {k} : l = Erased(m, e)
      BY <1>9 DEF Lookup, e
    <2>5. tells => e \in lib.open
      <3>1. e.op = w.op /\ w.op # "CheckAdhocSupport"
        BY <1>1, <1>2, <2>2, OnlyItsOwn, DirectOrBehind DEF AdhocDisco
      <3> QED  BY <1>1, <1>2, <2>2, <3>1 DEF Linkage, Awaited, OwnAwaited, StorageAwaited, Entry
    <2>6. ASSUME Outcome(l, w), l.table = {x \in lib.table : x.id # w.id},
                 tells => l.open = {q \in lib.open : q.id # w.id}, l.nodes = lib.nodes, l.silent = k.silent
          PROVE  Inv'
      <3>1. Without(l, w)
        BY <2>6, UntrackedIs DEF Outcome
      <3>2. Shrunk
        BY <1>1, <2>6, <3>1 DEF Shrunk, Less, Outcome, Without, Types
      <3>3. l.open = lib.open => \A q \in lib.open : q.id = w.id => ~Due(q)'
        <4>1. CASE tells
          BY <2>6, <4>1
        <4>2. CASE ~tells
          <5>1. Excused(w.op, w.remote)'
            <6>1. w.op \in NeverTold \/ [op |-> w.op, remote |-> w.remote, type |-> "bare"] \in lib'.silent
              BY <1>3, <2>6, <3>1, <4>2 DEF Without
            <6> QED  BY <6>1 DEF Excused
          <5> QED  BY <1>5, <5>1 DEF Due
        <4> QED  BY <4>1, <4>2
      <3>4. l.table = lib.table => \A x \in lib.table : x.id = w.id => Forgotten(x)'
        BY <2>2, <2>6
      <3>5. \A q \in lib.open \ l.open : q \notin l.table
        BY <2>6 DEF Outcome
      <3>6. ~Lost' => \A n \in l.nodes : n.id = w.id => NodeForgotten(n)'
        BY <1>6, <2>6, <3>2
      <3> QED  BY <1>2, <2>6, <3>1, <3>3, <3>4, <3>5, <3>6, DirectHandled
    <2>7. CASE m = k /\ ~tells
      <3>1. l = [k EXCEPT !.table = @ \ {e}]
        BY <1>3, <2>2, <2>4, <2>7 DEF Erased, Start
      <3>2. Outcome(l, w) /\ l.table = {x \in lib.table : x.id # w.id} /\ l.nodes = lib.nodes
            /\ l.silent = k.silent
        BY <1>3, <1>7, <2>2, <2>3, <3>1 DEF Outcome, Start, Record
      <3> QED  BY <2>6, <2>7, <3>2
    <2>8. ASSUME tells
          PROVE  /\ Told(k, e) = [k EXCEPT !.open = @ \ {e}]
                 /\ {q \in lib.open : q.id # w.id} = lib.open \ {e}
      <3>1. e \in k.open /\ \A q \in k.open : q.id = e.id => q = e
        BY <1>1, <1>3, <2>5, <2>8 DEF Start, Linkage, Alike
      <3>2. {q \in lib.open : q.id # w.id} = lib.open \ {e}
        BY <1>3, <2>2, <3>1 DEF Start
      <3> QED  BY <1>3, <3>1, <3>2, ToldIs DEF Start
    <2>9. CASE tells /\ m = Told(k, e)
      <3>1. m = [k EXCEPT !.open = @ \ {e}]
        BY <2>8, <2>9
      <3>2. m.table = lib.table /\ Record(m)
        BY <1>3, <3>1 DEF Start, Record
      <3>3. l = [m EXCEPT !.table = @ \ {e}]
        BY <2>2, <2>4, <3>2 DEF Erased
      <3>4. l.open = lib.open \ {e} /\ l.table = lib.table \ {e} /\ l.nodes = lib.nodes
            /\ l.silent = k.silent
        BY <1>3, <3>1, <3>2, <3>3 DEF Start, Record
      <3>5. l.open = {q \in lib.open : q.id # w.id} /\ l.table = {x \in lib.table : x.id # w.id}
        BY <2>2, <2>3, <2>8, <2>9, <3>4
      <3>6. Outcome(l, w)
        BY <1>3, <1>7, <3>1, <3>2, <3>3, <3>5 DEF Outcome, Start, Record
      <3> QED  BY <2>6, <3>4, <3>5, <3>6
    <2>10. CASE tells /\ m = Cancelled(Told(k, e), service, e.handler) /\ service = "vcard"
      <3>1. Told(k, e) = [k EXCEPT !.open = @ \ {e}]
        BY <2>8, <2>10
      <3> DEFINE j == Told(k, e)
      <3>2. Record(j) /\ j.table = lib.table /\ j.open \subseteq lib.open /\ j.ruin = lib.ruin
            /\ j.next = lib.next /\ j.tracks = lib.tracks /\ j.wire = lib.wire \ {w}
            /\ j.nodes = lib.nodes /\ j.dead = lib.dead /\ j.deaf = lib.deaf
            /\ j.stray = lib.stray /\ j.silent = k.silent
        BY <1>3, <3>1 DEF Start, Record
      <3> HIDE DEF j
      <3>3. m = Cancelled(j, service, e.handler)
        BY <2>10 DEF j
      <3>4. e \notin m.table
        BY <2>2, <3>2, <3>3 DEF Cancelled, Record
      <3>5. l = Ruined(m, "erasedTwice", "vcard")
        BY <2>2, <2>4, <2>10, <3>4 DEF Erased
      <3>6. /\ Record(m) /\ m.table \subseteq lib.table /\ m.open \subseteq lib.open
            /\ m.next = lib.next /\ m.tracks = lib.tracks /\ m.wire = lib.wire \ {w}
            /\ m.nodes = lib.nodes /\ m.dead = lib.dead /\ m.deaf = lib.deaf
            /\ m.stray = lib.stray /\ m.silent = k.silent
        BY <3>2, <3>3 DEF Cancelled, Record
      <3>7. Reduced(m)
        BY <1>3, <1>7, <3>6 DEF Reduced, Start
      <3> QED  BY <1>1, <3>5, <3>7, RuinsKeep DEF Ruins
    <2> QED  BY <1>2, <2>2, <2>4, <2>7, <2>9, <2>10 DEF ToldMayCancel, Storages
  <1> QED  BY <1>8, <1>9

\* A service that is gone is tracked no more, but for publish-subscribe.
LEMMA AliveAnswers ==
    ASSUME Types, Linkage, NEW w, NEW a, NEW ih, Arrives(w, a, ih), ih # "pubsub"
    PROVE  ih \notin lib.dead
  BY DEF Linkage, Gone, Arrives

\* Nobody is told, and nothing is erased.
LEMMA UntoldKeeps ==
    ASSUME Inv, NEW w, NEW a, NEW service, Arrives(w, a, service), NEW k, k = Arrived(w, a),
           lib' = Untracked(k, w),
           \/ service \in Listening
           \/ service = "search" /\ (Bare(w, a) \/ w.op = "SearchFields"),
           \/ w.op \in NeverTold \/ Bare(w, a)
           \/ \A q \in lib.open : q.id = w.id => ~Due(q)
    PROVE  Inv'
  <1>1. Types /\ Linkage /\ Intact /\ w \in lib.wire /\ uses' = uses /\ a \in Answers
    BY DEF Inv, Arrives
  <1>2. w.op \in Direct(service) /\ service # "pubsub"
    BY <1>1, RequestOf DEF Listening, Linkage
  <1>3. Start(k, w) /\ (Bare(w, a) => [op |-> w.op, remote |-> w.remote, type |-> "bare"] \in k.silent)
    BY <1>1, ArrivedIs
  <1>4. \A e \in lib.stray : e.op = "CheckAdhocSupport"
    BY DEF Inv, ToldOnlyWhoWaits
  <1>5. Outcome(k, w) /\ Without(k, w)
    BY <1>3, <1>4, UntrackedIs DEF Outcome, Start
  <1>6. Shrunk
    BY <1>1, <1>5 DEF Shrunk, Less, Outcome, Without, Types
  <1>7. \A q \in lib.open : q.id = w.id => ~Due(q)'
    <2>1. CASE w.op \in NeverTold \/ Bare(w, a)
      <3>1. w.op \in NeverTold \/ [op |-> w.op, remote |-> w.remote, type |-> "bare"] \in lib'.silent
        BY <1>3, <1>5, <2>1 DEF Without
      <3>2. Excused(w.op, w.remote)'
        BY <3>1 DEF Excused
      <3>3. \A q \in lib.open : q.id = w.id => q.op = w.op /\ q.remote = w.remote
        BY <1>1, <1>2, OnlyItsOwn
      <3> QED  BY <3>2, <3>3 DEF Due
    <2>2. CASE \A q \in lib.open : q.id = w.id => ~Due(q)
      BY <1>6, <2>2, ShrunkSays
    <2> QED  BY <2>1, <2>2
  <1>8. ASSUME NEW x \in lib.table, x.id = w.id
        PROVE  Forgotten(x)'
    <2>1. /\ x.op = w.op /\ x.remote = w.remote /\ Entry(x)
          /\ x.service = service \/ {x.service, service} \subseteq Rooms
      BY <1>1, <1>2, <1>8, OnlyItsOwn
    <2>2. service \notin Listening
      BY <2>1 DEF Entry, Own, Storages, Listening, Rooms
    <2>3. CASE w.op = "SearchFields"
      BY <2>1, <2>3 DEF Forgotten
    <2>4. CASE Bare(w, a) /\ w.op # "SearchFields" /\ service = "search"
      <3>1. w.op \in {"FetchSearchFields", "SearchForm"}
        BY <1>2, <2>4 DEF Direct
      <3>2. [op |-> x.op, remote |-> x.remote, type |-> "bare"] \in lib'.silent
        BY <1>3, <1>5, <2>1, <2>4 DEF Without
      <3> QED  BY <2>1, <3>1, <3>2 DEF Forgotten
    <2> QED  BY <2>2, <2>3, <2>4
  <1>9. ~Lost' => \A n \in k.nodes : n.id = w.id => NodeForgotten(n)'
    BY <1>1, <1>2, <1>3, <1>6, NodesOfOthers DEF Start
  <1>10. k.open = lib.open /\ k.table = lib.table
    BY <1>3 DEF Start
  <1> QED  BY <1>2, <1>5, <1>7, <1>8, <1>9, <1>10, DirectHandled

LEMMA TableAnswersKeep ==
    ASSUME Inv, \/ VCardAnswer \/ SearchAnswer \/ PrivateXmlAnswer \/ BookmarksAnswer
                \/ AnnotationsAnswer \/ AdhocAnswer \/ PingAnswer
    PROVE  Inv'
  <1>1. Intact /\ Types /\ Linkage
    BY DEF VCardAnswer, SearchAnswer, PrivateXmlAnswer, BookmarksAnswer, AnnotationsAnswer,
           AdhocAnswer, PingAnswer, Answer, Inv
  <1>2. "vcard" \notin lib.deaf /\ "search" \notin lib.deaf /\ "privatexml" \notin lib.deaf
        /\ "adhoc" \notin lib.deaf /\ "ping" \notin lib.deaf
    BY <1>1 DEF Types, Listening, Storages
  <1>3. CASE VCardAnswer
    <2>1. PICK w \in lib.wire, a \in Answers :
             /\ Arrives(w, a, "vcard")
             /\ \E l \in IF "vcard" \in lib.dead THEN {Ruined(lib, "dead", "vcard")}
                         ELSE VCardHandleIqID(Arrived(w, a), w, a) : lib' = Untracked(l, w)
      BY <1>3 DEF VCardAnswer, Answer, Arrives, Services
    <2>2. PICK l \in Lookup(Arrived(w, a), "vcard", w, TRUE) : lib' = Untracked(l, w)
      BY <1>1, <2>1, AliveAnswers DEF VCardHandleIqID
    <2> QED  BY <1>2, <2>1, <2>2, LookupKeeps
  <1>4. CASE SearchAnswer
    <2>1. PICK w \in lib.wire, a \in Answers :
             /\ Arrives(w, a, "search")
             /\ \E l \in IF "search" \in lib.dead THEN {Ruined(lib, "dead", "search")}
                         ELSE SearchHandleIqID(Arrived(w, a), w, a) : lib' = Untracked(l, w)
      BY <1>4 DEF SearchAnswer, Answer, Arrives, Services
    <2>2. PICK l \in SearchHandleIqID(Arrived(w, a), w, a) : lib' = Untracked(l, w)
      BY <1>1, <2>1, AliveAnswers
    <2>3. CASE IsResult(a) /\ ~a.payload
      <3>1. lib' = Untracked(Arrived(w, a), w)
        BY <2>2, <2>3 DEF SearchHandleIqID
      <3>2. Bare(w, a) \/ w.op = "SearchFields"
        <4>1. w.op \in Direct("search")
          BY <1>1, <2>1, RequestOf DEF Linkage
        <4> QED  BY <2>3, <4>1 DEF Direct, Bare, WantsPayload
      <3> QED  BY <2>1, <3>1, <3>2, UntoldKeeps DEF NeverTold
    <2>4. CASE ~(IsResult(a) /\ ~a.payload)
      <3>1. l \in Lookup(Arrived(w, a), "search", w, TRUE)
        BY <2>2, <2>4 DEF SearchHandleIqID
      <3> QED  BY <1>2, <2>1, <2>2, <3>1, LookupKeeps
    <2> QED  BY <2>3, <2>4
  <1>5. CASE PrivateXmlAnswer
    <2>1. PICK w \in lib.wire, a \in Answers :
             /\ Arrives(w, a, "privatexml")
             /\ \E l \in IF "privatexml" \in lib.dead THEN {Ruined(lib, "dead", "privatexml")}
                         ELSE PrivateXmlHandleIqID(Arrived(w, a), w, a) : lib' = Untracked(l, w)
      BY <1>5 DEF PrivateXmlAnswer, Answer, Arrives, Services
    <2> DEFINE tells == w.op = "StoreXml" \/ ~IsResult(a) \/ a.payload
    <2>2. PICK l \in Lookup(Arrived(w, a), "privatexml", w, tells) : lib' = Untracked(l, w)
      BY <1>1, <2>1, AliveAnswers DEF PrivateXmlHandleIqID
    <2>3. tells \/ Bare(w, a)
      <3>1. w.op \in Direct("privatexml")
        BY <1>1, <2>1, RequestOf DEF Linkage
      <3> QED  BY <3>1 DEF Direct, Bare, WantsPayload
    <2>4. tells \in BOOLEAN
      BY <2>1 DEF Answers
    <2> HIDE DEF tells
    <2> QED  BY <1>2, <2>1, <2>2, <2>3, <2>4, LookupKeeps
  <1>6. ASSUME NEW service \in Storages, NEW w \in lib.wire, NEW a \in Answers,
               Arrives(w, a, service),
               NEW l \in StorageHandleIqID(Arrived(w, a), service, w, a), lib' = Untracked(l, w)
        PROVE  Inv'
    <2>1. Arrived(w, a).deaf = lib.deaf
      BY <1>1, ArrivedIs, ZenonT(60) DEF Start
    <2> DEFINE tells == IsResult(a) /\ a.payload /\ service \notin lib.deaf
                          /\ w.op \in {"RequestBookmarks", "RequestAnnotations"}
    <2>2. l \in Lookup(Arrived(w, a), service, w, tells)
      BY <1>6, <2>1 DEF StorageHandleIqID
    <2>3. w.op \in NeverTold
      <3>1. w.op \in Direct(service)
        BY <1>1, <1>6, RequestOf DEF Linkage, Storages
      <3> QED  BY <3>1 DEF Direct, Storages, NeverTold
    <2>4. tells \in BOOLEAN /\ (tells => service \notin lib.deaf)
      BY <1>6 DEF Answers
    <2> HIDE DEF tells
    <2> QED  BY <1>6, <2>2, <2>3, <2>4, LookupKeeps
  <1>7. CASE BookmarksAnswer
    <2>1. PICK w \in lib.wire, a \in Answers :
             /\ Arrives(w, a, "bookmarks")
             /\ \E l \in IF "bookmarks" \in lib.dead THEN {Ruined(lib, "dead", "bookmarks")}
                         ELSE StorageHandleIqID(Arrived(w, a), "bookmarks", w, a) :
                  lib' = Untracked(l, w)
      BY <1>7 DEF BookmarksAnswer, Answer, Arrives, Services
    <2>2. PICK l \in StorageHandleIqID(Arrived(w, a), "bookmarks", w, a) : lib' = Untracked(l, w)
      BY <1>1, <2>1, AliveAnswers
    <2> QED  BY <1>6, <2>1, <2>2 DEF Storages
  <1>8. CASE AnnotationsAnswer
    <2>1. PICK w \in lib.wire, a \in Answers :
             /\ Arrives(w, a, "annotations")
             /\ \E l \in IF "annotations" \in lib.dead THEN {Ruined(lib, "dead", "annotations")}
                         ELSE StorageHandleIqID(Arrived(w, a), "annotations", w, a) :
                  lib' = Untracked(l, w)
      BY <1>8 DEF AnnotationsAnswer, Answer, Arrives, Services
    <2>2. PICK l \in StorageHandleIqID(Arrived(w, a), "annotations", w, a) : lib' = Untracked(l, w)
      BY <1>1, <2>1, AliveAnswers
    <2> QED  BY <1>6, <2>1, <2>2 DEF Storages
  <1>9. CASE AdhocAnswer
    <2>1. PICK w \in lib.wire, a \in Answers :
             /\ Arrives(w, a, "adhoc")
             /\ \E l \in IF "adhoc" \in lib.dead THEN {Ruined(lib, "dead", "adhoc")}
                         ELSE AdhocHandleIqID(Arrived(w, a), w, a) : lib' = Untracked(l, w)
      BY <1>9 DEF AdhocAnswer, Answer, Arrives, Services
    <2> DEFINE tells == ~IsResult(a) \/ a.payload
    <2>2. PICK l \in Lookup(Arrived(w, a), "adhoc", w, tells) : lib' = Untracked(l, w)
      BY <1>1, <2>1, AliveAnswers DEF AdhocHandleIqID
    <2>3. tells \/ Bare(w, a)
      <3>1. w.op \in Direct("adhoc")
        BY <1>1, <2>1, RequestOf DEF Linkage
      <3> QED  BY <3>1 DEF Direct, Bare, WantsPayload
    <2>4. tells \in BOOLEAN
      BY <2>1 DEF Answers
    <2> HIDE DEF tells
    <2> QED  BY <1>2, <2>1, <2>2, <2>3, <2>4, LookupKeeps
  <1>10. CASE PingAnswer
    <2>1. PICK w \in lib.wire, a \in Answers :
             /\ Arrives(w, a, "ping")
             /\ \E l \in IF "ping" \in lib.dead THEN {Ruined(lib, "dead", "ping")}
                         ELSE PingHandleIqID(Arrived(w, a), w, a) : lib' = Untracked(l, w)
      BY <1>10 DEF PingAnswer, Answer, Arrives, Services
    <2>2. PICK l \in Lookup(Arrived(w, a), "ping", w, TRUE) : lib' = Untracked(l, w)
      BY <1>1, <2>1, AliveAnswers DEF PingHandleIqID
    <2> QED  BY <1>2, <2>1, <2>2, LookupKeeps
  <1> QED  BY <1>3, <1>4, <1>5, <1>7, <1>8, <1>9, <1>10

\* The only listener of a service is told, if there is one.
LEMMA ListenerToldKeeps ==
    ASSUME Inv, NEW service \in Listening \ {"uniqueroom"}, NEW w, NEW a,
           Arrives(w, a, service), NEW k, k = Arrived(w, a),
           lib' = Untracked(ListenerTold(k, service, w), w)
    PROVE  Inv'
  <1>1. Types /\ Linkage /\ Intact /\ w \in lib.wire /\ uses' = uses /\ a \in Answers
    BY DEF Inv, Arrives
  <1>2. w.op \in Direct(service) /\ service # "pubsub" /\ service # "disco"
    BY <1>1, RequestOf DEF Listening, Linkage
  <1>3. Start(k, w)
    BY <1>1, ArrivedIs
  <1>4. CASE service \in lib.deaf
    <2>1. lib' = Untracked(k, w)
      BY <1>3, <1>4 DEF ListenerTold, Start
    <2>2. \A q \in lib.open : q.id = w.id => ~Due(q)
      BY <1>1, <1>2, <1>4, OnlyItsOwn DEF Linkage, Gone
    <2> QED  BY <2>1, <2>2, UntoldKeeps
  <1>5. CASE service \notin lib.deaf
    <2> DEFINE e == Waiter(service, w.id, w.op, w.remote)
               l == ListenerTold(k, service, w)
    <2>1. service \notin lib.dead
      BY <1>1, <1>2, AliveAnswers
    <2>2. e \in lib.open
      <3>1. [id |-> w.id, ih |-> service] \in lib.tracks
        BY DEF Arrives
      <3>2. TrackAwaited([id |-> w.id, ih |-> service], w)
        BY <1>1, <3>1 DEF Linkage, Awaited
      <3> QED  BY <1>5, <2>1, <3>2 DEF TrackAwaited
    <2>3. e.id = w.id /\ \A q \in lib.open : q.id = w.id => q = e
      BY <1>1, <2>2 DEF Linkage, Alike, Waiter
    <2>4. l = Told(k, e)
      BY <1>3, <1>5 DEF ListenerTold, Start, Waiter
    <2> HIDE DEF l, e
    <2>5. l = [k EXCEPT !.open = @ \ {e}]
      BY <1>3, <2>2, <2>3, <2>4, ToldIs DEF Start
    <2>6. \A x \in lib.table : x.id # w.id
      BY <1>1, <1>2, OnlyItsOwn DEF Entry, Own, Storages, Listening, Rooms
    <2>7. {q \in lib.open : q.id # w.id} = lib.open \ {e}
      BY <2>2, <2>3
    <2>8. \A s \in lib.stray : s.op = "CheckAdhocSupport"
      BY DEF Inv, ToldOnlyWhoWaits
    <2>9. /\ Record(l) /\ l.next = lib.next /\ l.tracks = lib.tracks /\ l.wire = lib.wire \ {w}
          /\ l.dead = lib.dead /\ l.deaf = lib.deaf /\ l.ruin = lib.ruin /\ l.silent = k.silent
          /\ l.stray = lib.stray /\ l.table = lib.table /\ l.nodes = lib.nodes
          /\ l.open = lib.open \ {e}
      BY <1>3, <2>5 DEF Start, Record
    <2>10. Outcome(l, w)
      BY <1>3, <2>7, <2>8, <2>9 DEF Outcome, Start
    <2>11. Without(l, w)
      BY <2>9, UntrackedIs DEF l
    <2>12. Shrunk
      BY <1>1, <2>10, <2>11 DEF Shrunk, Less, Outcome, Without, Types
    <2>13. ~Lost' => \A n \in l.nodes : n.id = w.id => NodeForgotten(n)'
      BY <1>1, <1>2, <2>9, <2>12, NodesOfOthers
    <2>14. l.open = lib.open => \A q \in lib.open : q.id = w.id => ~Due(q)'
      BY <2>2, <2>9
    <2>15. \A q \in lib.open \ l.open : q.service \in Own \cup Storages => q \notin l.table
      BY <2>3, <2>6, <2>7, <2>9
    <2> QED  BY <1>2, <2>6, <2>9, <2>10, <2>11, <2>13, <2>14, <2>15, DirectHandled
  <1> QED  BY <1>4, <1>5

\* Where the handler reads what the error says, there may be nothing to read.
LEMMA ReasonToldKeeps ==
    ASSUME Inv, NEW service \in {"privacy", "flexoff"}, NEW w, NEW a,
           Arrives(w, a, service), NEW k, k = Arrived(w, a),
           lib' = Untracked(ReasonTold(k, service, w, a), w)
    PROVE  Inv'
  <1>1. CASE Unexplained(a) /\ service \notin k.deaf
    <2>1. Types /\ UNCHANGED uses /\ w \in lib.wire /\ a \in Answers
      BY DEF Inv, Arrives
    <2>2. Start(k, w)
      BY <2>1, ArrivedIs
    <2>3. Reduced(k)
      BY <2>2 DEF Inv, ToldOnlyWhoWaits, Start, Reduced
    <2>4. lib' = Untracked(Ruined(k, "null", service), w)
      BY <1>1 DEF ReasonTold
    <2>5. <<"null", service>> \in Ruins
      BY DEF Ruins
    <2> QED  BY <2>1, <2>3, <2>4, <2>5, RuinsKeep
  <1>2. CASE ~(Unexplained(a) /\ service \notin k.deaf)
    <2>1. lib' = Untracked(ListenerTold(k, service, w), w)
      BY <1>2 DEF ReasonTold
    <2> QED  BY <2>1, ListenerToldKeeps DEF Listening
  <1> QED  BY <1>1, <1>2

LEMMA ListenerAnswersKeep ==
    ASSUME Inv, \/ FlexOffAnswer \/ RegistrationAnswer \/ PrivacyAnswer \/ LastActivityAnswer
                \/ RoomAnswer
    PROVE  Inv'
  <1>1. Intact /\ Types /\ Linkage
    BY DEF FlexOffAnswer, RegistrationAnswer, PrivacyAnswer, LastActivityAnswer, RoomAnswer,
           Answer, Inv
  <1>2. CASE FlexOffAnswer
    <2>1. PICK w \in lib.wire, a \in Answers :
             /\ Arrives(w, a, "flexoff")
             /\ \E l \in IF "flexoff" \in lib.dead THEN {Ruined(lib, "dead", "flexoff")}
                         ELSE FlexOffHandleIqID(Arrived(w, a), w, a) : lib' = Untracked(l, w)
      BY <1>2 DEF FlexOffAnswer, Answer, Arrives, Services
    <2>2. lib' = Untracked(ReasonTold(Arrived(w, a), "flexoff", w, a), w)
      BY <1>1, <2>1, AliveAnswers DEF FlexOffHandleIqID
    <2> QED  BY <2>1, <2>2, ReasonToldKeeps
  <1>3. CASE RegistrationAnswer
    <2>1. PICK w \in lib.wire, a \in Answers :
             /\ Arrives(w, a, "registration")
             /\ \E l \in IF "registration" \in lib.dead THEN {Ruined(lib, "dead", "registration")}
                         ELSE RegistrationHandleIqID(Arrived(w, a), w, a) :
                  lib' = Untracked(l, w)
      BY <1>3 DEF RegistrationAnswer, Answer, Arrives, Services
    <2>2. PICK l \in RegistrationHandleIqID(Arrived(w, a), w, a) : lib' = Untracked(l, w)
      BY <1>1, <2>1, AliveAnswers
    <2> DEFINE untold ==
                 \/ Unexplained(a)
                 \/ IsResult(a) /\ w.op = "FetchRegistrationFields" /\ ~a.payload
    <2>3. CASE untold
      <3>1. l = Arrived(w, a)
        BY <2>2, <2>3 DEF RegistrationHandleIqID
      <3>2. Bare(w, a)
        <4>1. w.op \in Direct("registration")
          BY <1>1, <2>1, RequestOf DEF Linkage
        <4> QED  BY <2>3, <4>1 DEF Direct, Bare, WantsPayload, WantsReason
      <3> QED  BY <2>1, <2>2, <3>1, <3>2, UntoldKeeps DEF Listening
    <2>4. CASE ~untold
      <3>1. l = ListenerTold(Arrived(w, a), "registration", w)
        BY <2>2, <2>4 DEF RegistrationHandleIqID
      <3> QED  BY <2>1, <2>2, <3>1, ListenerToldKeeps DEF Listening
    <2> QED  BY <2>3, <2>4
  <1>4. CASE PrivacyAnswer
    <2>1. PICK w \in lib.wire, a \in Answers :
             /\ Arrives(w, a, "privacy")
             /\ \E l \in IF "privacy" \in lib.dead THEN {Ruined(lib, "dead", "privacy")}
                         ELSE PrivacyHandleIqID(Arrived(w, a), w, a) : lib' = Untracked(l, w)
      BY <1>4 DEF PrivacyAnswer, Answer, Arrives, Services
    <2>2. PICK l \in PrivacyHandleIqID(Arrived(w, a), w, a) : lib' = Untracked(l, w)
      BY <1>1, <2>1, AliveAnswers
    <2> DEFINE untold == \/ w.op \in {"PLUnsetDefault", "PLUnsetActivate"}
                         \/ w.op \in {"PLRequestNames", "PLRequestList"} /\ ~a.payload
    <2>3. CASE IsResult(a) /\ untold
      <3>1. l = Arrived(w, a)
        BY <2>2, <2>3 DEF PrivacyHandleIqID
      <3>2. w.op \in NeverTold \/ Bare(w, a)
        BY <2>3 DEF Bare, WantsPayload, NeverTold
      <3> QED  BY <2>1, <2>2, <3>1, <3>2, UntoldKeeps DEF Listening
    <2>4. CASE ~(IsResult(a) /\ untold)
      <3>1. l = ReasonTold(Arrived(w, a), "privacy", w, a)
        BY <2>2, <2>4 DEF PrivacyHandleIqID
      <3> QED  BY <2>1, <2>2, <3>1, ReasonToldKeeps
    <2> QED  BY <2>3, <2>4
  <1>5. CASE LastActivityAnswer
    <2>1. PICK w \in lib.wire, a \in Answers :
             /\ Arrives(w, a, "lastactivity")
             /\ \E l \in IF "lastactivity" \in lib.dead THEN {Ruined(lib, "dead", "lastactivity")}
                         ELSE LastActivityHandleIqID(Arrived(w, a), w, a) :
                  lib' = Untracked(l, w)
      BY <1>5 DEF LastActivityAnswer, Answer, Arrives, Services
    <2>2. PICK l \in LastActivityHandleIqID(Arrived(w, a), w, a) : lib' = Untracked(l, w)
      BY <1>1, <2>1, AliveAnswers
    <2> DEFINE untold == Unexplained(a) \/ (IsResult(a) /\ ~a.payload)
    <2>3. CASE untold
      <3>1. l = Arrived(w, a)
        BY <2>2, <2>3 DEF LastActivityHandleIqID
      <3>2. Bare(w, a)
        <4>1. w.op \in Direct("lastactivity")
          BY <1>1, <2>1, RequestOf DEF Linkage
        <4> QED  BY <2>3, <4>1 DEF Direct, Bare, WantsPayload, WantsReason
      <3> QED  BY <2>1, <2>2, <3>1, <3>2, UntoldKeeps DEF Listening
    <2>4. CASE ~untold
      <3>1. l = ListenerTold(Arrived(w, a), "lastactivity", w)
        BY <2>2, <2>4 DEF LastActivityHandleIqID
      <3> QED  BY <2>1, <2>2, <3>1, ListenerToldKeeps DEF Listening
    <2> QED  BY <2>3, <2>4
  <1>6. CASE RoomAnswer
    <2>1. PICK w \in lib.wire, a \in Answers :
             /\ Arrives(w, a, "muc")
             /\ \E l \in IF "muc" \in lib.dead THEN {Ruined(lib, "dead", "muc")}
                         ELSE RoomHandleIqID(Arrived(w, a), w, a) : lib' = Untracked(l, w)
      BY <1>6 DEF RoomAnswer, Answer, Arrives, Services, Rooms
    <2>2. PICK l \in RoomHandleIqID(Arrived(w, a), w, a) : lib' = Untracked(l, w)
      BY <1>1, <2>1, AliveAnswers
    <2> DEFINE untold ==
                 \/ w.op = "SendRoomConfig"
                 \/ IsResult(a) /\ w.op = "StoreOwnerList"
                 \/ IsResult(a) /\ ~a.payload /\ w.op \in {"RequestRoomConfig", "RequestList"}
    <2>3. CASE untold
      <3>1. l = Arrived(w, a)
        BY <2>2, <2>3 DEF RoomHandleIqID
      <3>2. w.op \in NeverTold \/ Bare(w, a)
        BY <2>3 DEF Bare, WantsPayload, NeverTold
      <3> QED  BY <2>1, <2>2, <3>1, <3>2, UntoldKeeps DEF Listening
    <2>4. CASE ~untold
      <3>1. l = ListenerTold(Arrived(w, a), "muc", w)
        BY <2>2, <2>4 DEF RoomHandleIqID
      <3> QED  BY <2>1, <2>2, <3>1, ListenerToldKeeps DEF Listening
    <2> QED  BY <2>3, <2>4
  <1> QED  BY <1>2, <1>3, <1>4, <1>5, <1>6

\* A unique room tells nobody; it takes its name and joins.
LEMMA UniqueRoomAnswerKeeps ==
    ASSUME Inv, UniqueRoomAnswer
    PROVE  Inv'
  <1>1. Intact /\ Types /\ Linkage /\ uses' = uses
    BY DEF UniqueRoomAnswer, Answer, Inv
  <1>2. PICK w \in lib.wire, a \in Answers :
           /\ Arrives(w, a, "uniqueroom")
           /\ \E l \in IF "uniqueroom" \in lib.dead THEN {Ruined(lib, "dead", "uniqueroom")}
                       ELSE UniqueRoomHandleIqID(Arrived(w, a), w, a) : lib' = Untracked(l, w)
    BY DEF UniqueRoomAnswer, Answer, Arrives, Services, Rooms
  <1> DEFINE k == Arrived(w, a)
  <1>3. PICK l \in UniqueRoomHandleIqID(k, w, a) : lib' = Untracked(l, w)
    BY <1>1, <1>2, AliveAnswers
  <1>4. Start(k, w)
    BY <1>1, ArrivedIs
  <1>5. \A e \in lib.stray : e.op = "CheckAdhocSupport"
    BY DEF Inv, ToldOnlyWhoWaits
  <1> HIDE DEF k
  <1>6. \/ l = Ruined(k, "renamed", "uniqueroom") \/ l = Ruined(k, "joinedUnasked", "uniqueroom")
        \/ l = k
        \/ l = [k EXCEPT !.joined = @ \cup {"uniqueroom"}, !.creating = @ \cup {"uniqueroom"}]
    BY DEF UniqueRoomHandleIqID
  <1>7. CASE \/ l = Ruined(k, "renamed", "uniqueroom")
             \/ l = Ruined(k, "joinedUnasked", "uniqueroom")
    <2>1. Reduced(k)
      BY <1>4, <1>5 DEF Start, Reduced
    <2> QED  BY <1>1, <1>3, <1>7, <2>1, RuinsKeep DEF Ruins
  <1>8. CASE \/ l = k
             \/ l = [k EXCEPT !.joined = @ \cup {"uniqueroom"}, !.creating = @ \cup {"uniqueroom"}]
    <2>1. /\ Record(l) /\ l.next = lib.next /\ l.tracks = lib.tracks /\ l.wire = lib.wire \ {w}
          /\ l.dead = lib.dead /\ l.deaf = lib.deaf /\ l.ruin = lib.ruin /\ l.silent = k.silent
          /\ l.stray = lib.stray /\ l.table = lib.table /\ l.nodes = lib.nodes
          /\ l.open = lib.open
      <3>1. CASE l = k
        BY <1>4, <3>1 DEF Start
      <3>2. CASE l = [k EXCEPT !.joined = @ \cup {"uniqueroom"}, !.creating = @ \cup {"uniqueroom"}]
        BY <1>4, <3>2 DEF Start, Record
      <3> QED  BY <1>8, <3>1, <3>2
    <2>2. Outcome(l, w) /\ Without(l, w)
      BY <1>3, <1>4, <1>5, <2>1, UntrackedIs DEF Outcome, Start
    <2>3. w.op \in Direct("uniqueroom")
      BY <1>1, <1>2, RequestOf DEF Linkage
    <2>4. \A x \in lib.table : x.id # w.id
      BY <1>1, <1>2, <2>3, OnlyItsOwn DEF Entry, Own, Storages, Rooms
    <2>5. Shrunk
      BY <1>1, <2>2 DEF Shrunk, Less, Outcome, Without, Types
    <2>6. ASSUME NEW q \in lib.open, q.id = w.id
          PROVE  ~Due(q)'
      <3>1. Due(q) => q.service = "uniqueroom" /\ q.op = w.op
        BY <1>1, <1>2, <2>3, <2>6, OnlyItsOwn
      <3>2. w.op \notin RoomDisco
        BY <2>3 DEF Direct, RoomDisco, RoomOps, Rooms
      <3>3. ~Due(q)
        BY <3>1, <3>2 DEF Due, Tells, RoomDisco
      <3> QED  BY <2>5, <3>3, ShrunkSays
    <2>7. ~Lost' => \A n \in l.nodes : n.id = w.id => NodeForgotten(n)'
      BY <1>1, <1>2, <2>1, <2>5, NodesOfOthers
    <2>8. "uniqueroom" \in Services
      BY DEF Services, Rooms
    <2> QED  BY <1>2, <2>1, <2>2, <2>3, <2>4, <2>6, <2>7, <2>8, DirectHandled
  <1> QED  BY <1>6, <1>7, <1>8

\* An answer that nobody tracks goes nowhere, and nobody waits for it who could be told.
LEMMA UntrackedAnswerKeeps ==
    ASSUME Inv, UntrackedAnswer
    PROVE  Inv'
  <1>1. Intact /\ Types /\ Linkage /\ uses' = uses
    BY DEF UntrackedAnswer, Inv
  <1>2. PICK w \in lib.wire : /\ \A t \in lib.tracks : t.id # w.id
                              /\ lib' = [lib EXCEPT !.wire = @ \ {w}]
    BY DEF UntrackedAnswer
  <1>3. /\ Record(lib') /\ lib'.next = lib.next /\ lib'.ruin = lib.ruin /\ lib'.stray = lib.stray
        /\ lib'.tracks = lib.tracks /\ lib'.wire = lib.wire \ {w} /\ lib'.nodes = lib.nodes
        /\ lib'.silent = lib.silent /\ lib'.table = lib.table /\ lib'.open = lib.open
        /\ lib'.dead = lib.dead /\ lib'.deaf = lib.deaf
    BY <1>1, <1>2 DEF Types, Record
  <1>4. Shrunk
    BY <1>1, <1>3 DEF Shrunk, Less, Types
  <1>5. Handled(w)
    <2>1. \A e \in lib'.stray : e.op = "CheckAdhocSupport"
      BY <1>3 DEF Inv, ToldOnlyWhoWaits
    <2> QED  BY <1>2, <1>3, <1>4, <2>1 DEF Handled
  <1>6. NoneLeft(w)
    <2>1. \A q \in lib.open : q.id = w.id => ~Linked(q)
      BY <1>2 DEF Linked
    <2> QED  BY <1>1, <1>3, <1>4, <2>1, ShrunkSays DEF NoneLeft, Linkage, OnItsWay
  <1>7. FetchHandled(w)
    <2>1. w.op \notin AdhocDisco
      BY <1>1, <1>2 DEF Linkage, ThroughDisco
    <2>2. Unchecked => \A q \in lib'.open : q.op = "FetchAdhocCommands" => q \in lib'.table
      BY <1>1, <1>3 DEF Linkage, Fetches
    <2> QED  BY <2>1, <2>2 DEF FetchHandled, AdhocDisco
  <1>8. NothingLeft(w)
    <2>1. \A x \in lib.table : x.id # w.id
      BY <1>1, <1>2 DEF Linkage, Tracked
    <2>2. ASSUME ~Lost', NEW n \in lib'.nodes, n.id = w.id
          PROVE  NodeForgotten(n)'
      <3>1. ~NodeKept(n)
        BY <2>1, <2>2 DEF NodeKept
      <3>2. NodeForgotten(n)
        BY <1>1, <1>3, <1>4, <2>2, <3>1, ShrunkSays DEF Linkage, Keeping
      <3> QED  BY <1>4, <3>2, ShrunkSays
    <2> QED  BY <1>3, <2>1, <2>2 DEF NothingLeft
  <1> QED  BY <1>1, <1>5, <1>6, <1>7, <1>8, HandledKeeps

\* With the connection all answers are lost, and whoever waits for one has an excuse.
LEMMA LoseConnectionKeeps ==
    ASSUME Inv, LoseConnection
    PROVE  Inv'
  <1>1. Intact /\ Types /\ Linkage /\ uses' = uses /\ lib.wire # {}
    BY DEF LoseConnection, Inv
  <1> DEFINE lost == {[op |-> w.op, remote |-> w.remote, type |-> "lost"] : w \in lib.wire}
  <1>2. /\ Record(lib') /\ lib'.next = lib.next /\ lib'.ruin = lib.ruin /\ lib'.stray = lib.stray
        /\ lib'.tracks = lib.tracks /\ lib'.wire = {} /\ lib'.nodes = lib.nodes
        /\ lib'.silent = lib.silent \cup lost /\ lib'.table = lib.table /\ lib'.open = lib.open
        /\ lib'.dead = lib.dead /\ lib'.deaf = lib.deaf
    BY <1>1 DEF LoseConnection, Types, Record
  <1>3. lost \subseteq [op : uses, remote : AllRemotes, type : {"removed", "bare", "lost"}]
    BY <1>1 DEF Types
  <1>4. \A w \in lib.wire : [op |-> w.op, remote |-> w.remote, type |-> "lost"] \in lib'.silent
    BY <1>2
  <1> HIDE DEF lost
  <1>5. Shrunk
    BY <1>1, <1>2, <1>3 DEF Shrunk, Less, Types
  <1>6. \A w \in lib.wire : Excused(w.op, w.remote)'
    BY <1>4 DEF Excused
  <1>7. Types' /\ Fresh' /\ Alike' /\ Routed'
    BY <1>1, <1>5, ShrunkBasics DEF Linkage
  <1>8. Tracked' /\ Gone' /\ ThroughDisco'
    BY <1>1, <1>2 DEF Linkage, Tracked, Gone, ThroughDisco
  <1>9. Awaited'
    <2>1. ASSUME NEW x \in lib'.table
          PROVE  OwnAwaited(x)' /\ StorageAwaited(x)' /\ DiscoAwaited(x)'
      <3>1. OwnAwaited(x) /\ StorageAwaited(x) /\ DiscoAwaited(x)
        BY <1>1, <1>2 DEF Linkage, Awaited
      <3> QED  BY <1>2, <3>1 DEF OwnAwaited, StorageAwaited, DiscoAwaited, Waiter
    <2> QED  BY <1>2, <2>1 DEF Awaited
  <1>10. OnItsWay'
    <2>1. SUFFICES ASSUME NEW q \in lib'.open, Due(q)'
          PROVE  FALSE
      BY DEF OnItsWay
    <2>2. Linked(q)
      BY <1>1, <1>2, <1>5, <2>1, ShrunkSays DEF Linkage, OnItsWay
    <2>3. Excused(q.op, q.remote)'
      BY <1>6, <2>2 DEF Linked
    <2> QED  BY <2>1, <2>3 DEF Due
  <1>11. Fetches'
    <2>1. SUFFICES ASSUME Unchecked
          PROVE  /\ \A x \in lib'.table :
                       x.service = "adhoc" /\ x.op = "FetchAdhocCommands" => x \in lib'.open
                 /\ \A q \in lib'.open : q.op = "FetchAdhocCommands" => q \in lib'.table
                 /\ \A s \in AllRemotes :
                       \/ Excused("FetchAdhocCommands", s)'
                       \/ Cardinality(Fetching(s)') <= Coming("FetchAdhocCommands", s)'
      BY <1>5, ShrunkSays DEF Fetches, Fetching
    <2>2. ASSUME NEW s \in AllRemotes, ~Excused("FetchAdhocCommands", s)'
          PROVE  Cardinality(Fetching(s)') <= Coming("FetchAdhocCommands", s)'
      <3>1. Cardinality(Fetching(s)) <= Coming("FetchAdhocCommands", s)
        BY <1>1, <1>5, <2>1, <2>2, ShrunkSays DEF Linkage, Fetches
      <3>2. \A w \in lib.wire : ~(w.op = "FetchAdhocCommands" /\ w.remote = s)
        BY <1>6, <2>2
      <3>3. {w \in lib.wire : w.op = "FetchAdhocCommands" /\ w.remote = s}
              = {w \in lib'.wire : w.op = "FetchAdhocCommands" /\ w.remote = s}
        BY <1>2, <3>2
      <3>4. Coming("FetchAdhocCommands", s)' = Coming("FetchAdhocCommands", s)
        BY <3>3 DEF Coming
      <3>5. Fetching(s)' = Fetching(s)
        BY <1>2 DEF Fetching
      <3> QED  BY <3>1, <3>4, <3>5
    <2> QED  BY <1>1, <1>2, <2>1, <2>2 DEF Linkage, Fetches
  <1>12. Keeping'
    <2>1. PICK w \in lib.wire : TRUE
      BY <1>1
    <2>2. Lost'
      BY <1>4, <2>1 DEF Lost
    <2> QED  BY <2>2 DEF Keeping
  <1>13. RuinedOnlyBy' /\ ToldOnlyWhoWaits'
    BY <1>2 DEF Inv, RuinedOnlyBy, ToldOnlyWhoWaits
  <1> QED  BY <1>7, <1>8, <1>9, <1>10, <1>11, <1>12, <1>13 DEF Inv, Linkage

(***************************************************************************)
(* The answers of discovery, which other services ask as well.             *)
(***************************************************************************)
\* What has the id of the request is the entry of discovery, or one of ad-hoc commands.
LEMMA DiscoEntries ==
    ASSUME Types, Linkage, NEW w, NEW a, Arrives(w, a, "disco")
    PROVE  /\ \A x \in lib.table : x.id = w.id =>
                 /\ x.op = w.op /\ x.remote = w.remote
                 /\ x.service = "disco" \/ (x.service = "adhoc" /\ x.op \in AdhocDisco)
           /\ \A x \in lib.table, y \in lib.table :
                 x.id = w.id /\ y.id = w.id /\ x.service = y.service => x = y
           /\ \A q \in lib.open : q.id = w.id =>
                 /\ q.op = w.op /\ q.remote = w.remote
                 /\ Due(q) => \E x \in lib.table :
                                 /\ x.id = w.id /\ x.service = "disco"
                                 /\ IF q.op \in Behind(q.service) THEN x.handler = q.service
                                    ELSE x = q
           /\ w.op \in AdhocDisco =>
                 \E x \in lib.table : x.id = w.id /\ x.service = "disco" /\ x.handler = "adhoc"
  <1>1. w \in lib.wire /\ [id |-> w.id, ih |-> "disco"] \in lib.tracks
    BY DEF Arrives
  <1>2. ASSUME NEW x \in lib.table, x.id = w.id
        PROVE  /\ x.op = w.op /\ x.remote = w.remote
               /\ x.service = "disco" \/ (x.service = "adhoc" /\ x.op \in AdhocDisco)
    <2>1. x.op = w.op /\ x.remote = w.remote
      BY <1>1, <1>2 DEF Linkage, Alike
    <2>2. [id |-> x.id, ih |-> Channel(x.service, x.op)] \in lib.tracks
      BY <1>1, <1>2 DEF Linkage, Tracked
    <2>3. [id |-> x.id, ih |-> Channel(x.service, x.op)] = [id |-> w.id, ih |-> "disco"]
      BY <1>1, <1>2, <2>2 DEF Linkage, Alike
    <2>4. Channel(x.service, x.op) = "disco"
      BY <2>3
    <2>5. CASE For(x)
      BY <2>1, <2>5 DEF For
    <2>6. CASE Entry(x)
      <3>1. x.service \in Own \cup Storages
        BY <2>6 DEF Entry
      <3> QED  BY <2>1, <2>4, <3>1 DEF Channel, Behind, Rooms, Own, Storages
    <2> QED  BY <2>5, <2>6 DEF Linkage, Routed
  <1>3. \A x \in lib.table, y \in lib.table :
           x.id = w.id /\ y.id = w.id /\ x.service = y.service => x = y
    BY DEF Linkage, Alike
  <1>4. ASSUME NEW q \in lib.open, q.id = w.id
        PROVE  /\ q.op = w.op /\ q.remote = w.remote
               /\ Due(q) => \E x \in lib.table :
                               /\ x.id = w.id /\ x.service = "disco"
                               /\ IF q.op \in Behind(q.service) THEN x.handler = q.service
                                  ELSE x = q
    <2>1. /\ q.op = w.op /\ q.remote = w.remote
          /\ Due(q) => Linked(q) /\ "disco" = Channel(q.service, q.op)
      BY <1>4, WhoIsMeant
    <2>2. ASSUME Due(q)
          PROVE  \E x \in lib.table :
                    /\ x.id = w.id /\ x.service = "disco"
                    /\ IF q.op \in Behind(q.service) THEN x.handler = q.service ELSE x = q
      <3>1. CASE q.op \in Behind(q.service)
        <4>1. [service |-> "disco", id |-> q.id, handler |-> q.service,
               op |-> q.op, remote |-> q.remote] \in lib.table
          BY <2>1, <2>2, <3>1 DEF Linked
        <4> QED  BY <1>4, <3>1, <4>1
      <3>2. CASE q.op \notin Behind(q.service)
        <4>1. q.service = "disco"
          BY <2>1, <2>2, <3>2 DEF Channel
        <4>2. q \in lib.table
          BY <2>1, <2>2, <4>1 DEF Linked, Own
        <4> QED  BY <1>4, <3>2, <4>1, <4>2
      <3> QED  BY <3>1, <3>2
    <2> QED  BY <2>1, <2>2
  <1>5. w.op \in AdhocDisco =>
           \E x \in lib.table : x.id = w.id /\ x.service = "disco" /\ x.handler = "adhoc"
    <2>1. ASSUME w.op \in AdhocDisco
          PROVE  [service |-> "disco", id |-> w.id, handler |-> "adhoc",
                  op |-> w.op, remote |-> w.remote] \in lib.table
      BY <1>1, <2>1 DEF Linkage, ThroughDisco
    <2> QED  BY <2>1
  <1> QED  BY <1>2, <1>3, <1>4, <1>5

\* The tables when an answer of discovery is handled: its entry is gone, some requests of
\* ad-hoc commands with it, and some of those who wait.
DiscoOutcome(l, w) ==
    /\ Record(l) /\ l.next = lib.next /\ l.tracks = lib.tracks /\ l.wire = lib.wire \ {w}
    /\ l.dead = lib.dead /\ l.deaf = lib.deaf /\ l.ruin = lib.ruin /\ l.nodes = lib.nodes
    /\ lib.silent \subseteq l.silent
    /\ l.silent \subseteq [op : uses, remote : AllRemotes, type : {"removed", "bare", "lost"}]
    /\ \A e \in l.stray : e.op = "CheckAdhocSupport"
    /\ l.table \subseteq lib.table /\ l.open \subseteq lib.open
    /\ \A x \in l.table : ~(x.id = w.id /\ x.service = "disco")
    /\ \A x \in lib.table \ l.table :
          \/ x.id = w.id /\ x.service = "disco"
          \/ x.service = "adhoc" /\ (x \notin l.open \/ ~Unchecked)
    /\ \A q \in lib.open \ l.open :
          \/ q.id = w.id /\ q \notin l.table
          \/ q.service = "adhoc" /\ (q \notin l.table \/ q.op = "CheckAdhocSupport")

LEMMA DiscoHandled ==
    ASSUME Inv, NEW w, NEW a, Arrives(w, a, "disco"), NEW l, DiscoOutcome(l, w), Without(l, w),
           \A q \in l.open : q.id = w.id => ~Due(q)',
           Unchecked /\ w.op = "FetchAdhocCommands" =>
              \/ Excused("FetchAdhocCommands", w.remote)'
              \/ Fetching(w.remote) = {}
              \/ \E x \in Fetching(w.remote) : x \notin l.table
    PROVE  Inv'
  <1> USE DEF Without
  <1>1. Types /\ Linkage /\ Intact /\ w \in lib.wire /\ uses' = uses
    BY DEF Inv, Arrives
  <1>2. Shrunk
    BY <1>1 DEF Shrunk, Less, DiscoOutcome, Types
  <1>3. Handled(w)
    BY <1>2 DEF Handled, DiscoOutcome
  <1>4. NoneLeft(w)
    <2>1. \A q \in lib'.open : q.id = w.id => ~Due(q)'
      OBVIOUS
    <2>2. \A x \in lib'.table : ~(x.id = w.id /\ For(x))
      BY DEF DiscoOutcome, For
    <2>3. ASSUME NEW q \in lib.open \ lib'.open
          PROVE  /\ q.service \in Own => q \notin lib'.table \/ q.op = "CheckAdhocSupport"
                 /\ q.service \in Storages => q \notin lib'.table
                 /\ q.service \in Listening => q.id = w.id
      BY DEF DiscoOutcome, Own, Storages, Listening
    <2> QED  BY <2>1, <2>2, <2>3 DEF NoneLeft
  <1>5. FetchHandled(w)
    <2>1. ASSUME Unchecked, NEW q \in lib'.open, q.op = "FetchAdhocCommands"
          PROVE  q \in lib'.table
      <3>1. q \in lib.open /\ q \in lib.table
        BY <1>1, <2>1 DEF Linkage, Fetches, DiscoOutcome
      <3>2. q.service # "disco"
        BY <1>1, <2>1, <3>1 DEF Linkage, Routed, Plain, Direct, Behind, Rooms
      <3> QED  BY <2>1, <3>1, <3>2 DEF DiscoOutcome
    <2> QED  BY <2>1 DEF FetchHandled
  <1>6. NothingLeft(w)
    <2>1. ASSUME NEW x \in lib'.table, x.id = w.id
          PROVE  Forgotten(x)' \/ (x.service = "adhoc" /\ x.op = "FetchAdhocCommands")
      <3>1. x.service = "adhoc" /\ x.op \in AdhocDisco /\ x.op = w.op
        BY <1>1, <2>1, DiscoEntries DEF DiscoOutcome
      <3>2. w.op \in uses
        BY <1>1, RequestOf DEF Linkage
      <3> QED  BY <1>1, <3>1, <3>2 DEF AdhocDisco, Forgotten
    <2>2. ~Lost' => \A n \in lib'.nodes : n.id = w.id => NodeForgotten(n)'
      BY <1>1, <1>2, NodesOfOthers DEF DiscoOutcome
    <2> QED  BY <2>1, <2>2 DEF NothingLeft
  <1> QED  BY <1>1, <1>3, <1>4, <1>5, <1>6, HandledKeeps

\* The tables before the entry of discovery is erased: some entries of ad-hoc commands are
\* gone, and those who are told wait no more.
Midway(m, k, w, some, told) ==
    /\ Record(m) /\ m.next = lib.next /\ m.tracks = lib.tracks /\ m.wire = lib.wire \ {w}
    /\ m.dead = lib.dead /\ m.deaf = lib.deaf /\ m.ruin = lib.ruin /\ m.nodes = lib.nodes
    /\ m.silent = k.silent /\ \A s \in m.stray : s.op = "CheckAdhocSupport"
    /\ m.table = lib.table \ some /\ m.open = lib.open \ told
    /\ \A x \in some : x.service = "adhoc" /\ (x \notin m.open \/ ~Unchecked)
BareSaid(k, w) == [op |-> w.op, remote |-> w.remote, type |-> "bare"] \in k.silent

LEMMA EntryHandled ==
    ASSUME Inv, NEW w, NEW a, Arrives(w, a, "disco"), NEW k, k = Arrived(w, a),
           NEW e \in lib.table, e.id = w.id, e.service = "disco",
           NEW m, NEW some, NEW told, Midway(m, k, w, some, told),
           lib' = Untracked(Erased(m, e), w),
           \A q \in told \cap lib.open : \/ q.id = w.id /\ (q = e \/ q \notin lib.table)
                                         \/ /\ q.service = "adhoc"
                                            /\ q \in some \/ q.op = "CheckAdhocSupport",
           \/ w.op \in NeverTold \/ BareSaid(k, w)
           \/ \A q \in lib.open \ told : q.id = w.id => ~Due(q),
           Unchecked /\ w.op = "FetchAdhocCommands" =>
              \/ BareSaid(k, w)
              \/ Fetching(w.remote) = {}
              \/ \E x \in Fetching(w.remote) : x \in some
    PROVE  Inv'
  <1> DEFINE l == Erased(m, e)
  <1>1. Types /\ Linkage /\ Intact /\ w \in lib.wire /\ uses' = uses /\ a \in Answers
    BY DEF Inv, Arrives
  <1>2. Start(k, w)
    BY <1>1, ArrivedIs
  <1>3. e \in m.table
    BY DEF Midway
  <1>4. l = [m EXCEPT !.table = @ \ {e}]
    BY <1>3 DEF Erased
  <1> HIDE DEF l
  <1>5. /\ Record(l) /\ l.next = lib.next /\ l.tracks = lib.tracks /\ l.wire = lib.wire \ {w}
        /\ l.dead = lib.dead /\ l.deaf = lib.deaf /\ l.ruin = lib.ruin /\ l.nodes = lib.nodes
        /\ l.silent = k.silent /\ l.stray = m.stray /\ l.open = lib.open \ told
        /\ l.table = (lib.table \ some) \ {e}
    BY <1>4 DEF Midway, Record
  <1>6. Without(l, w)
    BY <1>5, UntrackedIs DEF l
  <1>7. DiscoOutcome(l, w)
    <2>1. \A x \in l.table : ~(x.id = w.id /\ x.service = "disco")
      BY <1>1, <1>5, DiscoEntries
    <2>2. \A x \in lib.table \ l.table :
             \/ x.id = w.id /\ x.service = "disco"
             \/ x.service = "adhoc" /\ (x \notin l.open \/ ~Unchecked)
      BY <1>5 DEF Midway
    <2>3. \A q \in lib.open \ l.open :
             \/ q.id = w.id /\ q \notin l.table
             \/ q.service = "adhoc" /\ (q \notin l.table \/ q.op = "CheckAdhocSupport")
      BY <1>5
    <2>4. lib.silent \subseteq l.silent /\ \A s \in l.stray : s.op = "CheckAdhocSupport"
      BY <1>2, <1>5 DEF Start, Midway
    <2>5. l.silent \subseteq [op : uses, remote : AllRemotes, type : {"removed", "bare", "lost"}]
      BY <1>2, <1>5 DEF Start
    <2>6. l.table \subseteq lib.table /\ l.open \subseteq lib.open
      BY <1>5
    <2> QED  BY <1>5, <2>1, <2>2, <2>3, <2>4, <2>5, <2>6 DEF DiscoOutcome
  <1>8. Shrunk
    BY <1>1, <1>6, <1>7 DEF Shrunk, Less, DiscoOutcome, Without, Types
  <1>9. BareSaid(k, w) => Excused(w.op, w.remote)'
    BY <1>5, <1>6 DEF BareSaid, Excused, Without
  <1>10. \A q \in l.open : q.id = w.id => ~Due(q)'
    <2>1. CASE w.op \in NeverTold \/ BareSaid(k, w)
      <3>1. Excused(w.op, w.remote)'
        BY <1>9, <2>1 DEF Excused
      <3>2. \A q \in lib.open : q.id = w.id => q.op = w.op /\ q.remote = w.remote
        BY <1>1, DiscoEntries
      <3> QED  BY <1>5, <3>1, <3>2 DEF Due
    <2>2. CASE \A q \in lib.open \ told : q.id = w.id => ~Due(q)
      BY <1>5, <1>8, <2>2, ShrunkSays
    <2> QED  BY <2>1, <2>2
  <1>11. Unchecked /\ w.op = "FetchAdhocCommands" =>
            \/ Excused("FetchAdhocCommands", w.remote)'
            \/ Fetching(w.remote) = {}
            \/ \E x \in Fetching(w.remote) : x \notin l.table
    BY <1>5, <1>9
  <1> QED  BY <1>6, <1>7, <1>10, <1>11, DiscoHandled

\* Nobody is told.
LEMMA DiscoUntoldKeeps ==
    ASSUME Inv, NEW w, NEW a, Arrives(w, a, "disco"), NEW k, k = Arrived(w, a),
           NEW e \in lib.table, e.id = w.id, e.service = "disco",
           lib' = Untracked(Erased(k, e), w),
           w.op \in NeverTold \/ BareSaid(k, w) \/ \A q \in lib.open : q.id = w.id => ~Due(q),
           Unchecked /\ w.op = "FetchAdhocCommands" =>
              BareSaid(k, w) \/ Fetching(w.remote) = {}
    PROVE  Inv'
  <1>1. Types /\ a \in Answers /\ w \in lib.wire
    BY DEF Inv, Arrives
  <1>2. Start(k, w)
    BY <1>1, ArrivedIs
  <1>3. \A s \in lib.stray : s.op = "CheckAdhocSupport"
    BY DEF Inv, ToldOnlyWhoWaits
  <1>4. Midway(k, k, w, {}, {})
    BY <1>2, <1>3 DEF Start, Midway
  <1> QED  BY <1>4, EntryHandled

\* The entry of a service that is gone, and has left it there.
LEMMA DiscoDeadKeeps ==
    ASSUME Inv, NEW w, NEW a, Arrives(w, a, "disco"), NEW k, k = Arrived(w, a),
           NEW e \in lib.table, e.service = "disco", e.handler \in lib.dead,
           lib' = Untracked(Erased(Ruined(k, "dead", e.handler), e), w)
    PROVE  Inv'
  <1>1. Types /\ Linkage /\ a \in Answers /\ w \in lib.wire /\ UNCHANGED uses
    BY DEF Inv, Arrives
  <1>2. Start(k, w)
    BY <1>1, ArrivedIs
  <1>3. e.handler \in Services
    BY <1>1 DEF Types
  <1>4. For(e)
    BY <1>1, <1>3, HandlersAreNoServices DEF Linkage, Routed, Entry, Plain, WhoAsks, Own
  <1>5. e.handler \in {"adhoc", "flexoff"}
    BY <1>1, <1>4 DEF For, Behind, Linkage, Gone
  <1> DEFINE m == [k EXCEPT !.table = @ \ {e}]
             h == e.handler
             j == Ruined(k, "dead", h)
  <1>6. /\ Record(m) /\ m.next = k.next /\ m.tracks = k.tracks /\ m.wire = k.wire
        /\ m.nodes = k.nodes /\ m.dead = k.dead /\ m.deaf = k.deaf /\ m.open = k.open
        /\ m.stray = k.stray /\ m.silent = k.silent /\ m.table = k.table \ {e}
    BY <1>2, SMTT(30) DEF Start, Record
  <1>7. /\ Record(j) /\ e \in j.table
    BY <1>2 DEF Start, Record, Ruined
  <1>8. Erased(j, e) = Ruined(m, "dead", h)
    <2>1. Erased(j, e) = [j EXCEPT !.table = @ \ {e}]
      BY <1>7 DEF Erased
    <2> QED  BY <1>2, <2>1 DEF Ruined, Start, Record
  <1>9. Reduced(m)
    <2>1. \A s \in lib.stray : s.op = "CheckAdhocSupport"
      BY DEF Inv, ToldOnlyWhoWaits
    <2> HIDE DEF m
    <2> QED  BY <1>2, <1>6, <2>1 DEF Start, Reduced
  <1> HIDE DEF m, j
  <1> QED  BY <1>1, <1>5, <1>8, <1>9, RuinsKeep DEF Ruins, j

\* A handler of the application is told, and may cancel.
LEMMA DiscoOwnTold ==
    ASSUME Inv, NEW w, NEW a, Arrives(w, a, "disco"), NEW k, k = Arrived(w, a),
           NEW e \in lib.table, e.id = w.id, e.service = "disco", ~For(e),
           NEW m \in ToldMayCancel(k, e), lib' = Untracked(Erased(m, e), w)
    PROVE  Inv'
  <1>1. Types /\ Linkage /\ a \in Answers /\ w \in lib.wire /\ UNCHANGED uses
    BY DEF Inv, Arrives
  <1>2. Start(k, w)
    BY <1>1, ArrivedIs
  <1>3. \A s \in lib.stray : s.op = "CheckAdhocSupport"
    BY DEF Inv, ToldOnlyWhoWaits
  <1>4. Plain(e) /\ e.op \notin AdhocDisco /\ e.op = w.op
    <2>1. Plain(e) /\ e.op = w.op
      BY <1>1, DiscoEntries DEF Linkage, Routed, Entry
    <2> QED  BY <2>1 DEF Plain, Direct, Behind, Rooms, AdhocDisco
  <1>5. e \in lib.open
    BY <1>1, <1>4 DEF Linkage, Awaited, OwnAwaited, Own, AdhocDisco
  <1>6. \A q \in lib.open : q.id = e.id => q = e
    BY <1>1, <1>5 DEF Linkage, Alike
  <1>7. Told(k, e) = [k EXCEPT !.open = @ \ {e}]
    BY <1>2, <1>5, <1>6, ToldIs DEF Start
  <1>8. PICK j : j = Told(k, e)
    OBVIOUS
  <1>9. /\ Record(j) /\ j.next = lib.next /\ j.tracks = lib.tracks /\ j.wire = lib.wire \ {w}
        /\ j.dead = lib.dead /\ j.deaf = lib.deaf /\ j.ruin = lib.ruin /\ j.nodes = lib.nodes
        /\ j.silent = k.silent /\ j.stray = lib.stray /\ j.table = lib.table
        /\ j.open = lib.open \ {e}
    BY <1>2, <1>7, <1>8 DEF Start, Record
  <1>10. CASE m = j
    <2>1. Midway(j, k, w, {}, {e})
      BY <1>3, <1>9 DEF Midway
    <2>2. \A q \in lib.open \ {e} : q.id = w.id => ~Due(q)
      BY <1>6
    <2> QED  BY <1>4, <1>10, <2>1, <2>2, EntryHandled DEF AdhocDisco
  <1>11. CASE m = Cancelled(j, "disco", e.handler)
    <2>1. /\ Record(m) /\ m.next = lib.next /\ m.tracks = lib.tracks /\ m.wire = lib.wire \ {w}
          /\ m.dead = lib.dead /\ m.deaf = lib.deaf /\ m.nodes = lib.nodes
          /\ m.silent = k.silent /\ m.stray = lib.stray /\ m.table \subseteq lib.table
          /\ m.open \subseteq lib.open /\ e \notin m.table
      BY <1>9, <1>11 DEF Cancelled, Record
    <2>2. Erased(m, e) = Ruined(m, "erasedTwice", "disco")
      BY <2>1 DEF Erased
    <2>3. Reduced(m)
      BY <1>2, <1>3, <2>1 DEF Start, Reduced
    <2> QED  BY <1>1, <2>2, <2>3, RuinsKeep DEF Ruins
  <1> QED  BY <1>8, <1>10, <1>11 DEF ToldMayCancel

\* The only listener of a service is told.
LEMMA DiscoListenerTold ==
    ASSUME Inv, NEW w, NEW a, Arrives(w, a, "disco"), NEW k, k = Arrived(w, a),
           NEW e \in lib.table, e.id = w.id, e.service = "disco", For(e),
           e.handler \in {"flexoff"} \cup Rooms, e.handler \notin lib.dead,
           lib' = Untracked(Erased(ListenerTold(k, e.handler, w), e), w)
    PROVE  Inv'
  <1> DEFINE s == e.handler
             q0 == Waiter(s, w.id, w.op, w.remote)
  <1>1. Types /\ Linkage /\ a \in Answers /\ w \in lib.wire
    BY DEF Inv, Arrives
  <1>2. Start(k, w)
    BY <1>1, ArrivedIs
  <1>3. \A t \in lib.stray : t.op = "CheckAdhocSupport"
    BY DEF Inv, ToldOnlyWhoWaits
  <1>4. e.op = w.op /\ e.remote = w.remote /\ w.op \in Behind(s) /\ s \in Listening
    BY <1>1, DiscoEntries DEF For, Listening, Rooms
  <1>5. w.op \notin AdhocDisco
    BY <1>4 DEF Behind, AdhocDisco, FlexDisco, RoomDisco, Rooms
  <1>6. CASE s \in lib.deaf
    <2>1. ListenerTold(k, s, w) = k
      BY <1>2, <1>6 DEF ListenerTold, Start
    <2>2. ASSUME NEW q \in lib.open, q.id = w.id, Due(q)
          PROVE  FALSE
      <3>1. PICK x \in lib.table : /\ x.id = w.id /\ x.service = "disco"
                                   /\ IF q.op \in Behind(q.service) THEN x.handler = q.service
                                      ELSE x = q
        BY <1>1, <2>2, DiscoEntries
      <3>2. x = e
        BY <1>1, <3>1, DiscoEntries
      <3>3. q # e
        BY <1>1, HandlersAreNoServices DEF Linkage, Routed, Plain, WhoAsks, Own, For
      <3>4. q.service = s
        BY <3>1, <3>2, <3>3
      <3> QED  BY <1>1, <1>6, <3>4 DEF Linkage, Gone
    <2> QED  BY <1>5, <2>1, <2>2, DiscoUntoldKeeps DEF AdhocDisco
  <1>7. CASE s \notin lib.deaf
    <2>1. q0 \in lib.open
      <3>1. DiscoAwaited(e)
        BY <1>1 DEF Linkage, Awaited
      <3> QED  BY <1>4, <1>7, <3>1 DEF DiscoAwaited
    <2>2. q0.id = w.id /\ \A q \in lib.open : q.id = w.id => q = q0
      BY <1>1, <2>1 DEF Linkage, Alike, Waiter
    <2> DEFINE m == ListenerTold(k, s, w)
    <2>3. m = Told(k, q0)
      BY <1>2, <1>7 DEF ListenerTold, Start, Waiter
    <2>4. q0 \notin lib.table
      <3>1. q0.service = s /\ s \notin Own \cup Storages /\ s # "disco"
        BY <1>4 DEF Waiter, Listening, Own, Storages
      <3> HIDE DEF q0
      <3> QED  BY <1>1, <3>1 DEF Linkage, Routed, For, Entry
    <2> HIDE DEF m, q0
    <2>5. m = [k EXCEPT !.open = @ \ {q0}]
      BY <1>2, <2>1, <2>2, <2>3, ToldIs DEF Start
    <2>6. Midway(m, k, w, {}, {q0})
      BY <1>2, <1>3, <2>5 DEF Start, Midway, Record
    <2>7. \A q \in lib.open \ {q0} : q.id = w.id => ~Due(q)
      BY <2>2
    <2> QED  BY <1>5, <2>2, <2>4, <2>6, <2>7, EntryHandled DEF AdhocDisco, m
  <1> QED  BY <1>6, <1>7

\* An error is told to some of those that fit.
SomeTold(l, some) ==
    [l EXCEPT !.table = @ \ some, !.open = @ \ some, !.stray = @ \cup (some \ l.open)]

LEMMA AdhocErrorIs ==
    ASSUME NEW l, NEW w, SameAsked(l, w) # {}, NEW m \in AdhocHandleDiscoError(l, w)
    PROVE  \E some \in SUBSET SameAsked(l, w) : some # {} /\ m = SomeTold(l, some)
  <1>1. AdhocHandleDiscoError(l, w) = {SomeTold(l, some) : some \in (SUBSET SameAsked(l, w)) \ {{}}}
    BY DEF AdhocHandleDiscoError, SomeTold
  <1> QED  BY <1>1

\* Ad-hoc commands are told: of an error all that fit, or some of them, of a result one.
LEMMA DiscoAdhocTold ==
    ASSUME Inv, NEW w, NEW a, Arrives(w, a, "disco"), NEW k, k = Arrived(w, a),
           NEW e \in lib.table, e.id = w.id, e.service = "disco", For(e), e.handler = "adhoc",
           NEW m, \/ m \in AdhocHandleDiscoError(k, w)
                  \/ w.op = "CheckAdhocSupport" /\ m \in AdhocHandleDiscoInfo(k, w)
                  \/ w.op # "CheckAdhocSupport" /\ m \in AdhocHandleDiscoItems(k, w),
           lib' = Untracked(Erased(m, e), w)
    PROVE  Inv'
  <1>1. Types /\ Linkage /\ a \in Answers /\ w \in lib.wire
    BY DEF Inv, Arrives
  <1>2. Start(k, w)
    BY <1>1, ArrivedIs
  <1>3. \A s \in lib.stray : s.op = "CheckAdhocSupport"
    BY DEF Inv, ToldOnlyWhoWaits
  <1>4. e.op = w.op /\ w.op \in AdhocDisco /\ w.op \in uses
    <2>1. e.op = w.op /\ e.op \in Behind("adhoc")
      BY <1>1, DiscoEntries DEF For
    <2> QED  BY <1>1, <2>1, RequestOf DEF Behind, Rooms, Linkage
  <1>5. w.op = "CheckAdhocSupport" => ~Unchecked
    BY <1>4 DEF Unchecked
  <1>6. \A q \in lib.open : q.id = w.id => ~Due(q)
    <2>1. SUFFICES ASSUME NEW q \in lib.open, q.id = w.id
          PROVE  ~Due(q)
      OBVIOUS
    <2>2. q.op = w.op
      BY <1>1, <2>1, DiscoEntries
    <2> QED  BY <1>4, <2>2 DEF Due, Excused, AdhocDisco
  <1>7. \A x \in AdhocEntries(k) : /\ x \in lib.table /\ x.service = "adhoc" /\ Plain(x)
                                   /\ x.op # "CheckAdhocSupport" => x \in lib.open
    <2>1. SUFFICES ASSUME NEW x \in AdhocEntries(k)
          PROVE  /\ x \in lib.table /\ x.service = "adhoc" /\ Plain(x)
                 /\ x.op # "CheckAdhocSupport" => x \in lib.open
      OBVIOUS
    <2>2. x \in lib.table /\ x.service = "adhoc"
      BY <1>2 DEF AdhocEntries, Start
    <2>3. Plain(x)
      BY <1>1, <2>2 DEF Linkage, Routed, For, Entry
    <2> QED  BY <1>1, <2>2, <2>3 DEF Linkage, Awaited, OwnAwaited, Own
  <1>8. \A x \in SameAsked(k, w) : x \in AdhocEntries(k) /\ x.op = w.op /\ x.remote = w.remote
    BY DEF SameAsked
  <1>9. ASSUME SameAsked(k, w) = {}
        PROVE  w.op = "FetchAdhocCommands" => Fetching(w.remote) = {}
    BY <1>2, <1>9 DEF SameAsked, AdhocEntries, Fetching, IsFetch, Start
  <1>10. CASE m = k
    <2>1. ASSUME Unchecked, w.op = "FetchAdhocCommands"
          PROVE  SameAsked(k, w) = {}
      <3>1. CASE m \in AdhocHandleDiscoError(k, w)
        <4>1. SUFFICES ASSUME NEW some \in SUBSET SameAsked(k, w), some # {},
                              m = SomeTold(k, some)
              PROVE  FALSE
          BY <3>1, AdhocErrorIs
        <4>2. m.table = k.table \ some
          BY <1>2, <4>1 DEF Start, Record, SomeTold
        <4>3. some \subseteq k.table
          BY <1>2, <1>7, <1>8 DEF Start
        <4> QED  BY <1>10, <4>1, <4>2, <4>3
      <3>2. CASE m \in AdhocHandleDiscoItems(k, w)
        <4>1. SUFFICES ASSUME NEW x \in SameAsked(k, w), m = AdhocTold(k, x, w)
              PROVE  FALSE
          BY <3>2 DEF AdhocHandleDiscoItems, AdhocOneOf
        <4> DEFINE j == Told(k, [x EXCEPT !.op = w.op, !.remote = w.remote])
        <4>2. j.table = k.table /\ Record(j)
          BY <1>2 DEF Told, Start, Record
        <4> HIDE DEF j
        <4>3. m = [j EXCEPT !.table = @ \ {x}]
          BY <4>1 DEF AdhocTold, j
        <4>4. x \notin m.table
          BY <4>2, <4>3 DEF Record
        <4>5. x \in k.table
          BY <1>2, <1>7, <1>8 DEF Start
        <4> QED  BY <1>10, <4>4, <4>5
      <3> QED  BY <2>1, <3>1, <3>2
    <2> QED  BY <1>6, <1>9, <1>10, <2>1, DiscoUntoldKeeps
  <1>11. CASE m \in AdhocHandleDiscoError(k, w) /\ m # k
    <2>1. PICK some \in SUBSET SameAsked(k, w) : some # {} /\ m = SomeTold(k, some)
      <3>1. SameAsked(k, w) # {}
        BY <1>11 DEF AdhocHandleDiscoError
      <3> QED  BY <1>11, <3>1, AdhocErrorIs
    <2>2. \A x \in some : /\ x \in AdhocEntries(k) /\ x.op = w.op /\ x.remote = w.remote
                          /\ x \in lib.table /\ x.service = "adhoc"
                          /\ x.op # "CheckAdhocSupport" => x \in lib.open
      BY <1>7, <1>8
    <2>3. /\ Record(m) /\ m.next = lib.next /\ m.tracks = lib.tracks /\ m.wire = lib.wire \ {w}
          /\ m.dead = lib.dead /\ m.deaf = lib.deaf /\ m.ruin = lib.ruin /\ m.nodes = lib.nodes
          /\ m.silent = k.silent /\ m.stray = lib.stray \cup (some \ lib.open)
          /\ m.table = lib.table \ some /\ m.open = lib.open \ some
      BY <1>2, <2>1 DEF Start, Record, SomeTold
    <2>4. \A s \in m.stray : s.op = "CheckAdhocSupport"
      BY <1>3, <2>2, <2>3
    <2>5. Midway(m, k, w, some, some)
      BY <2>2, <2>3, <2>4 DEF Midway
    <2>6. w.op = "FetchAdhocCommands" => \E x \in Fetching(w.remote) : x \in some
      <3>1. PICK x \in some : TRUE
        BY <2>1
      <3>2. w.op = "FetchAdhocCommands" => x \in Fetching(w.remote)
        BY <2>2, <3>1 DEF Fetching, IsFetch
      <3> QED  BY <3>1, <3>2
    <2> QED  BY <1>6, <2>2, <2>5, <2>6, EntryHandled
  <1>12. ASSUME NEW x \in AdhocEntries(k), m = AdhocTold(k, x, w),
                w.op = "CheckAdhocSupport" \/ (x.op = w.op /\ x.remote = w.remote)
         PROVE  Inv'
    <2> DEFINE y == [x EXCEPT !.op = w.op, !.remote = w.remote]
    <2>1. x \in lib.table /\ x.service = "adhoc" /\ x \in Request
      BY <1>1, <1>7, <1>12 DEF Types
    <2>2. y.op = w.op /\ y.service = "adhoc" /\ (x.op = w.op /\ x.remote = w.remote => y = x)
      BY <2>1 DEF Request
    <2> HIDE DEF y
    <2>3. PICK j : j = Told(k, y)
      OBVIOUS
    <2>4. m = [j EXCEPT !.table = @ \ {x}]
      BY <1>12, <2>3 DEF AdhocTold, y
    <2>5. CASE w.op = "CheckAdhocSupport"
      <3>1. PICK told : /\ told \subseteq {q \in lib.open : q.service = "adhoc" /\ q.op = w.op}
                        /\ \/ j = [k EXCEPT !.stray = @ \cup {y}] /\ told = {}
                           \/ j = [k EXCEPT !.open = @ \ told]
        <4> DEFINE waiting == {q \in k.open : <<q.service, q.handler, q.op, q.remote>>
                                                = <<y.service, y.handler, y.op, y.remote>>}
                   own == {q \in waiting : q.id = y.id}
        <4>1. CASE waiting = {}
          <5>1. j = [k EXCEPT !.stray = @ \cup {y}]
            BY <2>3, <4>1 DEF Told
          <5> QED  BY <5>1
        <4>2. CASE waiting # {}
          <5> DEFINE p0 == CHOOSE q \in IF own # {} THEN own ELSE waiting : TRUE
          <5>1. j = [k EXCEPT !.open = @ \ {p0}]
            BY <2>3, <4>2 DEF Told
          <5>2. p0 \in waiting
            BY <4>2
          <5>3. {p0} \subseteq {p \in lib.open : p.service = "adhoc" /\ p.op = w.op}
            BY <1>2, <2>2, <5>2 DEF Start
          <5> QED  BY <5>1, <5>3
        <4> QED  BY <4>1, <4>2
      <3>2. /\ Record(j) /\ j.next = lib.next /\ j.tracks = lib.tracks /\ j.wire = lib.wire \ {w}
            /\ j.dead = lib.dead /\ j.deaf = lib.deaf /\ j.ruin = lib.ruin /\ j.nodes = lib.nodes
            /\ j.silent = k.silent /\ j.table = lib.table /\ j.open = lib.open \ told
            /\ j.stray \subseteq lib.stray \cup {y}
        <4>1. CASE j = [k EXCEPT !.stray = @ \cup {y}] /\ told = {}
          BY <1>2, <4>1 DEF Start, Record
        <4>2. CASE j = [k EXCEPT !.open = @ \ told]
          BY <1>2, <4>2 DEF Start, Record
        <4> QED  BY <3>1, <4>1, <4>2
      <3>3. Midway(m, k, w, {x}, told)
        <4>1. \A s \in j.stray : s.op = "CheckAdhocSupport"
          BY <1>3, <2>2, <2>5, <3>2
        <4> QED  BY <1>5, <2>1, <2>4, <2>5, <3>2, <4>1 DEF Midway, Record
      <3> QED  BY <1>6, <2>5, <3>1, <3>3, EntryHandled
    <2>6. CASE w.op # "CheckAdhocSupport"
      <3>1. w.op = "FetchAdhocCommands" /\ y = x /\ x \in lib.open
        BY <1>4, <1>7, <1>12, <2>2, <2>6 DEF AdhocDisco
      <3>2. \A q \in lib.open : q.id = x.id => q = x
        BY <1>1, <3>1 DEF Linkage, Alike
      <3>3. j = [k EXCEPT !.open = @ \ {x}]
        BY <1>2, <2>3, <3>1, <3>2, ToldIs DEF Start
      <3>4. /\ Record(j) /\ j.next = lib.next /\ j.tracks = lib.tracks /\ j.wire = lib.wire \ {w}
            /\ j.dead = lib.dead /\ j.deaf = lib.deaf /\ j.ruin = lib.ruin /\ j.nodes = lib.nodes
            /\ j.silent = k.silent /\ j.table = lib.table /\ j.open = lib.open \ {x}
            /\ j.stray = lib.stray
        BY <1>2, <3>3 DEF Start, Record
      <3>5. Midway(m, k, w, {x}, {x})
        BY <1>3, <2>1, <2>4, <3>4 DEF Midway, Record
      <3>6. x \in Fetching(w.remote)
        BY <1>12, <2>1, <2>6, <3>1 DEF Fetching, IsFetch
      <3> QED  BY <1>6, <2>1, <3>5, <3>6, EntryHandled
    <2> QED  BY <2>5, <2>6
  <1>13. CASE w.op = "CheckAdhocSupport" /\ m \in AdhocHandleDiscoInfo(k, w) /\ m # k
    <2>1. PICK x \in AdhocEntries(k) : m = AdhocTold(k, x, w)
      BY <1>13 DEF AdhocHandleDiscoInfo, AdhocOneOf
    <2> QED  BY <1>12, <1>13, <2>1
  <1>14. CASE m \in AdhocHandleDiscoItems(k, w) /\ m # k
    <2>1. PICK x \in SameAsked(k, w) : m = AdhocTold(k, x, w)
      BY <1>14 DEF AdhocHandleDiscoItems, AdhocOneOf
    <2> QED  BY <1>8, <1>12, <2>1
  <1> QED  BY <1>10, <1>11, <1>13, <1>14

LEMMA DiscoAnswerKeeps ==
    ASSUME Inv, DiscoAnswer
    PROVE  Inv'
  <1>1. Intact /\ Types /\ Linkage
    BY DEF DiscoAnswer, Answer, Inv
  <1>2. PICK w \in lib.wire, a \in Answers :
           /\ Arrives(w, a, "disco")
           /\ \E l \in IF "disco" \in lib.dead THEN {Ruined(lib, "dead", "disco")}
                       ELSE DiscoHandleIqID(Arrived(w, a), w, a) : lib' = Untracked(l, w)
    BY DEF DiscoAnswer, Answer, Arrives, Services
  <1> DEFINE k == Arrived(w, a)
  <1>3. PICK l \in DiscoHandleIqID(k, w, a) : lib' = Untracked(l, w)
    BY <1>1, <1>2, AliveAnswers
  <1>4. Start(k, w) /\ (Bare(w, a) => BareSaid(k, w))
    BY <1>1, ArrivedIs DEF BareSaid
  <1> HIDE DEF k
  <1>5. \A s \in lib.stray : s.op = "CheckAdhocSupport"
    BY DEF Inv, ToldOnlyWhoWaits
  <1>6. CASE Entries(k, "disco", w) = {}
    <2>1. l = k
      BY <1>3, <1>6 DEF DiscoHandleIqID
    <2>2. \A x \in lib.table : ~(x.id = w.id /\ x.service = "disco")
      BY <1>4, <1>6 DEF Entries, Start
    <2>3. DiscoOutcome(l, w) /\ Without(l, w)
      BY <1>3, <1>4, <1>5, <2>1, <2>2, UntrackedIs DEF DiscoOutcome, Start
    <2>4. Shrunk
      BY <1>1, <1>2, <2>3 DEF Shrunk, Less, DiscoOutcome, Without, Types, Arrives
    <2>5. \A q \in l.open : q.id = w.id => ~Due(q)'
      BY <1>1, <1>2, <2>2, <2>3, <2>4, DiscoEntries, ShrunkSays DEF DiscoOutcome
    <2>6. w.op \notin AdhocDisco
      BY <1>1, <1>2, <2>2, DiscoEntries
    <2> QED  BY <1>2, <2>3, <2>5, <2>6, DiscoHandled DEF AdhocDisco
  <1>7. CASE Entries(k, "disco", w) # {}
    <2>1. PICK e \in Entries(k, "disco", w) :
             \E m \in IF IsResult(a) /\ ~a.payload THEN {k} ELSE DiscoTold(k, e, w, a) :
                l = Erased(m, e)
      BY <1>3, <1>7 DEF DiscoHandleIqID
    <2>2. PICK m \in IF IsResult(a) /\ ~a.payload THEN {k} ELSE DiscoTold(k, e, w, a) :
             l = Erased(m, e)
      BY <2>1
    <2>3. e \in lib.table /\ e.id = w.id /\ e.service = "disco" /\ k.dead = lib.dead
      BY <1>4, <2>2 DEF Entries, Start
    <2>4. For(e) \/ Entry(e)
      BY <1>1, <2>3 DEF Linkage, Routed
    <2>5. e.op = w.op /\ w.op \in uses
      BY <1>1, <1>2, <2>3, DiscoEntries, RequestOf DEF Linkage
    <2>6. w.op \in {"GetDiscoInfo", "GetDiscoItems"} \cup AdhocDisco \cup FlexDisco \cup RoomDisco
      BY <2>3, <2>4, <2>5 DEF For, Entry, Plain, Direct, Behind, Rooms
    <2>7. CASE IsResult(a) /\ ~a.payload
      <3>1. m = k
        BY <2>2, <2>7
      <3>2. CASE w.op \in WantsPayload
        BY <1>2, <1>3, <1>4, <2>2, <2>3, <2>7, <3>1, <3>2, DiscoUntoldKeeps DEF Bare, k
      <3>3. CASE w.op \in FlexDisco
        BY <1>2, <1>3, <2>2, <2>3, <3>1, <3>3, DiscoUntoldKeeps DEF FlexDisco, NeverTold, k
      <3>4. CASE w.op = "CheckAdhocSupport"
        <4>1. \A q \in lib.open : q.id = w.id => ~Due(q)
          BY <2>5, <3>4 DEF Due, Excused
        <4> QED  BY <1>2, <1>3, <2>2, <2>3, <3>1, <3>4, <4>1, DiscoUntoldKeeps DEF k
      <3> QED  BY <2>6, <3>2, <3>3, <3>4 DEF WantsPayload, AdhocDisco, RoomDisco
    <2>8. CASE ~(IsResult(a) /\ ~a.payload)
      <3>1. m \in DiscoTold(k, e, w, a)
        BY <2>2, <2>8
      <3>2. CASE e.handler \in lib.dead
        <4>1. m = Ruined(k, "dead", e.handler)
          BY <2>3, <3>1, <3>2 DEF DiscoTold
        <4> QED  BY <1>2, <1>3, <2>2, <2>3, <3>2, <4>1, DiscoDeadKeeps DEF k
      <3>3. CASE e.handler \notin lib.dead /\ ~For(e)
        <4>1. e.handler \notin Services
          BY <2>3, <2>4, <3>3, HandlersAreNoServices DEF Entry, Plain, WhoAsks, Own
        <4>2. m \in ToldMayCancel(k, e)
          BY <2>3, <3>1, <3>3, <4>1 DEF DiscoTold, Services
        <4> QED  BY <1>2, <1>3, <2>2, <2>3, <3>3, <4>2, DiscoOwnTold DEF k
      <3>4. CASE e.handler \notin lib.dead /\ For(e) /\ e.handler = "adhoc"
        <4>1. \/ m \in AdhocHandleDiscoError(k, w)
              \/ w.op = "CheckAdhocSupport" /\ m \in AdhocHandleDiscoInfo(k, w)
              \/ w.op # "CheckAdhocSupport" /\ m \in AdhocHandleDiscoItems(k, w)
          BY <2>3, <3>1, <3>4 DEF DiscoTold, Rooms
        <4> QED  BY <1>2, <1>3, <2>2, <2>3, <3>4, <4>1, DiscoAdhocTold DEF k
      <3>5. CASE e.handler \notin lib.dead /\ For(e) /\ e.handler # "adhoc"
        <4>1. e.handler \in {"flexoff"} \cup Rooms
          BY <3>5 DEF For, Behind
        <4>2. CASE m = ListenerTold(k, e.handler, w)
          BY <1>2, <1>3, <2>2, <2>3, <3>5, <4>1, <4>2, DiscoListenerTold DEF k
        <4>3. CASE m = k /\ e.handler = "flexoff"
          <5>1. w.op \in FlexDisco
            BY <2>5, <3>5, <4>3 DEF For, Behind, Rooms
          <5> QED  BY <1>2, <1>3, <2>2, <2>3, <4>3, <5>1, DiscoUntoldKeeps
                   DEF FlexDisco, NeverTold, k
        <4> QED  BY <2>3, <3>1, <3>5, <4>1, <4>2, <4>3
                 DEF DiscoTold, FlexOffHandleDisco, RoomHandleDisco, Rooms
      <3> QED  BY <3>2, <3>3, <3>4, <3>5
    <2> QED  BY <2>7, <2>8
  <1> QED  BY <1>6, <1>7

(***************************************************************************)
(* The answers of publish-subscribe.                                       *)
(***************************************************************************)
LEMMA PubSubAnswerKeeps ==
    ASSUME Inv, PubSubAnswer
    PROVE  Inv'
  <1>1. Intact /\ Types /\ Linkage /\ uses' = uses
    BY DEF PubSubAnswer, Answer, Inv
  <1>2. PICK w \in lib.wire, a \in Answers :
           /\ Arrives(w, a, "pubsub")
           /\ \E l \in IF "pubsub" \in lib.dead THEN {Ruined(lib, "dead", "pubsub")}
                       ELSE PubSubHandleIqID(Arrived(w, a), w, a) : lib' = Untracked(l, w)
    BY DEF PubSubAnswer, Answer, Arrives, Services
  <1> DEFINE k == Arrived(w, a)
  <1>3. \A s \in lib.stray : s.op = "CheckAdhocSupport"
    BY DEF Inv, ToldOnlyWhoWaits
  <1>4. CASE "pubsub" \in lib.dead
    <2>1. lib' = Untracked(Ruined(lib, "dead", "pubsub"), w)
      BY <1>2, <1>4
    <2>2. Reduced(lib)
      BY <1>1, <1>3 DEF Types, Reduced
    <2> QED  BY <1>1, <2>1, <2>2, RuinsKeep DEF Ruins
  <1>5. CASE "pubsub" \notin lib.dead
    <2>1. PICK l \in PubSubHandleIqID(k, w, a) : lib' = Untracked(l, w)
      BY <1>2, <1>5
    <2>2. Start(k, w) /\ (Bare(w, a) => [op |-> w.op, remote |-> w.remote, type |-> "bare"] \in k.silent)
      BY <1>1, ArrivedIs
    <2> HIDE DEF k
    <2>3. w.op \in Direct("pubsub") /\ "pubsub" \in Services
      BY <1>1, <1>2, RequestOf DEF Linkage, Services
    <2>4. \A x \in lib.table : x.id = w.id => x.service = "pubsub" /\ Entry(x) /\ x.op = w.op
      BY <1>1, <1>2, <2>3, OnlyItsOwn DEF Rooms
    <2>5. \A q \in lib.open : q.id = w.id => /\ q.op = w.op /\ q.remote = w.remote
                                             /\ Due(q) => q.service = "pubsub" /\ Linked(q)
      BY <1>1, <1>2, <2>3, OnlyItsOwn
    <2>6. CASE Entries(k, "pubsub", w) = {}
      <3>1. l = k
        BY <2>1, <2>6 DEF PubSubHandleIqID
      <3>2. \A x \in lib.table : x.id # w.id
        BY <2>2, <2>4, <2>6 DEF Entries, Start
      <3>3. Outcome(l, w) /\ Without(l, w)
        BY <1>3, <2>1, <2>2, <3>1, UntrackedIs DEF Outcome, Start
      <3>4. Shrunk
        BY <1>1, <3>3 DEF Shrunk, Less, Outcome, Without, Types
      <3>5. \A q \in lib.open : q.id = w.id => ~Due(q)'
        <4>1. \A q \in lib.open : q.id = w.id => ~Due(q)
          BY <2>5, <3>2 DEF Linked, Own
        <4> QED  BY <3>4, <4>1, ShrunkSays
      <3>6. ASSUME ~Lost', NEW n \in l.nodes, n.id = w.id
            PROVE  NodeForgotten(n)'
        <4>1. n \in lib.nodes /\ ~NodeKept(n)
          BY <2>2, <3>1, <3>2, <3>6 DEF NodeKept, Start
        <4>2. NodeForgotten(n)
          BY <1>1, <3>4, <3>6, <4>1, ShrunkSays DEF Linkage, Keeping
        <4> QED  BY <3>4, <4>2, ShrunkSays
      <3>7. l.table = lib.table /\ l.open = lib.open
        BY <2>2, <3>1 DEF Start
      <3> QED  BY <1>2, <2>3, <3>2, <3>3, <3>5, <3>6, <3>7, DirectHandled
    <2>7. CASE Entries(k, "pubsub", w) # {}
      <3>1. PICK e \in Entries(k, "pubsub", w) : l \in PubSubTold([k EXCEPT !.table = @ \ {e}], e, a)
        BY <2>1, <2>7 DEF PubSubHandleIqID
      <3>2. PICK j : j = [k EXCEPT !.table = @ \ {e}]
        OBVIOUS
      <3>3. e \in lib.table /\ e.id = w.id /\ e.service = "pubsub" /\ e.op = w.op /\ Plain(e)
        BY <2>2, <2>4, <3>1 DEF Entries, Start, Entry
      <3>4. /\ Record(j) /\ j.next = lib.next /\ j.tracks = lib.tracks /\ j.wire = lib.wire \ {w}
            /\ j.dead = lib.dead /\ j.deaf = lib.deaf /\ j.ruin = lib.ruin /\ j.nodes = lib.nodes
            /\ j.silent = k.silent /\ j.stray = lib.stray /\ j.open = lib.open
            /\ j.table = lib.table \ {e}
        BY <2>2, <3>2 DEF Start, Record
      <3>5. \A x \in lib.table : x.id = w.id => x = e
        BY <1>1, <2>4, <3>3 DEF Linkage, Alike
      <3>6. e \in lib.open
        <4>1. w.op # "CheckAdhocSupport"
          BY <2>3, DirectOrBehind DEF AdhocDisco
        <4> QED  BY <1>1, <3>3, <4>1 DEF Linkage, Awaited, OwnAwaited, Own
      <3>7. \A q \in lib.open : q.id = w.id => q = e
        BY <1>1, <3>3, <3>6 DEF Linkage, Alike
      <3>8. Told(j, e) = [j EXCEPT !.open = @ \ {e}]
        BY <3>3, <3>4, <3>6, <3>7, ToldIs
      <3>9. PICK t : t = Told(j, e)
        OBVIOUS
      <3>10. /\ Record(t) /\ t.next = lib.next /\ t.tracks = lib.tracks /\ t.wire = lib.wire \ {w}
             /\ t.dead = lib.dead /\ t.deaf = lib.deaf /\ t.ruin = lib.ruin /\ t.nodes = lib.nodes
             /\ t.silent = k.silent /\ t.stray = lib.stray /\ t.open = lib.open \ {e}
             /\ t.table = lib.table \ {e}
        BY <3>4, <3>8, <3>9 DEF Record
      <3>11. lib.table \ {e} = {x \in lib.table : x.id # w.id}
             /\ lib.open \ {e} = {q \in lib.open : q.id # w.id}
        BY <3>3, <3>5, <3>6, <3>7
      <3> DEFINE node == [id |-> e.id, op |-> e.op]
      <3>12. \A n \in lib.nodes : n.id = w.id => n = node
        <4>1. ASSUME NEW n \in lib.nodes, n.id = w.id
              PROVE  n = node
          <5>1. n.op = e.op
            BY <1>1, <3>3, <4>1 DEF Linkage, Alike
          <5>2. n = [id |-> n.id, op |-> n.op]
            BY <1>1 DEF Types
          <5> QED  BY <3>3, <4>1, <5>1, <5>2
        <4> QED  BY <4>1
      <3>13. ASSUME l.silent = k.silent, l.stray = lib.stray,
                    Record(l), l.next = lib.next, l.tracks = lib.tracks, l.wire = lib.wire \ {w},
                    l.dead = lib.dead, l.deaf = lib.deaf, l.ruin = lib.ruin,
                    l.table = lib.table \ {e}, l.nodes = lib.nodes \/ l.nodes = lib.nodes \ {node},
                    \/ l.open = lib.open \ {e}
                    \/ l.open = lib.open /\ (w.op \in NeverTold \/ Bare(w, a) \/ ~Due(e)),
                    \/ node \notin l.nodes
                    \/ w.op \in {"Subscription", "GetSubscriberList", "GetAffiliateList"}
             PROVE  Inv'
        <4>1. l.nodes \subseteq lib.nodes /\ \A n \in lib.nodes \ l.nodes : n.id = w.id
          BY <3>3, <3>13
        <4>2. Outcome(l, w) /\ Without(l, w)
          BY <1>3, <2>1, <2>2, <3>11, <3>13, <4>1, UntrackedIs DEF Outcome, Start
        <4>3. Shrunk
          BY <1>1, <4>2 DEF Shrunk, Less, Outcome, Without, Types
        <4>4. l.open = lib.open => \A q \in lib.open : q.id = w.id => ~Due(q)'
          <5>1. CASE w.op \in NeverTold \/ Bare(w, a)
            <6>1. w.op \in NeverTold \/ [op |-> w.op, remote |-> w.remote, type |-> "bare"] \in lib'.silent
              BY <2>2, <3>13, <4>2, <5>1 DEF Without
            <6>2. Excused(w.op, w.remote)'
              BY <6>1 DEF Excused
            <6> QED  BY <2>5, <6>2 DEF Due
          <5>2. CASE ~Due(e)
            BY <3>7, <4>3, <5>2, ShrunkSays
          <5>3. CASE l.open = lib.open \ {e}
            BY <3>6, <5>3
          <5> QED  BY <3>13, <5>1, <5>2, <5>3
        <4>5. \A q \in lib.open \ l.open : q \notin l.table
          BY <3>13
        <4>6. \A n \in l.nodes : n.id = w.id => NodeForgotten(n)'
          BY <3>3, <3>12, <3>13, <4>1 DEF NodeForgotten
        <4>7. l.table # lib.table
          BY <3>3, <3>13
        <4> QED  BY <1>2, <2>3, <4>2, <4>4, <4>5, <4>6, <4>7, DirectHandled
      <3>14. CASE e.op \in NodeTold /\ node \notin lib.nodes
        <4>1. l = j
          BY <3>1, <3>2, <3>4, <3>14 DEF PubSubTold
        <4>2. w.op \in NeverTold \/ ~Due(e)
          <5>1. CASE w.op \in NodeNoted
            BY <2>5, <3>3, <3>6, <3>14, <5>1 DEF Linked
          <5>2. CASE w.op \notin NodeNoted
            BY <3>3, <3>14, <5>2 DEF NodeTold, NodeNoted, NeverTold
          <5> QED  BY <5>1, <5>2
        <4> QED  BY <3>4, <3>13, <3>14, <4>1, <4>2
      <3>15. CASE e.op \in NodeTold /\ node \in lib.nodes
        <4>1. l \in {[t EXCEPT !.nodes = @ \ {node}], Ruined(t, "stuck", "pubsub")}
          BY <3>1, <3>2, <3>4, <3>9, <3>15 DEF PubSubTold
        <4>2. CASE l = [t EXCEPT !.nodes = @ \ {node}]
          <5> HIDE DEF node
          <5>1. /\ Record(l) /\ l.next = lib.next /\ l.tracks = lib.tracks /\ l.wire = lib.wire \ {w}
                /\ l.dead = lib.dead /\ l.deaf = lib.deaf /\ l.ruin = lib.ruin
                /\ l.silent = k.silent /\ l.stray = lib.stray /\ l.open = lib.open \ {e}
                /\ l.table = lib.table \ {e} /\ l.nodes = lib.nodes \ {node}
            BY <3>10, <4>2 DEF Record
          <5> QED  BY <3>13, <5>1
        <4>3. CASE l = Ruined(t, "stuck", "pubsub")
          <5>1. Reduced(t)
            BY <1>3, <2>2, <3>10 DEF Start, Reduced
          <5> QED  BY <1>1, <2>1, <4>3, <5>1, RuinsKeep DEF Ruins
        <4> QED  BY <4>1, <4>2, <4>3
      <3>16. CASE e.op \notin NodeTold
        <4>1. /\ (e.op = "Unsubscription" \/ (e.op \in PayloadTold /\ a.payload)) => l = t
              /\ ~(e.op = "Unsubscription" \/ (e.op \in PayloadTold /\ a.payload)) => l = j
          BY <3>1, <3>2, <3>9, <3>16 DEF PubSubTold
        <4>2. ~(e.op = "Unsubscription" \/ (e.op \in PayloadTold /\ a.payload)) =>
                 w.op \in NeverTold \/ Bare(w, a)
          <5>1. w.op \in PayloadTold => w.op \in WantsPayload
            BY DEF WantsPayload
          <5>2. w.op \in NeverTold \cup PayloadTold \cup {"Unsubscription"}
            BY <2>3, <3>3, <3>16 DEF Direct, Rooms, PubSubOps, NodeNoted, NodeTold, NeverTold, PayloadTold
          <5> QED  BY <3>3, <5>1, <5>2 DEF Bare
        <4>3. \/ node \notin lib.nodes
              \/ w.op \in {"Subscription", "GetSubscriberList", "GetAffiliateList"}
          <5>1. node \in lib.nodes => w.op \in NodeNoted
            BY <1>1, <3>3 DEF Types
          <5> QED  BY <3>3, <3>16, <5>1 DEF NodeNoted, NodeTold
        <4>4. CASE l = t
          BY <3>10, <3>13, <4>3, <4>4
        <4>5. CASE l = j /\ (w.op \in NeverTold \/ Bare(w, a))
          BY <3>4, <3>13, <4>3, <4>5
        <4> QED  BY <4>1, <4>2, <4>4, <4>5
      <3> QED  BY <3>14, <3>15, <3>16
    <2> QED  BY <2>6, <2>7
  <1> QED  BY <1>4, <1>5

(***************************************************************************)
(* The theorems.                                                           *)
(***************************************************************************)
LEMMA NextKeeps ==
    ASSUME Inv, Next
    PROVE  Inv'
  <1>1. CASE Operation
    BY <1>1, OperationsKeep
  <1>2. CASE Withdrawal
    BY <1>2, WithdrawalsKeep
  <1>3. CASE Handling
    BY <1>3, TableAnswersKeep, ListenerAnswersKeep, UniqueRoomAnswerKeeps, UntrackedAnswerKeeps,
       DiscoAnswerKeeps, PubSubAnswerKeeps DEF Handling
  <1>4. CASE LoseConnection
    BY <1>4, LoseConnectionKeeps
  <1> QED  BY <1>1, <1>2, <1>3, <1>4 DEF Next

LEMMA InvStutters ==
    ASSUME Inv, UNCHANGED vars
    PROVE  Inv'
  <1> USE DEF vars
  <1>1. Types'
    BY DEF Inv, Types, Record, Request
  <1>2. RuinedOnlyBy' /\ ToldOnlyWhoWaits'
    BY DEF Inv, RuinedOnlyBy, ToldOnlyWhoWaits
  <1>3. Intact' => Linkage'
    <2>1. SUFFICES ASSUME Intact
          PROVE  Linkage'
      BY DEF Intact
    <2>2. Linkage
      BY <2>1 DEF Inv
    <2>3. Fresh' /\ Alike' /\ Routed' /\ Tracked' /\ Gone'
      BY <2>2 DEF Linkage, Fresh, Alike, Routed, Tracked, Gone
    <2>4. Awaited'
      BY <2>2 DEF Linkage, Awaited, OwnAwaited, StorageAwaited, DiscoAwaited, TrackAwaited
    <2>5. OnItsWay'
      BY <2>2 DEF Linkage, OnItsWay, Due, Excused, Linked
    <2>6. Fetches'
      BY <2>2 DEF Linkage, Fetches, Unchecked, Excused, Fetching, Coming
    <2>7. ThroughDisco' /\ Keeping'
      BY <2>2 DEF Linkage, ThroughDisco, Keeping, Lost, Pending, NodeForgotten, NodeKept,
                  Forgotten, EntryKept
    <2> QED  BY <2>3, <2>4, <2>5, <2>6, <2>7 DEF Linkage
  <1> QED  BY <1>1, <1>2, <1>3 DEF Inv

LEMMA InvAlways == Spec => []Inv
  <1>1. Inv /\ [Next]_vars => Inv'
    BY NextKeeps, InvStutters
  <1> QED  BY <1>1, InvStart, PTL DEF Spec

\* Whatever is answered, cancelled and destroyed in whatever order, an answer gets to
\* somebody who waits for it and to nobody else: what handleIqID of the services, the tables
\* they look it up in and the ids that ClientBase tracks do for a request that send(IQ&,
\* IqHandler*, int) made.
THEOREM AnswersGetThere == Spec => []AnswersReach
  BY InvAlways, InvAnswers, PTL

\* While the connection lasts, neither m_iqIDHandlers of ClientBase nor the tables of the
\* services keep anything for a request that is answered, but for what Forgotten and
\* NodeForgotten name.
THEOREM NothingStays == Spec => []NothingKept
  BY InvAlways, InvNothingKept, PTL

\* While no callback destroys its service: a handler is called after its service is gone, an
\* entry erased twice, a mutex taken twice, an error read that is not there, or a room renamed
\* or joined unasked only in the ways that RuinedOnlyBy names.
THEOREM NothingElseRuins == Spec => []RuinedOnlyBy
  <1>1. Inv => RuinedOnlyBy
    BY DEF Inv
  <1> QED  BY <1>1, InvAlways, PTL
=============================================================================
