----------------------------- MODULE IqRequests -----------------------------
(***************************************************************************)
(* The requests of the services of gloox: vCards, search, private XML,     *)
(* discovery, ad-hoc commands, flexible offline retrieval, registration,   *)
(* privacy lists, last activity, ping, publish-subscribe and the rooms of  *)
(* multi-user chat, whose owners configure them.  Each service             *)
(* sends its requests through ClientBase, which remembers for the id of    *)
(* a request which service asked and in what context; most keep a table of *)
(* their own that says for whom.  Ad-hoc commands, offline retrieval and   *)
(* rooms ask the discovery service in turn.                                *)
(*                                                                         *)
(* The others answer in any order, by a result or an error, with or        *)
(* without the payload the service looks for and with or without saying    *)
(* what the error is, or never, when the connection is lost.  Meanwhile    *)
(* the application cancels, takes listeners away and destroys services;    *)
(* within a callback it may cancel or ask for more, and destroys nothing.  *)
(* Callbacks run within the handler that makes them, so a handler is one   *)
(* step, written as an operator on the tables that gives the set of its    *)
(* outcomes.                                                               *)
(***************************************************************************)
EXTENDS Naturals, FiniteSets

CONSTANTS
    Handlers,       \* objects of the application that ask
    Remotes,        \* who is asked
    Uses,           \* sets of operations; an application keeps to one of them
    MaxRequests     \* bound: ids made up

Rooms == {"muc", "uniqueroom"}
Services == {"vcard", "search", "privatexml", "bookmarks", "annotations", "disco", "adhoc",
             "flexoff", "registration", "privacy", "lastactivity", "ping", "pubsub"} \cup Rooms

\* Who asks is no service, but for the services themselves.
ASSUME RequestsAssumption ==
    MaxRequests \in Nat /\ Handlers \cap (Services \cup {"listener"}) = {}

VARIABLES
    uses,           \* what this application does
    lib             \* the tables of the library
vars == <<uses, lib>>

\* tracks is ClientBase's m_iqIDHandlers, table the tables of the services (m_trackMap,
\* m_track, m_adhocTrackMap, m_contextHandlers, m_resultHandlerTrackMap), nodes the
\* m_nopTrackMap of publish-subscribe; wire are the requests not answered yet, next the
\* next id, dead the services that were destroyed and deaf those without a listener.
\* open are the requests whose answer somebody waits for, stray what somebody was told who
\* did not, silent the requests that were lost, removed or answered without what their
\* service looks for, and ruin the
\* undefined behaviour, the deadlock or the loss of a room that ended it all.  Of a room,
\* joined and creating are m_joined and m_creationInProgress: the application has entered the
\* room "muc" and been told that it is new.
Init ==
    /\ uses \in Uses
    /\ lib = [tracks |-> {}, table |-> {}, nodes |-> {}, wire |-> {}, next |-> 1,
              dead |-> {}, deaf |-> {}, open |-> {}, stray |-> {}, silent |-> {},
              joined |-> {"muc"}, creating |-> {"muc"},
              ruin |-> <<"none", "">>]
-----------------------------------------------------------------------------
(***************************************************************************)
(* What the operations call.                                               *)
(***************************************************************************)
\* The application starts to wait.
Opened(l, service, h, op, r) ==
    IF service \in l.deaf THEN l
    ELSE [l EXCEPT !.open = @ \cup
             {[service |-> service, id |-> l.next, handler |-> h, op |-> op, remote |-> r]}]

\* A service notes for whom the next request is.
Kept(l, service, h, op, r) ==
    [l EXCEPT !.table = @ \cup
        {[service |-> service, id |-> l.next, handler |-> h, op |-> op, remote |-> r]}]

\* ClientBase::send: the id is tracked and the request goes out.
Sent(l, ih, op, r) ==
    [l EXCEPT !.tracks = @ \cup {[id |-> l.next, ih |-> ih]},
              !.wire = @ \cup {[id |-> l.next, op |-> op, remote |-> r]},
              !.next = @ + 1]

Noted(l, service, h, op, r) == Kept(Opened(l, service, h, op, r), service, h, op, r)
Asked(l, service, h, op, r) == Sent(Noted(l, service, h, op, r), service, op, r)

\* A service with one listener keeps no table.
ListenerAsked(l, service, op, r) ==
    Sent(Opened(l, service, "listener", op, r), service, op, r)

\* Discovery on behalf of another service, which is told in its context.
DiscoFor(l, dh, op, r) == Sent(Kept(l, "disco", dh, op, r), "disco", op, r)

NodeUnnoted(l, h, op, r) ==      \* mutant: the node of an operation is not noted
    Asked(l, "pubsub", h, op, r)
\* The operation of a node: publish-subscribe notes the node as well.
NodeAsked(l, h, op, r) ==
    [Asked(l, "pubsub", h, op, r) EXCEPT !.nodes = @ \cup {[id |-> l.next, op |-> op]}]

Intact == lib.ruin[1] = "none"
Requests(op, service) ==
    /\ Intact /\ op \in uses /\ lib.next <= MaxRequests /\ service \notin lib.dead
    /\ UNCHANGED uses
Asks(op, service) ==
    /\ Requests(op, service)
    /\ \E h \in Handlers, r \in Remotes : lib' = Asked(lib, service, h, op, r)
ListenerAsks(op, service) ==
    /\ Requests(op, service)
    /\ \E r \in Remotes : lib' = ListenerAsked(lib, service, op, r)
NodeAsks(op) ==
    /\ Requests(op, "pubsub")
    /\ \E h \in Handlers, r \in Remotes : lib' = NodeAsked(lib, h, op, r)
-----------------------------------------------------------------------------
(***************************************************************************)
(* The operations.                                                         *)
(***************************************************************************)
FetchVCard == Asks("FetchVCard", "vcard")
StoreVCard == Asks("StoreVCard", "vcard")

FetchSearchFields == Asks("FetchSearchFields", "search")
SearchForm == Asks("SearchForm", "search")
\* The request is made without the id that is noted: send() makes up another.
SearchFields ==
    /\ Requests("SearchFields", "search")
    /\ \E h \in Handlers, r \in Remotes :
         lib' = Sent([Noted(lib, "search", h, "SearchFields", r) EXCEPT !.next = @ + 1],
                     "search", "SearchFields", r)

RequestXml == Asks("RequestXml", "privatexml")
StoreXml == Asks("StoreXml", "privatexml")
\* Bookmarks and annotations are private XML with themselves for a handler, and one
\* listener each.
StorageAsks(op, service) ==
    /\ Requests(op, service)
    /\ \E r \in Remotes : lib' = Asked(lib, service, "listener", op, r)
StoreBookmarks == StorageAsks("StoreBookmarks", "bookmarks")
RequestBookmarks == StorageAsks("RequestBookmarks", "bookmarks")
StoreAnnotations == StorageAsks("StoreAnnotations", "annotations")
RequestAnnotations == StorageAsks("RequestAnnotations", "annotations")

GetDisco == Asks("GetDiscoInfo", "disco") \/ Asks("GetDiscoItems", "disco")

AdhocThroughDisco(op) ==
    /\ Requests(op, "adhoc")
    /\ \E h \in Handlers, r \in Remotes :
         lib' = DiscoFor(Noted(lib, "adhoc", h, op, r), "adhoc", op, r)
CheckAdhocSupport == AdhocThroughDisco("CheckAdhocSupport")
FetchAdhocCommands == AdhocThroughDisco("FetchAdhocCommands")
ExecuteAdhocCommand == Asks("ExecuteAdhocCommand", "adhoc")

OfflineThroughDisco(op) ==
    /\ Requests(op, "flexoff")
    /\ \E r \in Remotes :
         lib' = DiscoFor(Opened(lib, "flexoff", "listener", op, r), "flexoff", op, r)
FOCheckSupport == OfflineThroughDisco("FOCheckSupport")
FORequestNum == OfflineThroughDisco("FORequestNum")
FORequestHeaders == OfflineThroughDisco("FORequestHeaders")
FOMessageOperation ==
    ListenerAsks("FORequestMsgs", "flexoff") \/ ListenerAsks("FORemoveMsgs", "flexoff")

FetchRegistrationFields == ListenerAsks("FetchRegistrationFields", "registration")
CreateAccount == ListenerAsks("CreateAccount", "registration")
RemoveAccount == ListenerAsks("RemoveAccount", "registration")

PrivacyOperation ==
    \E op \in {"PLRequestNames", "PLRequestList", "PLDefault", "PLUnsetDefault",
               "PLActivate", "PLUnsetActivate", "PLRemove"} : ListenerAsks(op, "privacy")
PrivacyStore == ListenerAsks("PLStore", "privacy")

LastActivityQuery == ListenerAsks("LastActivity", "lastactivity")
XmppPing == Asks("XMPPPing", "ping")

GetSubscriptionsOrAffiliations ==
    Asks("GetSubscriptionList", "pubsub") \/ Asks("GetAffiliationList", "pubsub")
Subscribe == NodeAsks("Subscription")
Unsubscribe == Asks("Unsubscription", "pubsub")
SubscriptionOptions ==
    Asks("GetSubscriptionOptions", "pubsub") \/ Asks("SetSubscriptionOptions", "pubsub")
RequestItems == Asks("RequestItems", "pubsub")
PublishItem == Asks("PublishItem", "pubsub")
DeleteItem == Asks("DeleteItem", "pubsub")
CreateNode == NodeAsks("CreateNode")
DeleteNode == NodeAsks("DeleteNode")
GetDefaultNodeConfig == Asks("DefaultNodeConfig", "pubsub")
NodeConfig == Asks("GetNodeConfig", "pubsub") \/ Asks("SetNodeConfig", "pubsub")
SubscriberLists == NodeAsks("GetSubscriberList") \/ NodeAsks("SetSubscriberList")
AffiliateLists == NodeAsks("GetAffiliateList") \/ NodeAsks("SetAffiliateList")
PurgeNode == NodeAsks("PurgeNodeItems")

\* A room: MUCRoom, or UniqueMUCRoom, which asks the service for a name to join under.
RoomRequests(op, room) == Requests(op, room) /\ room \in lib.joined
RoomAsked(l, room, op) == ListenerAsked(l, room, op, "room")
RoomAsks(op) ==
    \E room \in Rooms : RoomRequests(op, room) /\ lib' = RoomAsked(lib, room, op)
SetRole == RoomAsks("SetRole")
SetAffiliation == RoomAsks("SetAffiliation")
RequestList ==
    \E room \in Rooms : /\ RoomRequests("RequestList", room) /\ room \notin lib.deaf
                        /\ lib' = RoomAsked(lib, room, "RequestList")
StoreList == RoomAsks("StoreList") \/ RoomAsks("StoreOwnerList")
SetRoomConfig == RoomAsks("SendRoomConfig")
DestroyRoom ==
    \E room \in Rooms : /\ Requests("DestroyRoom", room)
                        /\ lib' = RoomAsked(lib, room, "DestroyRoom")
\* A new room is locked until it is configured, or accepted as it is, or given up.
RequestRoomConfig ==
    \E room \in Rooms :
        /\ RoomRequests("RequestRoomConfig", room)
        /\ lib' = [RoomAsked(lib, room, "RequestRoomConfig") EXCEPT !.creating = @ \ {room}]
InstantRoom ==
    \E room \in Rooms, op \in {"CreateInstantRoom", "CancelRoomCreation"} :
        /\ RoomRequests(op, room) /\ room \in lib.creating
        /\ lib' = [RoomAsked(lib, room, op) EXCEPT !.creating = @ \ {room}]
GetRoomDisco ==
    \E room \in Rooms, op \in {"GetRoomInfo", "GetRoomItems"} :
        /\ Requests(op, room)
        /\ lib' = DiscoFor(Opened(lib, room, "listener", op, "room"), room, op, "room")
JoinUnique ==
    /\ Requests("RequestUniqueName", "uniqueroom") /\ "uniqueroom" \notin lib.joined
    /\ lib' = Sent(lib, "uniqueroom", "RequestUniqueName", "room")
-----------------------------------------------------------------------------
(***************************************************************************)
(* Cancelling, and the end of a service.                                   *)
(***************************************************************************)
\* The entries of a handler in the table of a service.
Cancelled(l, service, h) ==
    [l EXCEPT !.table = {e \in @ : ~(e.service = service /\ e.handler = h)},
              !.open = {q \in @ : ~(q.service = service /\ q.handler = h)}]

Cancel(service) ==
    /\ Intact /\ service \notin lib.dead
    /\ \E h \in {q.handler : q \in {q \in lib.open : q.service = service}} :
         lib' = Cancelled(lib, service, h)
    /\ UNCHANGED uses
CancelVCardOperations == Cancel("vcard")
RemoveDiscoHandler == Cancel("disco")

\* removeID leaves m_nopTrackMap alone.
RemoveID ==
    /\ Intact
    /\ \E e \in lib.table :
         /\ e.service = "pubsub"
         /\ lib' = [lib EXCEPT !.table = @ \ {e}, !.open = {q \in @ : q.id # e.id},
                            !.silent = @ \cup
                                {[op |-> e.op, remote |-> e.remote, type |-> "removed"]}]
    /\ UNCHANGED uses

\* Whether a service has been asked and may still be told; those that were not are
\* left alone by the application.
Asking(service) == \E q \in lib.open : q.service = service
\* The services with one listener.
RemoveListener ==
    /\ Intact
    /\ \E service \in ({"registration", "privacy", "lastactivity", "flexoff",
                        "bookmarks", "annotations"} \cup Rooms) \ lib.dead :
         /\ Asking(service)
         /\ lib' = [lib EXCEPT !.deaf = @ \cup {service},
                               !.open = {q \in @ : q.service # service}]
    /\ UNCHANGED uses

\* The table goes with its service, and removeIDHandler is called.
Destroyed(l, service) ==
    [l EXCEPT !.table = {e \in @ : e.service # service},
              !.open = {q \in @ : q.service # service},
              !.dead = @ \cup {service}]
DestroyTracked(service) ==      \* mutant: the destructor does not call removeIDHandler
    /\ Intact /\ service \notin lib.dead /\ Asking(service)
    /\ lib' = Destroyed(lib, service) /\ UNCHANGED uses
Destroy(service) ==
    /\ Intact /\ service \notin lib.dead /\ Asking(service)
    /\ lib' = [Destroyed(lib, service) EXCEPT !.tracks = {t \in @ : t.ih # service}]
    /\ UNCHANGED uses
DestroyService ==
    \E service \in {"vcard", "search", "privatexml", "bookmarks", "annotations", "adhoc",
                    "flexoff", "registration", "privacy", "lastactivity"} : Destroy(service)
\* A room takes itself out of the discovery service as well.
DestroyRoomObject ==
    \E room \in Rooms :
        /\ Intact /\ room \notin lib.dead /\ Asking(room)
        /\ lib' = [Cancelled(Destroyed(lib, room), "disco", room) EXCEPT
                      !.tracks = {t \in @ : t.ih # room}, !.joined = @ \ {room}]
        /\ UNCHANGED uses
LeaveRoom ==
    \E room \in lib.joined :
        /\ Intact /\ Asking(room)
        /\ lib' = [lib EXCEPT !.joined = @ \ {room}] /\ UNCHANGED uses
\* The destructor of the publish-subscribe manager is empty.
DestroyPubSub ==
    /\ Intact /\ "pubsub" \notin lib.dead /\ Asking("pubsub")
    /\ lib' = [Destroyed(lib, "pubsub") EXCEPT !.nodes = {}]
    /\ UNCHANGED uses
-----------------------------------------------------------------------------
(***************************************************************************)
(* Callbacks.                                                              *)
(***************************************************************************)
Ruined(l, how, service) == [l EXCEPT !.ruin = <<how, service>>]

\* Somebody is told of the answer to an operation.  Where several requests of
\* one kind wait it does not matter which of them is meant.
Told(l, e) ==
    LET waiting == {q \in l.open : <<q.service, q.handler, q.op, q.remote>>
                                      = <<e.service, e.handler, e.op, e.remote>>}
        own == {q \in waiting : q.id = e.id}
    IN  IF waiting = {} THEN [l EXCEPT !.stray = @ \cup {e}]
        ELSE [l EXCEPT !.open = @ \ {CHOOSE q \in IF own # {} THEN own ELSE waiting : TRUE}]

ListenerTold(l, service, w) ==
    IF service \in l.deaf THEN l
    ELSE Told(l, [service |-> service, id |-> w.id, handler |-> "listener",
                  op |-> w.op, remote |-> w.remote])

Entries(l, service, w) == {e \in l.table : e.service = service /\ e.id = w.id}

\* An entry is erased by its iterator, after the callback that may have cancelled it.
Erased(l, e) ==
    IF e \in l.table THEN [l EXCEPT !.table = @ \ {e}]
    ELSE Ruined(l, "erasedTwice", e.service)

\* Handlers of vCards and of discovery may be destroyed in their own callback,
\* and cancel as the documentation tells them to.
ToldMayCancel(l, e) ==
    {Told(l, e)} \cup
    {Cancelled(Told(l, e), e.service, e.handler) : x \in {e.service} \cap {"vcard", "disco"}}

LookupKeeping(l, service, w, tells) ==      \* mutant: erased only when somebody is told
    IF Entries(l, service, w) = {} \/ ~tells THEN {l}
    ELSE LET e == CHOOSE e \in Entries(l, service, w) : TRUE
         IN  {Erased(k, e) : k \in ToldMayCancel(l, e)}
\* The common form: look up the id, tell the handler unless nothing fits, erase.
Lookup(l, service, w, tells) ==
    IF Entries(l, service, w) = {} THEN {l}
    ELSE LET e == CHOOSE e \in Entries(l, service, w) : TRUE
         IN  {Erased(k, e) : k \in IF tells THEN ToldMayCancel(l, e) ELSE {l}}
-----------------------------------------------------------------------------
(***************************************************************************)
(* The answers: handleIqID of every service.  w is the request, a the      *)
(* answer; the result is the set of outcomes.                              *)
(***************************************************************************)
IsResult(a) == a.type = "result"
\* An error that has no <error>: the stanza gives a null pointer for it.
Unexplained(a) == ~IsResult(a) /\ ~a.explained

VCardHandleIqID(l, w, a) == Lookup(l, "vcard", w, TRUE)

\* A result that is none returns before the entry is erased.
SearchHandleIqID(l, w, a) ==
    IF IsResult(a) /\ ~a.payload THEN {l} ELSE Lookup(l, "search", w, TRUE)

PrivateXmlHandleIqID(l, w, a) ==
    Lookup(l, "privatexml", w, w.op = "StoreXml" \/ ~IsResult(a) \/ a.payload)

\* The storages do not care for what became of their requests, but for the data.
StorageHandleIqID(l, service, w, a) ==
    Lookup(l, service, w,
           IsResult(a) /\ a.payload /\ service \notin l.deaf
             /\ w.op \in {"RequestBookmarks", "RequestAnnotations"})

\* Ad-hoc commands: the table is searched by context and remote, and the entry found
\* first depends on the random ids.  For the support of commands the loop stops at an
\* entry that has either.
AdhocEntries(l) == {e \in l.table : e.service = "adhoc"}
AdhocTold(l, e, w) ==
    [Told(l, [e EXCEPT !.op = w.op, !.remote = w.remote]) EXCEPT !.table = @ \ {e}]
AdhocOneOf(l, found, w) == IF found = {} THEN {l} ELSE {AdhocTold(l, e, w) : e \in found}
AdhocHandleDiscoInfo(l, w) ==
    AdhocOneOf(l, {e \in AdhocEntries(l) : e.op = w.op \/ e.remote = w.remote}, w)
SameAskedOfAny(l, w) ==      \* mutant: the remote is not compared
    {e \in AdhocEntries(l) : e.op = w.op}
SameAsked(l, w) == {e \in AdhocEntries(l) : e.op = w.op /\ e.remote = w.remote}
AdhocHandleDiscoItems(l, w) == AdhocOneOf(l, SameAsked(l, w), w)
\* All of them are told; but the loop goes on from an erased entry, and may miss some.
AdhocHandleDiscoError(l, w) ==
    IF SameAsked(l, w) = {} THEN {l}
    ELSE {[l EXCEPT !.table = @ \ some, !.open = @ \ some, !.stray = @ \cup (some \ l.open)] :
             some \in (SUBSET SameAsked(l, w)) \ {{}}}
AdhocHandleIqID(l, w, a) == Lookup(l, "adhoc", w, ~IsResult(a) \/ a.payload)

\* Flexible offline retrieval has nothing to say of an error of discovery.
FlexOffHandleDisco(l, w, a) == IF IsResult(a) THEN {ListenerTold(l, "flexoff", w)} ELSE {l}
\* The null pointer is read, if there is a listener.
ReasonTold(l, service, w, a) ==
    IF Unexplained(a) /\ service \notin l.deaf THEN Ruined(l, "null", service)
    ELSE ListenerTold(l, service, w)
FlexOffHandleIqID(l, w, a) == {ReasonTold(l, "flexoff", w, a)}

\* A room tells of an error as of nothing.
RoomHandleDisco(l, room, w) == {ListenerTold(l, room, w)}

DiscoTold(l, e, w, a) ==
    IF e.handler \in l.dead THEN {Ruined(l, "dead", e.handler)}
    ELSE IF e.handler = "flexoff" THEN FlexOffHandleDisco(l, w, a)
    ELSE IF e.handler \in Rooms THEN RoomHandleDisco(l, e.handler, w)
    ELSE IF e.handler # "adhoc" THEN ToldMayCancel(l, e)
    ELSE IF ~IsResult(a) THEN AdhocHandleDiscoError(l, w)
    ELSE IF w.op = "CheckAdhocSupport" THEN AdhocHandleDiscoInfo(l, w)
    ELSE AdhocHandleDiscoItems(l, w)
DiscoHandleIqID(l, w, a) ==
    LET found == Entries(l, "disco", w)
    IN  IF found = {} THEN {l}
        ELSE UNION {{Erased(k, e) : k \in IF IsResult(a) /\ ~a.payload THEN {l}
                                          ELSE DiscoTold(l, e, w, a)} : e \in found}

RegistrationHandleIqID(l, w, a) ==
    IF \/ Unexplained(a)
       \/ IsResult(a) /\ w.op = "FetchRegistrationFields" /\ ~a.payload
    THEN {l} ELSE {ListenerTold(l, "registration", w)}

\* The success of unsetting a list is forgotten in the switch.
PrivacyHandleIqID(l, w, a) ==
    IF IsResult(a) /\ \/ w.op \in {"PLUnsetDefault", "PLUnsetActivate"}
                      \/ w.op \in {"PLRequestNames", "PLRequestList"} /\ ~a.payload
    THEN {l} ELSE {ReasonTold(l, "privacy", w, a)}

LastActivityHandleIqID(l, w, a) ==
    IF Unexplained(a) \/ (IsResult(a) /\ ~a.payload) THEN {l}
    ELSE {ListenerTold(l, "lastactivity", w)}

PingHandleIqID(l, w, a) == Lookup(l, "ping", w, TRUE)

\* Publish-subscribe takes results and errors alike and forgets some operations.
\* The results of the operations of a node are told while the mutex is held that
\* every operation takes: a handler that asks for more waits for itself.
PayloadTold == {"Subscription", "GetSubscriptionList", "GetAffiliationList", "RequestItems",
                "PublishItem", "DeleteItem", "DefaultNodeConfig", "GetSubscriptionOptions",
                "GetNodeConfig"}
NodeTold == {"SetSubscriberList", "SetAffiliateList", "SetNodeConfig", "CreateNode",
             "DeleteNode", "PurgeNodeItems"}
PubSubTold(l, e, a) ==
    IF e.op \in NodeTold
    THEN IF [id |-> e.id, op |-> e.op] \notin l.nodes THEN {l}
         ELSE {[Told(l, e) EXCEPT !.nodes = @ \ {[id |-> e.id, op |-> e.op]}],
               Ruined(Told(l, e), "stuck", "pubsub")}
    ELSE {IF e.op = "Unsubscription" \/ (e.op \in PayloadTold /\ a.payload) THEN Told(l, e) ELSE l}
PubSubHandleIqID(l, w, a) ==
    LET found == Entries(l, "pubsub", w)
    IN  IF found = {} THEN {l}
        ELSE UNION {PubSubTold([l EXCEPT !.table = @ \ {e}], e, a) : e \in found}

\* A room: the configuration that is sent is never told of, nor is the success of storing
\* the list of owners.
RoomHandleIqID(l, w, a) ==
    IF \/ w.op = "SendRoomConfig"
       \/ IsResult(a) /\ w.op = "StoreOwnerList"
       \/ IsResult(a) /\ ~a.payload /\ w.op \in {"RequestRoomConfig", "RequestList"}
    THEN {l} ELSE {ListenerTold(l, "muc", w)}

\* A unique room overrides it: whatever is answered, it takes the name, if that was asked
\* for, and joins.  With an error it makes one up.
UniqueRoomHandleIqID(l, w, a) ==
    LET asked == w.op = "RequestUniqueName"
        renames == asked /\ (a.payload \/ ~IsResult(a))
    IN  IF "uniqueroom" \in l.joined
        THEN {IF renames THEN Ruined(l, "renamed", "uniqueroom") ELSE l}
        ELSE {IF asked
              THEN [l EXCEPT !.joined = @ \cup {"uniqueroom"},
                             !.creating = @ \cup {"uniqueroom"}]
              ELSE Ruined(l, "joinedUnasked", "uniqueroom")}
-----------------------------------------------------------------------------
(***************************************************************************)
(* ClientBase::notifyIqHandlers.                                           *)
(***************************************************************************)
Answers == [type : {"result", "error"}, payload : BOOLEAN, explained : BOOLEAN]
\* What gets lost when an answer comes without a payload, or an error without <error>.
WantsPayload ==
    PayloadTold \cup
    {"FetchSearchFields", "SearchForm", "RequestXml", "GetDiscoInfo", "GetDiscoItems",
     "FetchAdhocCommands", "ExecuteAdhocCommand", "FetchRegistrationFields",
     "PLRequestNames", "PLRequestList", "LastActivity", "RequestRoomConfig", "RequestList",
     "GetRoomInfo", "GetRoomItems"}
WantsReason == {"FetchRegistrationFields", "CreateAccount", "RemoveAccount", "LastActivity"}
Bare(w, a) ==
    \/ ~a.payload /\ w.op \in WantsPayload /\ (IsResult(a) \/ w.op \in PayloadTold)
    \/ Unexplained(a) /\ w.op \in WantsReason

\* The answer a to the request w has arrived.
Arrived(w, a) ==
    LET l == [lib EXCEPT !.wire = @ \ {w}]
    IN  IF ~Bare(w, a) THEN l
        ELSE [l EXCEPT !.silent = @ \cup {[op |-> w.op, remote |-> w.remote, type |-> "bare"]}]

\* The service ih is asked to handle it, and the id is forgotten.
Untracked(l, w) == [l EXCEPT !.tracks = {t \in @ : t.id # w.id}]
Answer(ih, HandleIqID(_, _, _)) ==
    /\ Intact
    /\ \E w \in lib.wire, a \in Answers :
         /\ [id |-> w.id, ih |-> ih] \in lib.tracks
         /\ \E l \in IF ih \in lib.dead THEN {Ruined(lib, "dead", ih)}
                     ELSE HandleIqID(Arrived(w, a), w, a) :
              lib' = Untracked(l, w)
    /\ UNCHANGED uses

VCardAnswer == Answer("vcard", VCardHandleIqID)
SearchAnswer == Answer("search", SearchHandleIqID)
PrivateXmlAnswer == Answer("privatexml", PrivateXmlHandleIqID)
BookmarksAnswer == Answer("bookmarks", LAMBDA l, w, a : StorageHandleIqID(l, "bookmarks", w, a))
AnnotationsAnswer ==
    Answer("annotations", LAMBDA l, w, a : StorageHandleIqID(l, "annotations", w, a))
DiscoAnswer == Answer("disco", DiscoHandleIqID)
AdhocAnswer == Answer("adhoc", AdhocHandleIqID)
FlexOffAnswer == Answer("flexoff", FlexOffHandleIqID)
RegistrationAnswer == Answer("registration", RegistrationHandleIqID)
PrivacyAnswer == Answer("privacy", PrivacyHandleIqID)
LastActivityAnswer == Answer("lastactivity", LastActivityHandleIqID)
PingAnswer == Answer("ping", PingHandleIqID)
PubSubAnswer == Answer("pubsub", PubSubHandleIqID)
RoomAnswer == Answer("muc", RoomHandleIqID)
UniqueRoomAnswer == Answer("uniqueroom", UniqueRoomHandleIqID)

\* Nobody tracks the id any more.
UntrackedAnswer ==
    /\ Intact
    /\ \E w \in lib.wire : /\ \A t \in lib.tracks : t.id # w.id
                           /\ lib' = [lib EXCEPT !.wire = @ \ {w}]
    /\ UNCHANGED uses

\* The connection is lost and the answers with it; no table is told.
LoseConnection ==
    /\ Intact /\ lib.wire # {}
    /\ lib' = [lib EXCEPT !.wire = {},
                          !.silent = @ \cup {[op |-> w.op, remote |-> w.remote, type |-> "lost"] :
                                                w \in lib.wire}]
    /\ UNCHANGED uses
-----------------------------------------------------------------------------
Operation ==
    \/ FetchVCard \/ StoreVCard \/ FetchSearchFields \/ SearchForm \/ SearchFields
    \/ RequestXml \/ StoreXml \/ StoreBookmarks \/ RequestBookmarks
    \/ StoreAnnotations \/ RequestAnnotations
    \/ GetDisco \/ CheckAdhocSupport \/ FetchAdhocCommands \/ ExecuteAdhocCommand
    \/ FOCheckSupport \/ FORequestNum \/ FORequestHeaders \/ FOMessageOperation
    \/ FetchRegistrationFields \/ CreateAccount \/ RemoveAccount
    \/ PrivacyOperation \/ PrivacyStore \/ LastActivityQuery \/ XmppPing
    \/ GetSubscriptionsOrAffiliations \/ Subscribe \/ Unsubscribe \/ SubscriptionOptions
    \/ RequestItems \/ PublishItem \/ DeleteItem \/ CreateNode \/ DeleteNode
    \/ GetDefaultNodeConfig \/ NodeConfig \/ SubscriberLists \/ AffiliateLists \/ PurgeNode
    \/ SetRole \/ SetAffiliation \/ RequestList \/ StoreList \/ RequestRoomConfig \/ SetRoomConfig
    \/ InstantRoom \/ DestroyRoom \/ GetRoomDisco \/ JoinUnique
Withdrawal ==
    \/ CancelVCardOperations \/ RemoveDiscoHandler \/ RemoveID \/ RemoveListener
    \/ DestroyService \/ DestroyPubSub \/ DestroyRoomObject \/ LeaveRoom
Handling ==
    \/ VCardAnswer \/ SearchAnswer \/ PrivateXmlAnswer \/ BookmarksAnswer \/ AnnotationsAnswer
    \/ DiscoAnswer \/ AdhocAnswer \/ FlexOffAnswer \/ RegistrationAnswer \/ PrivacyAnswer
    \/ LastActivityAnswer \/ PingAnswer \/ PubSubAnswer \/ RoomAnswer \/ UniqueRoomAnswer
    \/ UntrackedAnswer

Next == Operation \/ Withdrawal \/ Handling \/ LoseConnection

Spec == Init /\ [][Next]_vars
-----------------------------------------------------------------------------
(***************************************************************************)
(* Properties.                                                             *)
(***************************************************************************)
\* Whatever is answered, cancelled or destroyed in whatever order: nobody is told of an
\* answer he does not wait for, neither somebody else's, nor a second time, nor after he
\* has cancelled.  The exception is the support of ad-hoc commands.
ToldOnlyWhoWaits == \A e \in lib.stray : e.op = "CheckAdhocSupport"

\* What the services never tell: the search whose id is not the one that is noted, the
\* storages, errors of discovery in the name of offline retrieval, lists that are unset,
\* four operations of publish-subscribe, the configuration and the owners of a room, and
\* whatever is asked of a unique room.
NeverTold ==
    {"SearchFields", "StoreBookmarks", "StoreAnnotations", "RequestBookmarks",
     "RequestAnnotations", "FOCheckSupport", "FORequestNum", "FORequestHeaders",
     "PLUnsetDefault", "PLUnsetActivate", "SetSubscriptionOptions", "SetNodeConfig",
     "GetSubscriberList", "GetAffiliateList", "SendRoomConfig", "StoreOwnerList"}
Ops == UNION Uses
Coming(op, r) == Cardinality({w \in lib.wire : w.op = op /\ w.remote = r})
Pending == {w.id : w \in lib.wire}
Excused(op, r) ==
    \/ op \in NeverTold
    \/ \E s \in lib.silent : s.op = op /\ s.remote = r /\ s.type # "removed"
    \/ "CheckAdhocSupport" \in uses
Tells(q) == q.service = "uniqueroom" => q.op \in {"GetRoomInfo", "GetRoomItems"}

\* Every answer but those and the bare ones gets to somebody who waits for it: of no operation are more
\* waiting for an answer than there are answers to come.
AnsweredMeansTold ==
    Intact => \A op \in Ops, r \in Remotes \cup {"room"} :
        Excused(op, r) \/
        Cardinality({q \in lib.open : q.op = op /\ q.remote = r /\ Tells(q)}) <= Coming(op, r)

\* Answers get to those who wait for them, and to nobody else.
AnswersReach == ToldOnlyWhoWaits /\ AnsweredMeansTold

\* While no answer is lost, the tables hold nothing for a request that is answered, except
\* where the code forgets it: a search by fields, one whose result is empty, an ad-hoc
\* request whose discovery is, and the nodes of subscriptions, of lists that are
\* asked for, and of requests that were removed or are set on a node.
Forgotten(e) ==
    \/ e.op = "SearchFields" \/ "CheckAdhocSupport" \in uses
    \/ /\ e.op \in {"FetchSearchFields", "SearchForm", "FetchAdhocCommands"}
       /\ [op |-> e.op, remote |-> e.remote, type |-> "bare"] \in lib.silent
NodeForgotten(n) ==
    \/ n.op \in {"Subscription", "GetSubscriberList", "GetAffiliateList"}
    \/ \E s \in lib.silent : s.op = n.op /\ s.type = "removed"
NothingKept ==
    (Intact /\ \A s \in lib.silent : s.type # "lost") =>
        /\ \A t \in lib.tracks : t.id \in Pending
        /\ \A n \in lib.nodes : n.id \in Pending \/ NodeForgotten(n)
        /\ \A e \in lib.table :
              Forgotten(e) \/ Cardinality({x \in lib.table : <<x.service, x.op, x.remote>>
                                                  = <<e.service, e.op, e.remote>>})
                                <= Coming(e.op, e.remote)

\* While no callback destroys the service that makes it, an answer never reaches a service
\* that is gone, no entry is erased twice, nobody waits for himself and no null pointer is
\* read, but for the services that leave themselves in the tables of others when they are
\* destroyed, handlers of vCards and discovery that cancel in their own callback, handlers
\* of publish-subscribe that ask for more in theirs, and privacy lists and offline
\* retrieval, which take it that every error says what it is.  A room keeps its name while
\* the bot is in it, and the bot enters it only when it is asked to, but for unique rooms.
RuinedOnlyBy ==
    lib.ruin \in {<<"none", "">>, <<"dead", "pubsub">>, <<"dead", "adhoc">>, <<"dead", "flexoff">>,
                  <<"erasedTwice", "vcard">>, <<"erasedTwice", "disco">>, <<"stuck", "pubsub">>,
                  <<"renamed", "uniqueroom">>, <<"joinedUnasked", "uniqueroom">>,
                  <<"null", "privacy">>, <<"null", "flexoff">>}
=============================================================================
