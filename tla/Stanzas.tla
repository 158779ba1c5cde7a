---------------------------- MODULE Stanzas ----------------------------
(* Stanzas between their objects and their elements: what tag() makes of a *)
(* stanza and its extensions, which extensions the factory reads from an   *)
(* element that arrives, and what is left of them after another journey.   *)
(* The peer may have written the element differently: Tamper changes one   *)
(* attribute or child on the way.  A second use of the same element, Find, *)
(* is the application's own search in it.                                  *)
EXTENDS StanzaExtensions, QueryExtensions, VCard, FiniteSets

CONSTANTS Sendable,     \* stanzas to send
          Registered,   \* sequence of the kinds registered at first
          Changing,     \* kinds registered again or removed meanwhile
          Trees,        \* elements to search in
          Paths,        \* paths to search for, and what they mean
          MaxHops,      \* bound: journeys of a stanza
          MaxChanges    \* bound: changes of the factory and the element on the first

ASSUME StanzasAssumption == MaxHops \in Nat \ {0} /\ MaxChanges \in Nat /\ Changing \subseteq ToSet(Registered)

VARIABLES factory,   \* m_extensions: the kinds, in order
          sent,      \* sequence of at most one: the stanza under way, as an object
          wire,      \* sequence of at most one: its element
          altered,   \* whether the element is still as it was written
          got,       \* sequence of at most one: the object read from it
          hops,      \* journeys so far
          changes,   \* changes so far
          search     \* sequence of at most one: the search in the element, its result

vars == <<factory, sent, wire, altered, got, hops, changes, search>>

-----------------------------------------------------------------------------
(* filterString() of each class: the steps below the stanza, and the       *)
(* namespace ("" without a predicate).                                     *)
In(stanza, name, ns) == [steps |-> <<stanza, name>>, ns |-> ns]
Both(name, ns) == <<In("presence", name, ns), In("message", name, ns)>>
IqQuery(ns) == <<In("iq", "query", ns)>>

Elements == [
    nickname |-> Both("nick", "nick"),
    delay |-> Both("delay", "delay") \o Both("x", "x:delay"),
    receipts |-> <<In("message", "request", "receipts"), In("message", "received", "receipts")>>,
    chatstates |-> <<In("message", "active", "chatstates"),
                     In("message", "composing", "chatstates"),
                     In("message", "paused", "chatstates"),
                     In("message", "inactive", "chatstates"),
                     In("message", "gone", "chatstates")>>,
    messageevent |-> <<In("message", "x", "x:event")>>,
    version |-> IqQuery("version"),
    vcardupdate |-> <<In("presence", "x", "x:vcard:update")>>,
    xhtml |-> <<In("message", "html", "xhtml-im")>>,
    attention |-> <<In("message", "attention", "attention")>>,
    gpgencrypted |-> <<In("message", "x", "x:encrypted")>>,
    gpgsigned |-> Both("x", "x:signed"),
    oob |-> Both("x", "x:oob") \o IqQuery("iq:oob"),
    shim |-> Both("headers", "shim")
             \o <<[steps |-> <<"iq", "*", "headers">>, ns |-> "shim"]>>,
    error |-> <<In("iq", "error", ""), In("message", "error", ""),
                In("presence", "error", ""), In("subscription", "error", "")>>,
    featureneg |-> <<In("message", "feature", "feature-neg"), In("iq", "feature", "feature-neg")>>,
    dataform |-> <<In("message", "x", "x:data")>>,
    caps |-> <<In("presence", "c", "caps")>>,
    amp |-> <<In("message", "amp", "amp")>>,
    pubsubevent |-> <<In("message", "event", "pubsub#event")>>,
    mucadmin |-> IqQuery("muc#admin"),
    mucowner |-> IqQuery("muc#owner"),
    mucuser |-> Both("x", "muc#user"),
    muc |-> <<In("presence", "x", "muc")>>,
    unique |-> <<In("iq", "unique", "muc#unique")>>,
    adhoc |-> <<In("iq", "command", "commands")>>,
    registration |-> IqQuery("register"),
    search |-> IqQuery("search"),
    privacy |-> IqQuery("privacy"),
    roster |-> IqQuery("roster"),
    auth |-> IqQuery("auth"),
    last |-> IqQuery("last") \o <<In("presence", "query", "last")>>,
    private |-> IqQuery("private"),
    discoinfo |-> IqQuery("disco#info"),
    discoitems |-> IqQuery("disco#items"),
    si |-> <<In("iq", "si", "si")>>,
    ibb |-> <<In("iq", "open", "ibb"), In("iq", "data", "ibb"), In("message", "data", "ibb"),
              In("iq", "close", "ibb")>>,
    bytestreams |-> IqQuery("bytestreams"),
    offline |-> <<In("iq", "offline", "offline")>>,
    bind |-> <<In("iq", "bind", "bind"), In("iq", "unbind", "bind")>>,
    ping |-> <<In("iq", "ping", "ping")>>,
    vcard |-> <<In("iq", "vCard", "vcard-temp")>>,
    pubsub |-> <<In("iq", "pubsub", "pubsub")>>,
    pubsubowner |-> <<In("iq", "pubsub", "pubsub#owner")>>]

Kinds == DOMAIN Elements

(* The expressions the classes write those filters as, and their tokens. *)
Where(ns) == IF ns = "" THEN <<>> ELSE <<"[", "@", "xmlns", "=", "'", ns, "'", "]">>
Alternative(e) ==
    FoldLeft(LAMBDA text, s : text \o <<"/", s>>, <<>>, e.steps) \o Where(e.ns)
filterString == [k \in Kinds |->
    FoldLeft(LAMBDA text, e : text \o <<"|">> \o Alternative(e),
             Alternative(Head(Elements[k])), Tail(Elements[k]))]
Tokens == [k \in Kinds |-> parse(filterString[k])]

-----------------------------------------------------------------------------
(* newInstance() and tag() of each class. *)
Read(kind, root, path) ==
    LET t == At(root, path)
    IN  CASE kind = "nickname" -> ReadNickname(t)
          [] kind = "delay" -> ReadDelay(t)
          [] kind = "receipts" -> ReadReceipt(t)
          [] kind = "chatstates" -> ReadChatState(t)
          [] kind = "messageevent" -> ReadMessageEvent(t)
          [] kind = "version" -> ReadVersion(t)
          [] kind = "vcardupdate" -> ReadVCardUpdate(t)
          [] kind = "xhtml" -> ReadXHtml(t)
          [] kind = "attention" -> ReadAttention(t)
          [] kind = "gpgencrypted" -> ReadGPG(t, "x:encrypted")
          [] kind = "gpgsigned" -> ReadGPG(t, "x:signed")
          [] kind = "oob" -> ReadOOB(t)
          [] kind = "shim" -> ReadSHIM(t)
          [] kind = "error" -> ReadError(t)
          [] kind = "featureneg" -> ReadFeatureNeg(root, path)
          [] kind = "dataform" -> ReadForm(t)
          [] kind = "caps" -> ReadCapabilities(t)
          [] kind = "amp" -> ReadAMP(root, path)
          [] kind = "pubsubevent" -> ReadEvent(t)
          [] kind = "mucadmin" -> ReadMUCAdmin(t)
          [] kind = "mucowner" -> ReadMUCOwner(root, path)
          [] kind = "mucuser" -> ReadMUCUser(t)
          [] kind = "muc" -> ReadMUC(t)
          [] kind = "unique" -> ReadUnique(t)
          [] kind = "adhoc" -> ReadCommand(root, path)
          [] kind = "registration" -> ReadRegistration(t)
          [] kind = "search" -> ReadSearch(t)
          [] kind = "privacy" -> ReadPrivacy(t)
          [] kind = "roster" -> ReadRoster(root, path)
          [] kind = "auth" -> ReadNonSasl(t)
          [] kind = "last" -> ReadLast(t)
          [] kind = "private" -> ReadPrivateXML(t)
          [] kind = "discoinfo" -> ReadInfo(t)
          [] kind = "discoitems" -> ReadItems(t)
          [] kind = "si" -> ReadSI(t)
          [] kind = "ibb" -> ReadIBB(t)
          [] kind = "bytestreams" -> ReadS5B(t)
          [] kind = "offline" -> ReadOffline(t)
          [] kind = "bind" -> ReadBind(t)
          [] kind = "ping" -> ReadPing(t)
          [] kind = "vcard" -> ReadVCard(t)
          [] kind = "pubsub" -> ReadPubSub(root, path)
          [] kind = "pubsubowner" -> ReadPubSubOwner(root, path)

Write(kind, x) ==
    CASE kind = "nickname" -> WriteNickname(x)
      [] kind = "delay" -> WriteDelay(x)
      [] kind = "receipts" -> WriteReceipt(x)
      [] kind = "chatstates" -> WriteChatState(x)
      [] kind = "messageevent" -> WriteMessageEvent(x)
      [] kind = "version" -> WriteVersion(x)
      [] kind = "vcardupdate" -> WriteVCardUpdate(x)
      [] kind = "xhtml" -> WriteXHtml(x)
      [] kind = "attention" -> WriteAttention(x)
      [] kind = "gpgencrypted" -> WriteGPG(x, "x:encrypted")
      [] kind = "gpgsigned" -> WriteGPG(x, "x:signed")
      [] kind = "oob" -> WriteOOB(x)
      [] kind = "shim" -> WriteSHIM(x)
      [] kind = "error" -> WriteError(x)
      [] kind = "featureneg" -> WriteFeatureNeg(x)
      [] kind = "dataform" -> WriteForm(x)
      [] kind = "caps" -> WriteCapabilities(x)
      [] kind = "amp" -> WriteAMP(x)
      [] kind = "pubsubevent" -> WriteEvent(x)
      [] kind = "mucadmin" -> WriteMUCAdmin(x)
      [] kind = "mucowner" -> WriteMUCOwner(x)
      [] kind = "mucuser" -> WriteMUCUser(x)
      [] kind = "muc" -> WriteMUC(x)
      [] kind = "unique" -> WriteUnique(x)
      [] kind = "adhoc" -> WriteCommand(x)
      [] kind = "registration" -> WriteRegistration(x)
      [] kind = "search" -> WriteSearch(x)
      [] kind = "privacy" -> WritePrivacy(x)
      [] kind = "roster" -> WriteRoster(x)
      [] kind = "auth" -> WriteNonSasl(x)
      [] kind = "last" -> WriteLast(x)
      [] kind = "private" -> WritePrivateXML(x)
      [] kind = "discoinfo" -> WriteInfo(x)
      [] kind = "discoitems" -> WriteItems(x)
      [] kind = "si" -> WriteSI(x)
      [] kind = "ibb" -> WriteIBB(x)
      [] kind = "bytestreams" -> WriteS5B(x)
      [] kind = "offline" -> WriteOffline(x)
      [] kind = "bind" -> WriteBind(x)
      [] kind = "ping" -> WritePing(x)
      [] kind = "vcard" -> WriteVCard(x)
      [] kind = "pubsub" -> WritePubSub(x)
      [] kind = "pubsubowner" -> WritePubSubOwner(x)

(* tag() needs what these leave out: the element of an XHtmlIM, the context *)
(* that no constructor sets, the identifiers an event's headers begin with. *)
CanWrite(ext) ==
    LET x == ext.value
    IN  CASE ext.kind = "xhtml" -> x.xhtml /= <<>>
          [] ext.kind \in {"privacy", "offline"} -> x.context /= "unread"
          [] ext.kind = "pubsubevent" -> x.collection = "" \/ x.subscriptionIDs /= <<>>
          [] OTHER -> TRUE

-----------------------------------------------------------------------------
(* The stanza classes.  A text with its translations is a map from the     *)
(* language to the text, "" being the default; type "" is Invalid.         *)
WriteLangs(name, texts) ==
    TagsOf(LAMBDA l : NewTag(name, "xml:lang" :> l, <<>>, texts[l]), SetToSeq(DOMAIN texts))
ReadLangs(tags) ==
    FoldLeft(LAMBDA texts, c : IF c.cdata = "" THEN texts
                               ELSE (findAttribute(c, "xml:lang") :> c.cdata) @@ texts,
             <<>>, tags)

S10nTypes == {"subscribe", "subscribed", "unsubscribe", "unsubscribed"}
IqTypes == {"get", "set", "result", "error"}
MessageTypes == {"chat", "error", "groupchat", "headline", "normal"}
Shows == {"chat", "away", "dnd", "xa"}
PresenceTypes == {"available", "unavailable", "probe", "error"}

NoStanza == [name |-> "", type |-> "", from |-> "", to |-> "", id |-> "", body |-> <<>>,
             subject |-> <<>>, thread |-> "", status |-> <<>>, priority |-> "0",
             extensions |-> <<>>]

TagsOfExtensions(s) == TagsOf(LAMBDA e : Write(e.kind, e.value), s.extensions)

(* tag() of IQ, Message, Presence and Subscription. *)
Addresses(s) == [from |-> s.from, to |-> s.to]
WriteIQ(s) ==
    E("iq", Addresses(s) @@ [id |-> s.id, type |-> s.type], TagsOfExtensions(s))
WriteMessage(s) ==
    E("message", Addresses(s) @@ [id |-> s.id, type |-> s.type],
      WriteLangs("body", s.body) \o WriteLangs("subject", s.subject)
      \o <<Opt("thread", s.thread)>> \o TagsOfExtensions(s))
WritePresence(s) ==
    E("presence",
      Addresses(s) @@ [type |-> IF s.type \in PresenceTypes \ {"available"} THEN s.type ELSE ""],
      <<Opt("show", IF s.type \in Shows THEN s.type ELSE ""), Leaf("priority", s.priority)>>
      \o WriteLangs("status", s.status) \o TagsOfExtensions(s))
WriteSubscription(s) ==
    E("presence", Addresses(s) @@ [type |-> s.type],
      WriteLangs("status", s.status) \o TagsOfExtensions(s))

WriteStanza(s) ==
    CASE s.type = "" -> NoTag
      [] s.type /= "" /\ s.name = "iq" -> WriteIQ(s)
      [] s.type /= "" /\ s.name = "message" -> WriteMessage(s)
      [] s.type /= "" /\ s.name = "presence" -> WritePresence(s)
      [] s.type /= "" /\ s.name = "subscription" -> WriteSubscription(s)

(* Their constructors, and which of them handleTag() calls. *)
ReadHeader(t, name) ==
    [NoStanza EXCEPT !.name = name, !.from = findAttribute(t, "from"),
                     !.to = findAttribute(t, "to"), !.id = findAttribute(t, "id")]
ReadIQ(t) ==
    [ReadHeader(t, "iq") EXCEPT !.type = Lookup(findAttribute(t, "type"), IqTypes)]
ReadMessage(t) ==
    [ReadHeader(t, "message") EXCEPT
        !.type = IF hasAttribute(t, "type") THEN Lookup(findAttribute(t, "type"), MessageTypes)
                 ELSE "normal",
        !.body = ReadLangs(findChildren(t, "body")),
        !.subject = ReadLangs(findChildren(t, "subject")),
        !.thread = LastText(t, "thread")]
ReadPresence(t) ==
    LET type == IF hasAttribute(t, "type") THEN Lookup(findAttribute(t, "type"), PresenceTypes)
                ELSE "available"
        show == Text(t, "show")
    IN  [ReadHeader(t, "presence") EXCEPT
            !.type = IF type /= "available" \/ show = "" THEN type ELSE Lookup(show, Shows),
            !.status = ReadLangs(findChildren(t, "status")),
            !.priority = IF hasChild(t, "priority") THEN Atoi(LastText(t, "priority")) ELSE @]
PresenceStatus == <<"/", "presence", "/", "status">>
ReadSubscription(t) ==
    [ReadHeader(t, "subscription") EXCEPT
        !.type = Lookup(findAttribute(t, "type"), S10nTypes),
        !.status = ReadLangs(TagsOf(LAMBDA p : At(t, p), findTagList(t, <<>>, PresenceStatus)))]

ReadStanza(t) ==
    CASE t.name = "iq" -> ReadIQ(t)
      [] t.name = "message" -> ReadMessage(t)
      [] t.name = "presence" /\ findAttribute(t, "type") \in S10nTypes -> ReadSubscription(t)
      [] t.name = "presence" /\ findAttribute(t, "type") \notin S10nTypes -> ReadPresence(t)

-----------------------------------------------------------------------------
(* StanzaExtensionFactory *)

(* mutant: an extension registered again stands beside the old one *)
registerTwice(exts, kind) == Append(exts, kind)

registerExtension(exts, kind) == Append(SelectSeq(exts, LAMBDA k : k /= kind), kind)

removeExtension(exts, kind) == SelectSeq(exts, LAMBDA k : k /= kind)

addExtensions(exts, t) ==
    FlattenSeq(TagsOf(
        LAMBDA k : TagsOf(LAMBDA p : [kind |-> k, value |-> Read(k, t, p)],
                          findTagListBy(t, <<>>, filterString[k], Tokens[k])),
        exts))

Register ==
    /\ hops = 1 /\ got = <<>> /\ changes < MaxChanges /\ changes' = changes + 1
    /\ \E k \in Changing : factory' = registerExtension(factory, k)
    /\ UNCHANGED <<sent, wire, altered, got, hops, search>>

Unregister ==
    /\ hops = 1 /\ got = <<>> /\ changes < MaxChanges /\ changes' = changes + 1
    /\ \E k \in Changing : Contains(factory, k) /\ factory' = removeExtension(factory, k)
    /\ UNCHANGED <<sent, wire, altered, got, hops, search>>

(* A stanza goes out when its tag() writes it. *)
Put(stanza) ==
    /\ WriteStanza(stanza) /= NoTag
    /\ sent' = <<stanza>> /\ wire' = <<WriteStanza(stanza)>>
    /\ altered' = FALSE /\ hops' = hops + 1

Send ==
    /\ hops = 0 /\ search = <<>>
    /\ \E s \in Sendable : Put(s)
    /\ UNCHANGED <<factory, got, changes, search>>

(* What the application makes of what it received: the same stanza again. *)
Relay ==
    /\ got /= <<>> /\ hops < MaxHops
    /\ \A i \in DOMAIN got[1].extensions : CanWrite(got[1].extensions[i])
    /\ Put(got[1])
    /\ got' = <<>>
    /\ UNCHANGED <<factory, changes, search>>

(* The peer's element differs in one attribute or child, at the extension  *)
(* or one level below it.                                                  *)
Changes(t) ==
    {[t EXCEPT !.attrs = [a \in DOMAIN @ \ {b} |-> @[a]]] : b \in DOMAIN t.attrs}
    \cup {[t EXCEPT !.attrs[b] = "junk"] : b \in DOMAIN t.attrs}
    \cup {[t EXCEPT !.kids = SubSeq(@, 1, i - 1) \o SubSeq(@, i + 1, Len(@))] :
              i \in DOMAIN t.kids}
    \cup {[t EXCEPT !.kids = Append(@, @[i])] : i \in DOMAIN t.kids}
ExtensionChanges(t) ==
    UNION {{[t EXCEPT !.kids[i] = c] : c \in Changes(t.kids[i])} : i \in DOMAIN t.kids}
ContentChanges(t) ==
    UNION {{[t EXCEPT !.kids[i] = c] : c \in ExtensionChanges(t.kids[i])} : i \in DOMAIN t.kids}

Tamper ==
    /\ hops = 1 /\ got = <<>> /\ changes < MaxChanges /\ changes' = changes + 1
    /\ \E t \in Changes(wire[1]) \cup ExtensionChanges(wire[1]) \cup ContentChanges(wire[1]) :
          wire' = <<t>>
    /\ altered' = TRUE
    /\ UNCHANGED <<factory, sent, got, hops, search>>

(* ClientBase::handleTag().  An item retraction cannot be read: its        *)
(* constructor goes through a null pointer.                                *)
Crashes(t) ==
    \E k \in DOMAIN t.kids :
        LET c == t.kids[k]
        IN  c.name = "pubsub" /\ xmlns(c) = "pubsub" /\ hasChild(c, "retract")

Receive ==
    /\ wire /= <<>> /\ hops > 0 /\ got = <<>>
    /\ ~ Crashes(wire[1])
    /\ got' = <<[ReadStanza(wire[1]) EXCEPT !.extensions = addExtensions(factory, wire[1])]>>
    /\ UNCHANGED <<factory, sent, wire, altered, hops, changes, search>>

(* A search in an element of the application's own, from any place in it. *)
Find ==
    /\ hops = 0 /\ search = <<>>
    /\ \E root \in Trees, path \in Paths :
        \E start \in {<<>>} \cup ToSet(allDescendants(root, <<>>)) :
          search' = <<[root |-> root, start |-> start, path |-> path,
                       found |-> findTagList(root, start, path.expression)]>>
    /\ UNCHANGED <<factory, sent, wire, altered, got, hops, changes>>

Init ==
    /\ factory = Registered /\ sent = <<>> /\ wire = <<>> /\ altered = FALSE
    /\ got = <<>> /\ hops = 0 /\ changes = 0 /\ search = <<>>

Next == Register \/ Unregister \/ Send \/ Relay \/ Tamper \/ Receive \/ Find

Spec == Init /\ [][Next]_vars
=============================================================================
