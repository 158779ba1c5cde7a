----------------------- MODULE QueryExtensions -----------------------
(* The payloads of IQ stanzas: what the managers write and read.  The      *)
(* conventions are those of StanzaExtensions.                              *)
EXTENDS StanzaExtensions

Query(ns, children) == E("query", Ns(ns), children)

-----------------------------------------------------------------------------
(* MUCRoom::MUCAdmin.  Every item is written with the role and affiliation *)
(* of the whole request where it has none of its own; reasons are not read.*)
Roles == {"none", "visitor", "participant", "moderator"}
Affiliations == {"none", "outcast", "member", "owner", "admin"}
ReadMUCItem(t) ==
    [jid |-> findAttribute(t, "jid"), nick |-> findAttribute(t, "nick"),
     role |-> Lookup(findAttribute(t, "role"), Roles),
     affiliation |-> Lookup(findAttribute(t, "affiliation"), Affiliations), reason |-> ""]
(* m_role and m_affiliation are those of the first item that has one. *)
FirstValid(values) ==
    LET valid == SelectSeq(values, LAMBDA v : v /= "")
    IN  IF valid = <<>> THEN "" ELSE Head(valid)
ReadMUCAdmin(t) ==
    LET list == TagsOf(ReadMUCItem, findChildren(t, "item"))
    IN  [list |-> list, role |-> FirstValid(TagsOf(LAMBDA i : i.role, list)),
         affiliation |-> FirstValid(TagsOf(LAMBDA i : i.affiliation, list))]
WriteMUCAdmin(x) ==
    LET Or(own, all) == IF own /= "" THEN own ELSE all
    IN  Query("muc#admin",
              IF x.role = "" /\ x.affiliation = "" THEN <<>>
              ELSE TagsOf(LAMBDA i :
                            E("item", [jid |-> Bare(i.jid), nick |-> i.nick,
                                       role |-> Or(i.role, x.role),
                                       affiliation |-> Or(i.affiliation, x.affiliation)],
                              <<Opt("reason", i.reason)>>),
                          x.list))

(* MUCRoom::MUCOwner: the first form or destroy decides.  The password and *)
(* the reason are looked for from the stanza on.                           *)
DestroyPassword == <<"/", "query", "/", "destroy", "/", "password">>
DestroyReason == <<"/", "query", "/", "destroy", "/", "reason">>
ReadMUCOwner(root, path) ==
    LET t == At(root, path)
        found == SelectSeq(t.kids, LAMBDA c : \/ c.name = "x" /\ xmlns(c) = "x:data"
                                              \/ c.name = "destroy")
        none == [valid |-> TRUE, type |-> "incoming", jid |-> "", reason |-> "",
                 pwd |-> "", form |-> <<>>]
    IN  IF found = <<>> THEN none
        ELSE IF Head(found).name = "x" THEN [none EXCEPT !.form = <<ReadForm(Head(found))>>]
        ELSE [none EXCEPT !.type = "destroy", !.jid = findAttribute(Head(found), "jid"),
                          !.pwd = findTag(root, path, DestroyPassword).cdata,
                          !.reason = findTag(root, path, DestroyReason).cdata]
WriteMUCOwner(x) ==
    IF ~ x.valid THEN NoTag
    ELSE Query("muc#owner",
               CASE x.type \in {"instant", "send", "cancel", "incoming"} -> WriteForms(x.form)
                 [] x.type = "destroy" ->
                      <<E("destroy", [jid |-> Bare(x.jid)],
                          <<Opt("reason", x.reason), Opt("password", x.pwd)>>)>>
                 [] OTHER -> <<>>)

(* MUCRoom::MUCUser.  A pointer to a string is a sequence of at most one. *)
Codes == <<"100", "101", "110", "170", "201", "210", "301", "303", "307", "321", "322", "332">>
NoMUCUser == [affiliation |-> "", role |-> "", jid |-> <<>>, actor |-> <<>>, thread |-> <<>>,
              reason |-> <<>>, newNick |-> <<>>, password |-> <<>>, alternate |-> <<>>,
              operation |-> "none", flags |-> {}, del |-> FALSE, continue |-> FALSE]
AttrPtr(t, a, old) == IF hasAttribute(t, a) THEN <<findAttribute(t, a)>> ELSE old
ReasonPtr(t, old) == IF hasChild(t, "reason") THEN <<Text(t, "reason")>> ELSE old
(* getEnumAffiliation(), getEnumRole() *)
EnumOf(t, a, values) == DefLookup(findAttribute(t, a), values, "none")
ReadMUCUserItem(x, t) ==
    [x EXCEPT !.affiliation = EnumOf(t, "affiliation", Affiliations),
              !.role = EnumOf(t, "role", Roles),
              !.jid = AttrPtr(t, "jid", @),
              !.actor = IF hasChild(t, "actor")
                        THEN <<findAttribute(findChild(t, "actor"), "jid")>> ELSE @,
              !.reason = ReasonPtr(t, @), !.newNick = AttrPtr(t, "nick", @)]
ReadInvite(x, t) ==
    LET from == findAttribute(t, "from")
    IN  [x EXCEPT !.operation = IF from = "" THEN "inviteTo" ELSE "inviteFrom",
                  !.jid = <<IF from = "" THEN findAttribute(t, "to") ELSE from>>,
                  !.reason = ReasonPtr(t, @),
                  !.continue = @ \/ hasChild(t, "continue"),
                  !.thread = IF hasChild(t, "continue")
                             THEN <<findAttribute(findChild(t, "continue"), "thread")>> ELSE @]
(* The one declined to is looked for under "from" as well. *)
ReadDecline(x, t) ==
    LET from == findAttribute(t, "from")
    IN  [x EXCEPT !.operation = IF from = "" THEN "declineTo" ELSE "declineFrom",
                  !.jid = <<from>>, !.reason = ReasonPtr(t, @)]
ReadMUCUser(t) ==
    FoldLeft(LAMBDA x, c :
               CASE c.name = "item" -> ReadMUCUserItem(x, c)
                 [] c.name = "status" ->
                      [x EXCEPT !.flags = @ \cup ({findAttribute(c, "code")} \cap ToSet(Codes))]
                 [] c.name = "destroy" ->
                      [x EXCEPT !.del = TRUE, !.flags = @ \cup {"destroyed"},
                                !.alternate = AttrPtr(c, "jid", @), !.reason = ReasonPtr(c, @)]
                 [] c.name = "invite" -> ReadInvite(x, c)
                 [] c.name = "decline" -> ReadDecline(x, c)
                 [] c.name = "password" -> [x EXCEPT !.password = <<c.cdata>>]
                 [] OTHER -> x,
             NoMUCUser, t.kids)

PtrText(p) == IF p = <<>> THEN "" ELSE Head(p)
Leaves(name, p) == TagsOf(LAMBDA s : Leaf(name, s), p)
Invitation == [inviteTo |-> <<"invite", "to">>, inviteFrom |-> <<"invite", "from">>,
               declineTo |-> <<"decline", "to">>, declineFrom |-> <<"decline", "from">>]
WriteMUCUser(x) ==
    E("x", Ns("muc#user"),
      IF x.affiliation /= "" \/ x.role /= ""
      THEN <<E("item", [jid |-> PtrText(x.jid), role |-> x.role, affiliation |-> x.affiliation],
               TagsOf(LAMBDA s : E("actor", [jid |-> s], <<>>), x.actor))>>
           \o TagsOf(LAMBDA c : E("status", [code |-> c], <<>>),
                     SelectSeq(Codes, LAMBDA c : c \in x.flags))
      ELSE IF x.del
      THEN <<E("destroy", [jid |-> PtrText(x.alternate)], Leaves("reason", x.reason))>>
      ELSE IF x.operation /= "none" /\ x.jid /= <<>>
      THEN LET named == Invitation[x.operation]
           IN  <<E(named[1], named[2] :> Head(x.jid),
                   Leaves("reason", x.reason)
                   \o (IF x.continue
                       THEN <<E("continue", [thread |-> PtrText(x.thread)], <<>>)>>
                       ELSE <<>>))>>
               \o Leaves("password", x.password)
      ELSE <<>>)

(* MUCRoom::MUC compares with the namespace of MUCUser, so what its filter *)
(* finds it does not read.                                                 *)
NoMUC == [password |-> <<>>, since |-> <<>>, historyType |-> "", historyValue |-> "0"]
ReadMUC(t) ==
    LET h == findChildren(t, "history")
        FirstOf(c) == SelectSeq(<<"seconds", "maxstanzas", "maxchars", "since">>,
                                LAMBDA a : hasAttribute(c, a))
        ReadHistory(x, c) ==
            IF FirstOf(c) = <<>> THEN x
            ELSE IF Head(FirstOf(c)) = "since"
                 THEN [x EXCEPT !.since = <<findAttribute(c, "since")>>]
            ELSE [x EXCEPT !.historyValue = Atoi(findAttribute(c, Head(FirstOf(c))))]
    IN  IF xmlns(t) /= "muc#user" THEN NoMUC
        ELSE [FoldLeft(ReadHistory, NoMUC, h) EXCEPT
                !.password = IF hasChild(t, "password") THEN <<LastText(t, "password")>> ELSE <<>>]
WriteMUC(x) ==
    E("x", Ns("muc"),
      (IF x.historyType = "" THEN <<>>
       ELSE <<E("history", x.historyType :> IF x.historyType = "since" /\ x.since /= <<>>
                                            THEN Head(x.since) ELSE x.historyValue, <<>>)>>)
      \o Leaves("password", x.password))

ReadUnique(t) == [name |-> t.cdata]
WriteUnique(x) == NewTag("unique", Ns("muc#unique"), <<>>, x.name)

-----------------------------------------------------------------------------
(* Adhoc::Command and its notes.  The notes are looked for from the stanza *)
(* on; the action of a multi-stage answer is written as "execute" on the   *)
(* command and read as "action" of the actions.                            *)
CommandActions == {"execute", "cancel", "prev", "next", "complete"}
CommandStatus == {"executing", "completed", "canceled"}
Stages == <<"prev", "next", "complete">>
ReadNote(t) ==
    [severity |-> DefLookup(findAttribute(t, "type"), {"info", "warn", "error"}, "info"),
     note |-> t.cdata]
WriteNote(x) ==
    IF x.note = "" \/ x.severity = "" THEN NoTag
    ELSE NewTag("note", [type |-> x.severity], <<>>, x.note)

CommandNotes == <<"/", "command", "/", "note">>
ReadCommand(root, path) ==
    LET t == At(root, path)
        a == findChild(t, "actions")
    IN  [node |-> findAttribute(t, "node"), sessionid |-> findAttribute(t, "sessionid"),
         status |-> Lookup(findAttribute(t, "status"), CommandStatus),
         action |-> IF a /= NoTag
                    THEN DefLookup(findAttribute(a, "action"), CommandActions, "complete")
                    ELSE DefLookup(findAttribute(t, "action"), CommandActions, "execute"),
         actions |-> {s \in ToSet(Stages) : hasChild(a, s)},
         notes |-> TagsOf(LAMBDA p : ReadNote(At(root, p)),
                          findTagList(root, path, CommandNotes)),
         form |-> FormIn(t)]
WriteCommand(x) ==
    LET many == x.actions /= {}
        status == IF many /\ x.status = "" THEN "executing" ELSE x.status
        action == IF many /\ x.action = "" THEN "complete" ELSE x.action
    IN  IF x.node = "" THEN NoTag
        ELSE E("command",
               Ns("commands") @@ [node |-> x.node, status |-> status, sessionid |-> x.sessionid]
               @@ ((IF many THEN "execute" ELSE "action") :> action),
               (IF many THEN <<E("actions", <<>>,
                                 TagsOf(LAMBDA s : Flag(s, s \in x.actions), Stages))>>
                ELSE <<>>)
               \o WriteForms(x.form) \o TagsOf(WriteNote, x.notes))

(* Registration::Query: a form is written alone, then an out-of-band URL,  *)
(* then the request to be removed, then the fields.                        *)
RegistrationFields ==
    <<"username", "nick", "password", "name", "first", "last", "email", "address", "city",
      "state", "zip", "phone", "url", "date", "misc", "text">>
ReadRegistration(t) ==
    LET oob == findChildNs(t, "x", "x:oob")
    IN  [form |-> FormIn(t), oob |-> IF oob = NoTag THEN <<>> ELSE <<ReadOOB(oob)>>,
         values |-> [f \in {n \in ToSet(RegistrationFields) : hasChild(t, n)} |-> LastText(t, f)],
         del |-> hasChild(t, "remove"), reg |-> hasChild(t, "registered"),
         instructions |-> LastText(t, "instructions")]
WriteRegistration(x) ==
    Query("register",
          <<Opt("instructions", x.instructions), Flag("registered", x.reg)>>
          \o (CASE x.form /= <<>> -> WriteForms(x.form)
                [] x.form = <<>> /\ x.oob /= <<>> -> TagsOf(WriteOOB, x.oob)
                [] x.form = <<>> /\ x.oob = <<>> /\ x.del -> <<Leaf("remove", "")>>
                [] OTHER -> TagsOf(LAMBDA f : Leaf(f, x.values[f]),
                                   SelectSeq(RegistrationFields,
                                             LAMBDA f : f \in DOMAIN x.values))))

(* Search::Query and SearchFieldStruct: which fields there are is read,    *)
(* what they hold is not.                                                  *)
SearchFields == <<"first", "last", "nick", "email">>
NoResult == [jid |-> ""] @@ [f \in ToSet(SearchFields) |-> ""]
ReadResult(t) ==
    IF ~ hasAttribute(t, "jid") THEN NoResult
    ELSE [jid |-> findAttribute(t, "jid")] @@ [f \in ToSet(SearchFields) |-> LastText(t, f)]
WriteResult(x) ==
    E("item", [jid |-> Bare(x.jid)], TagsOf(LAMBDA f : Leaf(f, x[f]), SearchFields))
ReadSearch(t) ==
    [form |-> FormIn(t),
     values |-> [f \in {n \in ToSet(SearchFields) : hasChild(t, n)} |-> ""],
     instructions |-> LastText(t, "instructions"),
     srl |-> TagsOf(ReadResult, findChildren(t, "item"))]
WriteSearch(x) ==
    Query("search",
          CASE x.form /= <<>> -> WriteForms(x.form)
            [] x.form = <<>> /\ DOMAIN x.values /= {} ->
                 <<Opt("instructions", x.instructions)>>
                 \o TagsOf(LAMBDA f : Leaf(f, x.values[f]),
                           SelectSeq(SearchFields, LAMBDA f : f \in DOMAIN x.values))
            [] OTHER -> TagsOf(WriteResult, x.srl))

-----------------------------------------------------------------------------
(* PrivacyManager::Query.  The context is not read: "unread" stands for    *)
(* the member that the constructor leaves as it finds it.  An item for all *)
(* kinds of stanza is written without any and read as one for none.        *)
Packets == <<"message", "presence-in", "presence-out", "iq">>
ReadPrivacyItem(t) ==
    [type |-> Lookup(findAttribute(t, "type"), {"jid", "group", "subscription"}),
     action |-> DefLookup(findAttribute(t, "action"), {"allow", "deny"}, "allow"),
     packets |-> {p \in ToSet(Packets) : hasChild(t, p)},
     value |-> findAttribute(t, "value")]
ReadPrivacy(t) ==
    LET LastName(name) == LET found == findChildren(t, name)
                          IN  IF found = <<>> THEN "" ELSE findAttribute(Last(found), "name")
        lists == findChildren(t, "list")
    IN  [context |-> "unread", default |-> LastName("default"), active |-> LastName("active"),
         names |-> TagsOf(LAMBDA l : findAttribute(l, "name"), lists),
         items |-> FlattenSeq(TagsOf(LAMBDA l : TagsOf(ReadPrivacyItem, l.kids), lists))]
PrivacyChild == [request |-> "list", remove |-> "list", store |-> "list",
                 default |-> "default", unsetDefault |-> "default",
                 activate |-> "active", unsetActivate |-> "active"]
WritePrivacy(x) ==
    Query("privacy",
          IF x.context = "names" THEN <<>>
          ELSE <<E(PrivacyChild[x.context], [name |-> PtrText(x.names)],
                   [n \in DOMAIN x.items |->
                      LET i == x.items[n]
                      IN  E("item",
                            [type |-> i.type, action |-> i.action, value |-> i.value,
                             order |-> ToString(n)],
                            IF i.packets = ToSet(Packets) THEN <<>>
                            ELSE TagsOf(LAMBDA p : Flag(p, p \in i.packets), Packets))])>>)

(* RosterManager::Query and RosterItemData; setSubscription() derives the  *)
(* state from the two attributes.                                          *)
SubscriptionOf(sub, ask) ==
    IF sub \in {"from", "to", "none"}
    THEN [from |-> <<"from", "fromOut">>, to |-> <<"to", "toIn">>,
          none |-> <<"none", "noneOut">>][sub][IF ask = "" THEN 1 ELSE 2]
    ELSE IF sub = "both" THEN "both" ELSE "none"
RosterItems == <<"query", "/", "item">>
ItemGroups == <<"item", "/", "group">>
RosterRemoval(jid) == [jid |-> jid, name |-> "", groups |-> <<>>, sub |-> "", ask |-> "",
                       subscription |-> "none", remove |-> TRUE]
ReadRosterItem(root, path) ==
    LET t == At(root, path)
        sub == findAttribute(t, "subscription")
        ask == findAttribute(t, "ask")
    IN  IF sub = "remove" THEN RosterRemoval(findAttribute(t, "jid"))
        ELSE [jid |-> findAttribute(t, "jid"), name |-> findAttribute(t, "name"),
              groups |-> TagsOf(LAMBDA p : At(root, p).cdata,
                                findTagList(root, path, ItemGroups)),
              sub |-> sub, ask |-> ask, subscription |-> SubscriptionOf(sub, ask),
              remove |-> FALSE]
ReadRoster(root, path) ==
    [roster |-> TagsOf(LAMBDA p : ReadRosterItem(root, p), findTagList(root, path, RosterItems))]
WriteRosterItem(i) ==
    IF i.remove THEN E("item", [jid |-> i.jid, subscription |-> "remove"], <<>>)
    ELSE E("item", [jid |-> i.jid, name |-> i.name, subscription |-> i.sub, ask |-> i.ask],
           TagsOf(LAMBDA g : Leaf("group", g), i.groups))
WriteRoster(x) == Query("roster", TagsOf(WriteRosterItem, x.roster))

(* NonSaslAuth::Query, LastActivity::Query, PrivateXML::Query *)
ReadNonSasl(t) == [user |-> "", pwd |-> "", resource |-> "", digest |-> hasChild(t, "digest")]
WriteNonSasl(x) ==
    IF x.user = "" THEN NoTag
    ELSE Query("auth",
               <<Leaf("username", x.user)>>
               \o (IF x.pwd = "" \/ x.resource = "" THEN <<>>
                   ELSE <<Leaf(IF x.digest THEN "digest" ELSE "password", x.pwd),
                          Leaf("resource", x.resource)>>))

ReadLast(t) ==
    [seconds |-> IF hasAttribute(t, "seconds") THEN Atoi(findAttribute(t, "seconds")) ELSE "-1",
     status |-> t.cdata]
WriteLast(x) == NewTag("query", Ns("last") @@ [seconds |-> x.seconds], <<>>, x.status)

ReadPrivateXML(t) == [privateXML |-> IF t.kids = <<>> THEN <<>> ELSE <<Head(t.kids)>>]
WritePrivateXML(x) == Query("private", x.privateXML)

-----------------------------------------------------------------------------
(* Disco::Info with its identities, Disco::Items with its items *)
ReadIdentity(t) ==
    [category |-> findAttribute(t, "category"), type |-> findAttribute(t, "type"),
     name |-> findAttribute(t, "name")]
WriteIdentity(x) ==
    IF x.category = "" \/ x.type = "" THEN NoTag
    ELSE E("identity", [category |-> x.category, type |-> x.type, name |-> x.name], <<>>)
ReadInfo(t) ==
    [node |-> findAttribute(t, "node"),
     identities |-> TagsOf(ReadIdentity, findChildren(t, "identity")),
     features |-> TagsOf(LAMBDA c : findAttribute(c, "var"),
                         SelectSeq(findChildren(t, "feature"),
                                   LAMBDA c : hasAttribute(c, "var"))),
     form |-> FormIn(t)]
WriteInfo(x) ==
    E("query", Ns("disco#info") @@ [node |-> x.node],
      TagsOf(WriteIdentity, x.identities)
      \o TagsOf(LAMBDA f : E("feature", [var |-> f], <<>>), x.features) \o WriteForms(x.form))

ReadDiscoItem(t) ==
    [jid |-> findAttribute(t, "jid"), node |-> findAttribute(t, "node"),
     name |-> findAttribute(t, "name")]
WriteDiscoItem(x) ==
    IF x.jid = "" THEN NoTag
    ELSE E("item", [jid |-> x.jid, node |-> x.node, name |-> x.name], <<>>)
ReadItems(t) ==
    [node |-> findAttribute(t, "node"), items |-> TagsOf(ReadDiscoItem, findChildren(t, "item"))]
WriteItems(x) ==
    E("query", Ns("disco#items") @@ [node |-> x.node], TagsOf(WriteDiscoItem, x.items))

(* SIManager::SI: the two children a file transfer needs. *)
SIChild(t, name, ns) ==
    LET c == findChildNs(t, name, ns) IN IF c = NoTag THEN <<>> ELSE <<c>>
ReadSI(t) ==
    [valid |-> TRUE, id |-> findAttribute(t, "id"), mimetype |-> findAttribute(t, "mime-type"),
     profile |-> findAttribute(t, "profile"),
     tag1 |-> SIChild(t, "file", "si:file-transfer"),
     tag2 |-> SIChild(t, "feature", "feature-neg")]
WriteSI(x) ==
    IF ~ x.valid THEN NoTag
    ELSE E("si", Ns("si") @@ [id |-> x.id, profile |-> x.profile] @@ ("mime-type" :> x.mimetype),
           x.tag1 \o x.tag2)

(* InBandBytestream::IBB: the only element whose text is not a string but  *)
(* a sequence, the data in base64.                                         *)
ReadIBB(t) ==
    [type |-> Lookup(t.name, {"open", "data", "close"}), sid |-> findAttribute(t, "sid"),
     seq |-> Atoi(findAttribute(t, "seq")), blockSize |-> Atoi(findAttribute(t, "block-size")),
     data |-> decode64(t.cdata)]
WriteIBB(x) ==
    LET size == IF x.type = "open" THEN x.blockSize ELSE ""
    IN  IF x.type = "" THEN NoTag
        ELSE NewTag(x.type,
                    Ns("ibb") @@ [sid |-> x.sid, seq |-> IF x.type = "data" THEN x.seq ELSE ""]
                    @@ ("block-size" :> size),
                    <<>>, IF x.type = "data" THEN encode64(x.data) ELSE <<>>)

(* SOCKS5BytestreamManager::Query: the last child it knows decides. *)
NoS5B == [type |-> "", sid |-> "", mode |-> "tcp", jid |-> "", hosts |-> <<>>]
ReadStreamHost(t) == [jid |-> findAttribute(t, "jid"), host |-> findAttribute(t, "host"),
                      port |-> Atoi(findAttribute(t, "port"))]
ReadS5B(t) ==
    FoldLeft(LAMBDA x, c :
               CASE /\ c.name = "streamhost"
                    /\ {"jid", "host", "port"} \subseteq DOMAIN c.attrs ->
                      [x EXCEPT !.type = "hosts", !.hosts = Append(@, ReadStreamHost(c))]
                 [] c.name = "streamhost-used" ->
                      [x EXCEPT !.type = "used", !.jid = findAttribute(c, "jid")]
                 [] c.name = "activate" -> [x EXCEPT !.type = "activate", !.jid = c.cdata]
                 [] OTHER -> x,
             [NoS5B EXCEPT !.sid = findAttribute(t, "sid"),
                           !.mode = DefLookup(findAttribute(t, "mode"), {"tcp", "udp"}, "tcp")],
             t.kids)
WriteS5B(x) ==
    IF x.type = "" THEN NoTag
    ELSE E("query",
           Ns("bytestreams") @@ [sid |-> x.sid, mode |-> IF x.type = "hosts" THEN x.mode ELSE ""],
           CASE x.type = "hosts" ->
                  TagsOf(LAMBDA h : E("streamhost", [jid |-> h.jid, host |-> h.host,
                                                     port |-> h.port], <<>>), x.hosts)
             [] x.type = "used" -> <<E("streamhost-used", [jid |-> x.jid], <<>>)>>
             [] OTHER -> <<Leaf("activate", x.jid)>>)

(* FlexibleOffline::Offline reads nothing. *)
ReadOffline(t) == [context |-> "unread", msgs |-> <<>>]
WriteOffline(x) ==
    E("offline", Ns("offline"),
      IF x.msgs = <<>> THEN <<Leaf(IF x.context = "request" THEN "fetch" ELSE "purge", "")>>
      ELSE TagsOf(LAMBDA m : E("item", [action |-> IF x.context = "request" THEN "view"
                                                   ELSE "remove", node |-> m], <<>>),
                  x.msgs))

(* Client::ResourceBind, ClientBase::Ping *)
ReadBind(t) ==
    [valid |-> TRUE, bind |-> t.name = "bind", jid |-> Text(t, "jid"),
     resource |-> IF hasChild(t, "jid") THEN "" ELSE Text(t, "resource")]
(* mutant: the address is preferred to the resource *)
WriteBindByJid(x) ==
    E(IF x.bind THEN "bind" ELSE "unbind", Ns("bind"),
      IF x.jid /= "" THEN <<Leaf("jid", x.jid)>> ELSE <<Leaf("resource", x.resource)>>)

WriteBind(x) ==
    IF ~ x.valid THEN NoTag
    ELSE E(IF x.bind THEN "bind" ELSE "unbind", Ns("bind"),
           IF x.bind /\ x.resource = "" /\ x.jid /= "" THEN <<Leaf("jid", x.jid)>>
           ELSE <<Leaf("resource", x.resource)>>)
ReadPing(t) == [ping |-> TRUE]
WritePing(x) == E("ping", Ns("ping"), <<>>)

-----------------------------------------------------------------------------
(* The payloads of publish-subscribe requests (pubsubmanager.cpp,          *)
(* pubsubitem.cpp): a request's context is the element that carries it,    *)
(* with "set" in front where one element serves two contexts, "" the       *)
(* invalid one.                                                            *)
PubSubPath(name) == <<"pubsub", "/", name>>
Subscriptions == {"none", "subscribed", "pending", "unconfigured"}
PubSubAffiliations == {"none", "publisher", "owner", "outcast"}

(* Item: an element of another name leaves a blank one. *)
ReadItem(t) ==
    IF t.name /= "item" THEN [id |-> "", payload |-> <<>>]
    ELSE [id |-> findAttribute(t, "id"),
          payload |-> IF t.kids = <<>> THEN <<>> ELSE <<Head(t.kids)>>]
WriteItem(i) == E("item", [id |-> i.id], i.payload)

-----------------------------------------------------------------------------
(* Manager::PubSubOwner.  A configuration with a form is read as an answer, *)
(* one without as a change.                                                 *)
NoOwner == [ctx |-> "", node |-> "", form |-> <<>>, subList |-> <<>>, affList |-> <<>>]
ReadSubscriber(c) ==
    [jid |-> findAttribute(c, "jid"), subid |-> findAttribute(c, "subid"),
     type |-> Lookup(findAttribute(c, "subscription"), Subscriptions)]
ReadAffiliate(c) ==
    [jid |-> findAttribute(c, "jid"),
     type |-> Lookup(findAttribute(c, "affiliation"), PubSubAffiliations)]
OwnerContexts ==
    <<"delete", "purge", "configure", "default", "subscriptions", "affiliations">>
ReadPubSubOwner(root, path) ==
    LET there == SelectSeq(OwnerContexts,
                           LAMBDA c : findTag(root, path, PubSubPath(c)) /= NoTag)
        ctx == Head(there)
        t == findTag(root, path, PubSubPath(ctx))
        x == [NoOwner EXCEPT !.ctx = ctx, !.node = findAttribute(t, "node")]
    IN  CASE there = <<>> -> NoOwner
          [] there /= <<>> /\ ctx = "configure" ->
               [x EXCEPT !.form = FormIn(t),
                         !.ctx = IF FormIn(t) = <<>> THEN "setconfigure" ELSE "configure"]
          [] there /= <<>> /\ ctx = "default" -> [x EXCEPT !.node = ""]
          [] there /= <<>> /\ ctx = "subscriptions" ->
               [x EXCEPT !.subList = TagsOf(ReadSubscriber, findChildren(t, "subscription"))]
          [] there /= <<>> /\ ctx = "affiliations" ->
               [x EXCEPT !.affList = TagsOf(ReadAffiliate, findChildren(t, "affiliation"))]
          [] OTHER -> x

OwnerElement == [c \in ToSet(OwnerContexts) |-> c]
                @@ [setconfigure |-> "configure", setsubscriptions |-> "subscriptions",
                    setaffiliations |-> "affiliations"]
WritePubSubOwner(x) ==
    LET name == OwnerElement[x.ctx]
        children ==
            CASE name = "configure" -> WriteForms(x.form)
              [] name = "subscriptions" ->
                   TagsOf(LAMBDA s : E("subscription", [jid |-> s.jid, subid |-> s.subid,
                                                        subscription |-> s.type], <<>>),
                          x.subList)
              [] name = "affiliations" ->
                   TagsOf(LAMBDA a : E("affiliation", [jid |-> a.jid, affiliation |-> a.type],
                                       <<>>), x.affList)
              [] OTHER -> <<>>
    IN  IF x.ctx = "" THEN NoTag
        ELSE E("pubsub", Ns("pubsub#owner"),
               <<E(name, [node |-> IF name = "default" THEN "" ELSE x.node], children)>>)

-----------------------------------------------------------------------------
(* Manager::PubSub: subscriptions and affiliations decide alone; the       *)
(* elements that follow may stand together, up to the first of subscription,*)
(* items, publish, retract and create.                                      *)
NoPubSub == [ctx |-> "", node |-> "", jid |-> "", subid |-> "", maxItems |-> "0",
             notify |-> FALSE, items |-> <<>>, options |-> [node |-> "", df |-> <<>>],
             subscriptions |-> <<>>, affiliations |-> <<>>]

(* The list of a node in the map, one entry longer. *)
Listed(map, node, entry) ==
    (node :> Append(IF node \in DOMAIN map THEN map[node] ELSE <<>>, entry)) @@ map

ReadSubscriptionLists(tags) ==
    FoldLeft(LAMBDA map, c : Listed(map, findAttribute(c, "node"), ReadSubscriber(c)),
             <<>>, tags)
ReadAffiliationMap(tags) ==
    FoldLeft(LAMBDA map, c : (findAttribute(c, "node") :>
                                Lookup(findAttribute(c, "affiliation"), PubSubAffiliations)) @@ map,
             <<>>, tags)

ReadSubscribe(x, s) ==
    IF s = NoTag THEN x
    ELSE [x EXCEPT !.ctx = "subscribe", !.node = findAttribute(s, "node"),
                   !.jid = findAttribute(s, "jid")]
ReadUnsubscribe(x, u) ==
    IF u = NoTag THEN x
    ELSE [x EXCEPT !.ctx = "unsubscribe", !.node = findAttribute(u, "node"),
                   !.jid = findAttribute(u, "jid"), !.subid = findAttribute(u, "subid")]
ReadOptions(x, o) ==
    IF o = NoTag THEN x
    ELSE [x EXCEPT !.ctx = IF @ = "" THEN "options" ELSE @, !.jid = findAttribute(o, "jid"),
                   !.options = [node |-> findAttribute(o, "node"),
                                df |-> IF FormIn(o) = <<>> THEN <<InvalidForm>> ELSE FormIn(o)]]

(* A single subscription is put into the map, its type from the attribute  *)
(* "type"; the context stays.  A retraction reads its items through the    *)
(* null pointer of the publication that is not there: not a value at all.  *)
ReadRequest(x, name, t) ==
    LET items == TagsOf(ReadItem, t.kids)
        node == findAttribute(t, "node")
    IN  CASE name = "subscription" ->
               [x EXCEPT !.subscriptions =
                   Listed(@, node, [jid |-> findAttribute(t, "jid"),
                                    subid |-> findAttribute(t, "subid"),
                                    type |-> Lookup(findAttribute(t, "type"), Subscriptions)])]
          [] name = "items" ->
               [x EXCEPT !.ctx = name, !.node = node, !.subid = findAttribute(t, "subid"),
                         !.maxItems = Atoi(findAttribute(t, "max_items")), !.items = items]
          [] name = "publish" -> [x EXCEPT !.ctx = name, !.node = node, !.items = items]
          [] OTHER -> [x EXCEPT !.ctx = name, !.node = node]

ReadPubSub(root, path) ==
    LET Found(name) == findTag(root, path, PubSubPath(name))
        All(list, name) ==
            TagsOf(LAMBDA p : At(root, p),
                   findTagList(root, path, PubSubPath(list) \o <<"/", name>>))
        subs == All("subscriptions", "subscription")
        affs == All("affiliations", "affiliation")
        x == ReadOptions(ReadUnsubscribe(ReadSubscribe(NoPubSub, Found("subscribe")),
                                         Found("unsubscribe")), Found("options"))
        there == SelectSeq(<<"subscription", "items", "publish", "create">>,
                           LAMBDA n : Found(n) /= NoTag)
    IN  IF subs /= <<>>
        THEN [NoPubSub EXCEPT !.ctx = "subscriptions",
                              !.subscriptions = ReadSubscriptionLists(subs)]
        ELSE IF affs /= <<>>
        THEN [NoPubSub EXCEPT !.ctx = "affiliations", !.affiliations = ReadAffiliationMap(affs)]
        ELSE IF there = <<>> THEN x
        ELSE ReadRequest(x, Head(there), Found(Head(there)))

(* Publish-options are made and not added. *)
WritePubSub(x) ==
    LET node == "node" :> x.node
        subscription(n, s) ==
            E("subscription", [node |-> n, jid |-> s.jid, subscription |-> s.type,
                               sid |-> s.subid], <<>>)
        children ==
            CASE x.ctx = "subscriptions" ->
                   <<E(x.ctx, <<>>,
                       FlattenSeq(TagsOf(LAMBDA n : TagsOf(LAMBDA s : subscription(n, s),
                                                           x.subscriptions[n]),
                                         SetToSeq(DOMAIN x.subscriptions))))>>
              [] x.ctx = "affiliations" ->
                   <<E(x.ctx, <<>>,
                       TagsOf(LAMBDA n : E("affiliation", [node |-> n,
                                             affiliation |-> x.affiliations[n]], <<>>),
                              SetToSeq(DOMAIN x.affiliations)))>>
              [] x.ctx = "subscribe" ->
                   <<E(x.ctx, node @@ [jid |-> x.jid], <<>>)>>
                   \o TagsOf(LAMBDA f : E("options", <<>>, <<WriteForm(f)>>), x.options.df)
              [] x.ctx = "unsubscribe" ->
                   <<E(x.ctx, node @@ [jid |-> x.jid, subid |-> x.subid], <<>>)>>
              [] x.ctx \in {"options", "setoptions"} ->
                   <<E("options", [node |-> x.options.node, jid |-> x.jid],
                       WriteForms(x.options.df))>>
              [] x.ctx = "items" ->
                   <<E(x.ctx, node @@ [subid |-> x.subid, max_items |->
                                         IF x.maxItems = "0" THEN "" ELSE x.maxItems],
                       TagsOf(WriteItem, x.items))>>
              [] x.ctx = "publish" -> <<E(x.ctx, node, TagsOf(WriteItem, x.items))>>
              [] x.ctx = "retract" ->
                   <<E(x.ctx, node @@ [notify |-> IF x.notify THEN "true" ELSE ""],
                       TagsOf(WriteItem, x.items))>>
              [] OTHER -> <<E("create", node, <<>>),
                            E("configure", <<>>, WriteForms(x.options.df))>>
    IN  IF x.ctx = "" THEN NoTag ELSE E("pubsub", Ns("pubsub"), children)
=============================================================================
