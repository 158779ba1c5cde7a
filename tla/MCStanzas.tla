---------------------------- MODULE MCStanzas ----------------------------
(* Values of every kind of extension: a full one, a bare one and those     *)
(* that a reader could take for another.                                   *)
EXTENDS StanzaContents

MCRegistered == FoldSet(LAMBDA k, exts : Append(exts, k), <<>>, Kinds)
MCChanging == {"shim", "receipts", "mucuser"}

MCHeaders ==
    {[NoStanza EXCEPT !.name = "iq", !.type = "set", !.to = "s", !.id = "q1"],
     [NoStanza EXCEPT !.name = "message", !.type = "normal", !.from = "a@s/r",
                      !.body = ("" :> "hi") @@ [de |-> "hallo"], !.subject = [de |-> "hi"],
                      !.thread = "t"],
     [NoStanza EXCEPT !.name = "message", !.type = "chat", !.id = "q1", !.subject = "" :> "hi"],
     [NoStanza EXCEPT !.name = "presence", !.type = "away", !.id = "q1", !.to = "s",
                      !.status = "" :> "hi", !.priority = "7"],
     [NoStanza EXCEPT !.name = "presence", !.type = "unavailable"],
     [NoStanza EXCEPT !.name = "subscription", !.type = "subscribe", !.to = "a@s",
                      !.status = [de |-> "hallo"]]}

Field(type, values) ==
    [type |-> type, name |-> "f", label |-> "l", required |-> type = "boolean", desc |-> "",
     values |-> values, options |-> <<<<"l", "o">>, <<"", "p">>>>]
Form == [type |-> "form", title |-> "t", instructions |-> <<"i", "j">>,
         fields |-> <<Field("boolean", <<"true">>), Field("list-single", <<"o", "p">>),
                      Field("", <<"o">>), Field("text-multi", <<"o", "p">>),
                      Field("none", <<>>), Field("boolean", <<>>)>>,
         reported |-> <<<<Field("fixed", <<"o">>)>>>>,
         items |-> <<<<Field("hidden", <<"o">>)>>, <<>>>>]
BareForm == [InvalidForm EXCEPT !.type = "submit"]
Forms == {<<>>, <<BareForm>>, <<InvalidForm>>, <<Form>>}

Item(id) == [id |-> id, payload |-> <<Leaf("entry", "e")>>]
ItemTag(name) == E(name, [id |-> "i1"], <<Leaf("entry", "e")>>)
Operation(t) == [retract |-> FALSE, item |-> "i1", payload |-> <<t>>]
Event(type) == [NoEvent EXCEPT !.type = type, !.node = "n1"]

MUCItem(role, affiliation) ==
    [jid |-> "a@s/r", nick |-> "n", role |-> role, affiliation |-> affiliation, reason |-> "why"]
MUCUserOf(operation, jid) ==
    [NoMUCUser EXCEPT !.operation = operation, !.jid = <<jid>>, !.reason = <<"why">>,
                      !.continue = TRUE, !.thread = <<"t">>, !.password = <<"p">>]
CommandOf(actions, action, status) ==
    [node |-> "n1", sessionid |-> "x1", status |-> status, action |-> action,
     actions |-> actions, notes |-> <<[severity |-> "warn", note |-> "so"]>>, form |-> <<Form>>]
RegistrationOf(form, oob, del) ==
    [form |-> form, oob |-> oob, values |-> [username |-> "u", text |-> ""], del |-> del,
     reg |-> TRUE, instructions |-> "i"]
Url(iqext) == [iqext |-> iqext, valid |-> TRUE, url |-> "u", desc |-> "d"]
Result == [NoResult EXCEPT !.jid = "a@s/r", !.nick = "n"]
PrivacyItem(packets) ==
    [type |-> "jid", action |-> "deny", packets |-> packets, value |-> "a@s"]
PrivacyOf(context, names) ==
    [context |-> context, default |-> "", active |-> "", names |-> names,
     items |-> <<PrivacyItem(ToSet(Packets)), PrivacyItem({"iq"})>>]
RosterItem(sub, ask) ==
    [jid |-> "a@s", name |-> "n", groups |-> <<"g1", "g2">>, sub |-> sub, ask |-> ask,
     subscription |-> SubscriptionOf(sub, ask), remove |-> FALSE]
Host(jid) == [jid |-> jid, host |-> "h", port |-> "7"]
S5BOf(type) == [type |-> type, sid |-> "x1", mode |-> "udp", jid |-> "a@s",
                hosts |-> <<Host("a@s"), Host("")>>]
IBBOf(type) == [type |-> type, sid |-> "x1", seq |-> "1", blockSize |-> "4096",
                data |-> <<0, 77, 255, 128>>]
Jids == [jid |-> "a@s", subid |-> "x1", type |-> "subscribed"]
PubSubOf(ctx, df) ==
    [NoPubSub EXCEPT !.ctx = ctx, !.node = "n1", !.jid = "a@s/r", !.subid = "x1",
                     !.maxItems = "2", !.items = <<Item("i1"), Item("")>>,
                     !.options = [node |-> "n2", df |-> df],
                     !.subscriptions = [n1 |-> <<Jids, Jids>>, n2 |-> <<Jids>>],
                     !.affiliations = [n1 |-> "owner"]]
OwnerOf(ctx, form) ==
    [ctx |-> ctx, node |-> "n1", form |-> form, subList |-> <<Jids>>,
     affList |-> <<[jid |-> "a@s", type |-> "publisher"]>>]

BlankCard == [NoVCard EXCEPT !.N = FALSE]
Card ==
    setOrganization(
      setGeo(
        addTelephone(
          addLabel(
            addAddress(
              addEmail(
                setPhoto(
                  setName([NoVCard EXCEPT !.texts = [f \in DOMAIN @ |-> "x"], !.class = "PUBLIC"],
                          [NoVCard.name EXCEPT !["GIVEN"] = "g"]),
                  "png", <<1, 2, 3>>),
                "e", {"WORK", "PREF"}),
              [f \in ToSet(AddressParts) |-> "y"], {"DOM", "INTL"}),
            <<"l">>, {"HOME"}),
          "5", {"CELL"}),
        "1", "2"),
      "o", <<"u1", "u2">>)

MCSamples == [
    nickname |-> {[nick |-> "n"], [nick |-> ""]},
    delay |-> {[valid |-> TRUE, from |-> "s", stamp |-> "d1", reason |-> "why"],
               [valid |-> TRUE, from |-> "", stamp |-> "d1", reason |-> ""], NoDelay},
    receipts |-> [rcpt : Receipts \cup {""}],
    chatstates |-> [state : ChatStates],
    messageevent |-> [event : SUBSET {"offline", "composing"}, id : {"", "q1"}]
                     \cup {[event |-> {"cancel"}, id |-> ""]},
    version |-> {[name |-> "n", version |-> "1", os |-> "o"],
                 [name |-> "n", version |-> "", os |-> ""]},
    vcardupdate |-> [valid : {TRUE}, notReady : BOOLEAN, noImage : BOOLEAN, hash : {"", "h"}],
    xhtml |-> {ReadXHtml(E("html", Ns("xhtml-im"),
                           <<NewTag("body", Ns("xhtml"), <<Leaf("p", "x")>>, "")>>))},
    attention |-> {[attention |-> TRUE]},
    gpgencrypted |-> {[valid |-> TRUE, data |-> "x"]},
    gpgsigned |-> {[valid |-> TRUE, data |-> "x"]},
    oob |-> {Url(TRUE), Url(FALSE)},
    shim |-> {[headers |-> [a |-> "1", b |-> "2"]]},
    error |-> {[type |-> "cancel", error |-> "conflict",
                text |-> ("" :> "hi") @@ [de |-> "hallo"],
                appError |-> <<E("app", Ns("a"), <<>>)>>],
               [type |-> "wait", error |-> "bad-request", text |-> <<>>, appError |-> <<>>],
               [type |-> "wait", error |-> "", text |-> <<>>, appError |-> <<>>]},
    featureneg |-> [form : Forms],
    dataform |-> {Form, BareForm, InvalidForm,
                  [Form EXCEPT !.type = "result", !.reported = <<>>, !.title = ""]},
    caps |-> {[valid |-> TRUE, node |-> "n1", ver |-> "v", hash |-> "sha-1"]},
    amp |-> {[valid |-> TRUE, from |-> "s", to |-> "a@s", status |-> "notify", perhop |-> TRUE,
              rules |-> <<[condition |-> "expire-at", action |-> "drop", value |-> "d1"],
                          [condition |-> "deliver", action |-> "alert", value |-> "stored"]>>]},
    pubsubevent |->
       {[Event("collection") EXCEPT !.config = <<E("x", Ns("x:data"), <<>>)>>],
        [Event("configuration") EXCEPT !.config = <<E("x", Ns("x:data"), <<>>)>>],
        Event("delete"), [Event("purge") EXCEPT !.subscriptionIDs = <<<<"x1", "x2">>>>],
        [Event("items") EXCEPT !.itemOperations = <<<<Operation(ItemTag("item"))>>>>,
                               !.subscriptionIDs = <<<<"x1">>>>, !.collection = "n2"],
        [Event("retracted") EXCEPT !.itemOperations =
                                      <<<<Operation(ItemTag("retract"))>>>>],
        Event("retracted"),
        [Event("subscription") EXCEPT !.jid = "a@s", !.subscribed = TRUE]},
    mucadmin |-> {[list |-> <<MUCItem("none", ""), MUCItem("", "owner")>>,
                   role |-> "none", affiliation |-> ""],
                  [list |-> <<MUCItem("none", "")>>, role |-> "", affiliation |-> ""],
                  [list |-> <<>>, role |-> "", affiliation |-> "member"]},
    mucowner |-> [valid : {TRUE}, type : {"instant", "send", "destroy", "request"},
                  jid : {"a@s/r"}, reason : {"why"}, pwd : {"p"}, form : Forms],
    mucuser |-> {MUCUserOf("inviteTo", "a@s"), MUCUserOf("inviteFrom", "a@s"),
                 MUCUserOf("declineTo", "a@s"), MUCUserOf("declineFrom", "a@s"),
                 [NoMUCUser EXCEPT !.affiliation = "owner", !.jid = <<"a@s/r">>,
                                   !.actor = <<"b@s">>, !.flags = {"110", "201"},
                                   !.newNick = <<"n">>],
                 [NoMUCUser EXCEPT !.role = "visitor", !.del = TRUE],
                 [NoMUCUser EXCEPT !.del = TRUE, !.alternate = <<"r@s">>, !.reason = <<"why">>],
                 NoMUCUser},
    muc |-> {NoMUC, [password |-> <<"p">>, since |-> <<"d1">>, historyType |-> "since",
                     historyValue |-> "0"]},
    unique |-> {[name |-> ""], [name |-> "r"]},
    adhoc |-> {CommandOf({}, "execute", ""), CommandOf({}, "", "completed"),
               CommandOf({"prev", "next"}, "next", ""), CommandOf({"complete"}, "", "canceled")},
    registration |-> {RegistrationOf(<<Form>>, <<Url(FALSE)>>, TRUE),
                      RegistrationOf(<<>>, <<Url(FALSE)>>, TRUE),
                      RegistrationOf(<<>>, <<Url(TRUE)>>, FALSE),
                      RegistrationOf(<<>>, <<>>, TRUE), RegistrationOf(<<>>, <<>>, FALSE)},
    search |-> [form : Forms, values : {<<>>, [first |-> "f", email |-> ""]},
                instructions : {"i"}, srl : {<<Result, NoResult>>}],
    privacy |-> {PrivacyOf(c, <<"n">>) : c \in DOMAIN PrivacyChild}
                \cup {PrivacyOf("names", <<>>)},
    roster |-> {[roster |-> <<RosterItem("from", ""), RosterItem("to", "subscribe"),
                              RosterRemoval("a@s")>>],
                [roster |-> <<RosterItem("both", ""), RosterItem("none", "subscribe")>>]},
    auth |-> [user : {"", "u"}, pwd : {"", "p"}, resource : {"r"}, digest : BOOLEAN],
    last |-> [seconds : {"-1", "0", "7"}, status : {"", "hi"}],
    private |-> {[privateXML |-> <<>>], [privateXML |-> <<E("storage", Ns("b"), <<Leaf("c", "x")>>)>>]},
    discoinfo |-> [node : {"", "n1"}, features : {<<"f", "", "g">>}, form : Forms,
                   identities : {<<[category |-> "c", type |-> "t", name |-> "n"],
                                   [category |-> "c", type |-> "", name |-> "n"]>>}],
    discoitems |-> {[node |-> "n1", items |-> <<[jid |-> "a@s", node |-> "n2", name |-> ""],
                                                [jid |-> "", node |-> "n2", name |-> "n"]>>]},
    si |-> {[valid |-> TRUE, id |-> "x1", mimetype |-> "m", profile |-> "p",
             tag1 |-> <<NewTag("file", Ns("si:file-transfer") @@ [size |-> "7"], <<>>, "")>>,
             tag2 |-> <<WriteFeatureNeg([form |-> <<BareForm>>])>>]},
    ibb |-> {IBBOf(t) : t \in {"", "open", "data", "close"}},
    bytestreams |-> {S5BOf(t) : t \in {"", "hosts", "used", "activate"}},
    offline |-> [context : {"request", "remove"}, msgs : {<<>>, <<"i1">>}],
    bind |-> [valid : {TRUE}, bind : BOOLEAN, jid : {"", "a@s/r"}, resource : {"", "r"}],
    ping |-> {[ping |-> TRUE]},
    vcard |-> {Card, BlankCard, setPhotoUri(BlankCard, "u"),
               [Card EXCEPT !.lat = "", !.orgname = "", !.emails[1].userid = ""],
               setPhoto(setPhotoUri(BlankCard, ""), "png", <<>>)},
    pubsub |-> {PubSubOf(c, <<Form>>) : c \in {"", "subscriptions", "affiliations", "subscribe",
                    "unsubscribe", "options", "setoptions", "items", "publish", "retract",
                    "create"}}
               \cup {PubSubOf(c, <<>>) : c \in {"subscribe", "options"}},
    pubsubowner |-> {OwnerOf(c, <<Form>>) : c \in DOMAIN OwnerElement}
                    \cup {OwnerOf("configure", <<>>), OwnerOf("", <<>>)}]

Ext(kind, x) == [kind |-> kind, value |-> x]
(* One value in the first stanza of each name, or two values of kinds whose *)
(* elements differ in little.                                               *)
Carriers(kind) ==
    {s \in MCHeaders : s.type \in {"set", "normal", "away", "subscribe"}
                       /\ \E e \in ToSet(Elements[kind]) :
                             e.steps[1] = IF s.name = "subscription" THEN "presence" ELSE s.name}
Alike == {{"delay", "messageevent", "gpgsigned", "dataform", "mucuser"},
          {"mucowner", "registration", "search", "pubsub", "pubsubowner"}}
OneOf(kind) == CHOOSE x \in MCSamples[kind] : Write(kind, x) /= NoTag
MCSendable ==
    MCHeaders
    \cup UNION {{[s EXCEPT !.extensions = <<Ext(k, x)>>] : s \in Carriers(k), x \in MCSamples[k]} :
                 k \in Kinds}
    \cup UNION {UNION {{[s EXCEPT !.extensions = <<Ext(k, OneOf(k)), Ext(l, OneOf(l))>>] :
                            s \in Carriers(k) \cap Carriers(l)} : k \in a, l \in a} : a \in Alike}

-----------------------------------------------------------------------------
T(name, attributes, children) == NewTag(name, attributes, children, "")
MCTrees ==
    {T("a", <<>>, <<T("b", [k |-> "v"], <<T("a", [k |-> "w"], <<T("b", <<>>, <<>>)>>)>>),
                    T("b", [k |-> "w"], <<>>), T("c", [j |-> "v"], <<T("b", [k |-> "v"], <<>>)>>)>>),
     T("b", [k |-> "v"], <<T("a", <<>>, <<T("a", <<>>, <<T("b", [k |-> "v"], <<>>)>>)>>)>>)}

Step(name, attr, value, deep, dot) ==
    [name |-> name, attr |-> attr, value |-> value, deep |-> deep, dot |-> dot]
Firsts == {Step("a", "", "", FALSE, FALSE), Step("*", "", "", FALSE, FALSE),
           Step("b", "k", "", FALSE, FALSE), Step("b", "k", "v", FALSE, FALSE)}
Steps == Firsts \cup {Step("b", "", "", TRUE, FALSE), Step("b", "", "", FALSE, TRUE),
                      Step("a", "", "", TRUE, FALSE)}
StepText(s) ==
    (IF s.dot THEN <<".", "/">> ELSE <<>>) \o <<s.name>>
    \o (CASE s.attr = "" -> <<>>
          [] s.attr /= "" /\ s.value = "" -> <<"[", "@", s.attr, "]">>
          [] OTHER -> <<"[", "@", s.attr, "=", "'", s.value, "'", "]">>)
Leads == ("" :> <<>>) @@ ("/" :> <<"/">>) @@ ("//" :> <<"/", "/">>)
Text1(lead, steps) ==
    FoldLeft(LAMBDA text, i : text \o (IF steps[i].deep THEN <<"/", "/">> ELSE <<"/">>)
                                   \o StepText(steps[i]),
             Leads[lead] \o StepText(steps[1]), [i \in 1..(Len(steps) - 1) |-> i + 1])
Path(lead, alternatives) ==
    [lead |-> lead, alternatives |-> alternatives,
     expression |-> FoldLeft(LAMBDA text, steps : text \o <<"|">> \o Text1(lead, steps),
                             Text1(lead, Head(alternatives)), Tail(alternatives))]
OneStep == {<<f>> : f \in Firsts}
TwoSteps == {<<f, s>> : f \in Firsts, s \in Steps}
ThreeSteps == {Append(t, s) : t \in TwoSteps, s \in Steps}
MCPaths ==
    {Path(l, <<t>>) : l \in DOMAIN Leads, t \in OneStep \cup TwoSteps \cup ThreeSteps}
    \cup {Path(l, <<t, u>>) : l \in DOMAIN Leads, t \in OneStep, u \in TwoSteps}
=============================================================================
