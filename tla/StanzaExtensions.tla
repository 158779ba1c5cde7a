---------------------- MODULE StanzaExtensions ----------------------
(* The extensions of messages and presences, and those shared by all       *)
(* stanzas: for each class the constructor that reads an element (Read...) *)
(* and tag(), which writes one (Write...; NoTag for a null pointer).       *)
(*                                                                         *)
(* A value is the record of the object's members.  An enumerator is the    *)
(* string it is written as, "" the invalid one; a set of flags is a set; a *)
(* number is the string it is written as; an object behind a pointer is a  *)
(* sequence of at most one.  A map keeps its keys and values; a multimap   *)
(* is the sequence of its pairs, in the order they were read.              *)
EXTENDS Tag, TLC

E(name, attributes, children) == NewTag(name, attributes, children, "")
Leaf(name, text) == NewTag(name, <<>>, <<>>, text)
Opt(name, text) == IF text = "" THEN NoTag ELSE Leaf(name, text)
Flag(name, set) == IF set THEN Leaf(name, "") ELSE NoTag
Ns(ns) == "xmlns" :> ns

Has(t, a, v) == hasAttribute(t, a) /\ findAttribute(t, a) = v

(* findChild( name )->cdata(), "" when there is none. *)
Text(t, name) == findChild(t, name).cdata

(* The text of the last child of the name: a loop that assigns. *)
LastText(t, name) ==
    LET found == findChildren(t, name) IN IF found = <<>> THEN "" ELSE Last(found).cdata

(* util::lookup and util::deflookup. *)
Lookup(s, values) == IF s \in values THEN s ELSE ""
DefLookup(s, values, default) == IF s \in values THEN s ELSE default

(* atoi() of the texts that occur. *)
Atoi(s) == IF s \in {"-1", "1", "2", "7", "4096"} THEN s ELSE "0"

(* JID::bare(). *)
Bare(jid) == IF jid = "a@s/r" THEN "a@s" ELSE jid

TagsOf(Write(_), values) == [i \in DOMAIN values |-> Write(values[i])]

-----------------------------------------------------------------------------
(* Nickname, DelayedDelivery, Receipt, ChatState, MessageEvent *)
ReadNickname(t) == [nick |-> t.cdata]
WriteNickname(x) ==
    IF x.nick = "" THEN NoTag ELSE NewTag("nick", Ns("nick"), <<>>, x.nick)

NoDelay == [valid |-> FALSE, from |-> "", stamp |-> "", reason |-> ""]
ReadDelay(t) ==
    IF /\ hasAttribute(t, "stamp")
       /\ <<t.name, xmlns(t)>> \in {<<"x", "x:delay">>, <<"delay", "delay">>}
    THEN [valid |-> TRUE, from |-> findAttribute(t, "from"),
          stamp |-> findAttribute(t, "stamp"), reason |-> t.cdata]
    ELSE NoDelay
WriteDelay(x) ==
    IF ~ x.valid THEN NoTag
    ELSE NewTag("delay", Ns("delay") @@ [from |-> x.from, stamp |-> x.stamp],
                <<>>, x.reason)

Receipts == {"request", "received"}
ReadReceipt(t) == [rcpt |-> Lookup(t.name, Receipts)]
WriteReceipt(x) == IF x.rcpt = "" THEN NoTag ELSE E(x.rcpt, Ns("receipts"), <<>>)

ChatStates == {"active", "composing", "paused", "inactive", "gone"}
ReadChatState(t) == [state |-> Lookup(t.name, ChatStates)]
WriteChatState(x) == IF x.state = "" THEN NoTag ELSE E(x.state, Ns("chatstates"), <<>>)

(* A child of any other name sets the bit after the last one, which is     *)
(* MessageEventCancel; the id is such a child and is not read.             *)
Events == <<"offline", "delivered", "displayed", "composing">>
ReadMessageEvent(t) ==
    [event |-> IF t.kids = <<>> THEN {"cancel"}
               ELSE {DefLookup(t.kids[i].name, ToSet(Events), "cancel") : i \in DOMAIN t.kids},
     id |-> ""]
WriteMessageEvent(x) ==
    E("x", Ns("x:event"),
      TagsOf(LAMBDA n : Flag(n, n \in x.event), Events) \o <<Opt("id", x.id)>>)

(* SoftwareVersion, VCardUpdate, XHtmlIM, Attention, GPG, OOB, SHIM *)
ReadVersion(t) ==
    [name |-> Text(t, "name"), version |-> Text(t, "version"), os |-> Text(t, "os")]
WriteVersion(x) ==
    E("query", Ns("version"),
      <<Opt("name", x.name), Opt("version", x.version), Opt("os", x.os)>>)

ReadVCardUpdate(t) ==
    LET hash == Text(t, "photo")
    IN  [valid |-> t.name = "x" /\ xmlns(t) = "x:vcard:update",
         notReady |-> ~ hasChild(t, "photo"), noImage |-> hash = "", hash |-> hash]
WriteVCardUpdate(x) ==
    IF ~ x.valid THEN NoTag
    ELSE E("x", Ns("x:vcard:update"),
           IF x.notReady THEN <<>>
           ELSE <<Leaf("photo", IF x.noImage THEN "" ELSE x.hash)>>)

ReadXHtml(t) ==
    [xhtml |-> IF findChildNs(t, "body", "xhtml") = NoTag THEN <<>> ELSE <<t>>]
WriteXHtml(x) == Head(x.xhtml)

ReadAttention(t) == [attention |-> TRUE]
WriteAttention(x) == E("attention", Ns("attention"), <<>>)

ReadGPG(t, ns) == [valid |-> t.name = "x" /\ xmlns(t) = ns, data |-> t.cdata]
WriteGPG(x, ns) == IF x.valid THEN NewTag("x", Ns(ns), <<>>, x.data) ELSE NoTag

ReadOOB(t) ==
    [iqext |-> t.name = "query", valid |-> hasChild(t, "url"),
     url |-> Text(t, "url"), desc |-> Text(t, "desc")]
WriteOOB(x) ==
    IF ~ x.valid THEN NoTag
    ELSE E(IF x.iqext THEN "query" ELSE "x", Ns(IF x.iqext THEN "iq:oob" ELSE "x:oob"),
           <<Leaf("url", x.url), Opt("desc", x.desc)>>)

(* Reading stops at the first child that is not a named header; of two     *)
(* headers of one name the first is kept.                                  *)
ReadSHIM(t) ==
    LET Bad(c) == c.name /= "header" \/ ~ hasAttribute(c, "name")
        n == SelectInSeq(t.kids, Bad)
        read == IF n = 0 THEN t.kids ELSE SubSeq(t.kids, 1, n - 1)
    IN  [headers |-> FoldLeft(LAMBDA f, c : f @@ (findAttribute(c, "name") :> c.cdata),
                              <<>>, read)]
WriteSHIM(x) ==
    IF DOMAIN x.headers = {} THEN NoTag
    ELSE E("headers", Ns("shim"),
           TagsOf(LAMBDA h : NewTag("header", [name |-> h], <<>>, x.headers[h]),
                  SetToSeq(DOMAIN x.headers)))

-----------------------------------------------------------------------------
(* Error: of the conditions and of the other elements the last is kept. *)
ErrorTypes == {"auth", "cancel", "continue", "modify", "wait"}
StanzaErrors == {"bad-request", "conflict", "forbidden", "item-not-found",
                 "not-allowed", "service-unavailable", "undefined-condition"}
ReadError(t) ==
    FoldLeft(LAMBDA x, c :
               IF c.name \in StanzaErrors THEN [x EXCEPT !.error = c.name]
               ELSE IF c.name = "text"
                    THEN [x EXCEPT !.text = (findAttribute(c, "xml:lang") :> c.cdata) @@ @]
               ELSE [x EXCEPT !.appError = <<c>>],
             [type |-> Lookup(findAttribute(t, "type"), ErrorTypes), error |-> "",
              text |-> <<>>, appError |-> <<>>],
             t.kids)
WriteError(x) ==
    IF x.type = "" \/ x.error = "" THEN NoTag
    ELSE E("error", [type |-> x.type],
           <<E(x.error, Ns("stanzas"), <<>>)>>
           \o TagsOf(LAMBDA l : NewTag("text", Ns("stanzas") @@ ("xml:lang" :> l),
                                       <<>>, x.text[l]),
                     SetToSeq(DOMAIN x.text))
           \o x.appError)

(* DataForm and its parts.  The type "none" is the one written as "". *)
ListTypes == {"list-single", "list-multi"}
MultiTypes == {"text-multi", "list-multi", "jid-multi"}
FieldTypes == ListTypes \cup MultiTypes \cup
              {"boolean", "fixed", "hidden", "jid-single", "text-private", "text-single"}
ReadField(t) ==
    LET type == IF hasAttribute(t, "type") THEN Lookup(findAttribute(t, "type"), FieldTypes)
                ELSE "none"
        values == TagsOf(LAMBDA c : c.cdata, findChildren(t, "value"))
    IN  [type |-> type, name |-> findAttribute(t, "var"),
         label |-> findAttribute(t, "label"), required |-> hasChild(t, "required"),
         desc |-> LastText(t, "desc"),
         values |-> IF type \in MultiTypes \/ values = <<>> THEN values ELSE <<Last(values)>>,
         options |-> TagsOf(LAMBDA o : <<findAttribute(o, "label"), Text(o, "value")>>,
                            SelectSeq(findChildren(t, "option"),
                                      LAMBDA o : hasChild(o, "value")))]

Written(values) == TagsOf(LAMBDA v : Leaf("value", v), values)
WriteField(f) ==
    IF f.type = "" THEN NoTag
    ELSE E("field", [type |-> IF f.type = "none" THEN "" ELSE f.type,
                     var |-> f.name, label |-> f.label],
           <<Flag("required", f.required), Opt("desc", f.desc)>>
           \o (CASE f.type \in ListTypes ->
                      TagsOf(LAMBDA o : E("option", [label |-> o[1]], <<Leaf("value", o[2])>>),
                             f.options)
                 [] f.type = "boolean" ->
                      <<Leaf("value", IF \/ f.values = <<>>
                                         \/ Head(f.values) \in {"false", "0"}
                                      THEN "0" ELSE "1")>>
                 [] OTHER -> <<>>)
           \o (CASE f.type \in MultiTypes -> Written(f.values)
                 [] f.type = "boolean" \/ f.values = <<>> -> <<>>
                 [] OTHER -> Written(<<Head(f.values)>>)))

FormTypes == {"form", "submit", "cancel", "result"}
InvalidForm == [type |-> "", title |-> "", instructions |-> <<>>, fields |-> <<>>,
                reported |-> <<>>, items |-> <<>>]
(* parse(); any child of an item or of the report is taken for a field. *)
ReadForm(t) ==
    LET type == IF hasAttribute(t, "type") THEN Lookup(findAttribute(t, "type"), FormTypes)
                ELSE "form"
        Fields(c) == TagsOf(ReadField, c.kids)
        reported == TagsOf(Fields, findChildren(t, "reported"))
    IN  IF t.name /= "x" \/ xmlns(t) /= "x:data" \/ type = "" THEN InvalidForm
        ELSE [type |-> type, title |-> LastText(t, "title"),
              instructions |-> TagsOf(LAMBDA c : c.cdata, findChildren(t, "instructions")),
              fields |-> TagsOf(ReadField, findChildren(t, "field")),
              reported |-> IF reported = <<>> THEN <<>> ELSE <<Head(reported)>>,
              items |-> TagsOf(Fields, findChildren(t, "item"))]
WriteForm(x) ==
    IF x.type = "" THEN NoTag
    ELSE E("x", Ns("x:data") @@ [type |-> x.type],
           <<Opt("title", x.title)>>
           \o TagsOf(LAMBDA s : Leaf("instructions", s), x.instructions)
           \o TagsOf(WriteField, x.fields)
           \o TagsOf(LAMBDA fs : E("reported", <<>>, TagsOf(WriteField, fs)), x.reported)
           \o TagsOf(LAMBDA fs : E("item", <<>>, TagsOf(WriteField, fs)), x.items))

(* The form in the first child that can hold one, if there is such a child. *)
FormIn(t) ==
    LET x == findChildNs(t, "x", "x:data") IN IF x = NoTag THEN <<>> ELSE <<ReadForm(x)>>
WriteForms(forms) == TagsOf(WriteForm, forms)

(* FeatureNeg looks for the form with an expression relative to itself. *)
FeatureForm == <<"feature", "/", "x", "[", "@", "xmlns", "=", "'", "x:data", "'", "]">>
ReadFeatureNeg(root, path) ==
    LET f == findTag(root, path, FeatureForm)
    IN  [form |-> IF f = NoTag THEN <<>> ELSE <<ReadForm(f)>>]
WriteFeatureNeg(x) ==
    IF x.form = <<>> THEN NoTag ELSE E("feature", Ns("feature-neg"), WriteForms(x.form))

-----------------------------------------------------------------------------
(* Capabilities.  The hash over the disco information that ver() writes is *)
(* one value of the sender.                                                *)
ReadCapabilities(t) ==
    IF hasAttribute(t, "node") /\ hasAttribute(t, "ver")
    THEN [valid |-> TRUE, node |-> findAttribute(t, "node"),
          ver |-> findAttribute(t, "ver"), hash |-> findAttribute(t, "hash")]
    ELSE [valid |-> FALSE, node |-> "", ver |-> "", hash |-> ""]
WriteCapabilities(x) ==
    IF ~ x.valid \/ x.node = "" THEN NoTag
    ELSE E("c", Ns("caps") @@ [hash |-> x.hash, node |-> x.node, ver |-> x.ver], <<>>)

(* AMP and its rules.  The expression for the rules is absolute: it begins *)
(* at the stanza, not at the element.                                      *)
RuleValues == [deliver |-> {"direct", "forward", "gateway", "none", "stored"}]
              @@ ("match-resource" :> {"any", "exact", "other"})
              @@ ("expire-at" :> {"d1"})
ReadRule(t) ==
    LET condition == Lookup(findAttribute(t, "condition"), DOMAIN RuleValues)
        value == findAttribute(t, "value")
    IN  [condition |-> condition,
         action |-> Lookup(findAttribute(t, "action"), {"alert", "error", "drop", "notify"}),
         value |-> CASE condition = "" -> ""
                     [] condition = "expire-at" -> value
                     [] OTHER -> Lookup(value, RuleValues[condition])]
WriteRule(x) ==
    IF \/ x.condition = "" \/ x.action = ""
       \/ x.condition \in {"deliver", "match-resource"} /\ x.value = ""
    THEN NoTag
    ELSE E("rule", [condition |-> x.condition, action |-> x.action, value |-> x.value], <<>>)

AmpRules == <<"/", "amp", "/", "rule">>
ReadAMP(root, path) ==
    LET t == At(root, path)
        rules == findTagList(root, path, AmpRules)
    IN  [valid |-> TRUE, from |-> findAttribute(t, "from"), to |-> findAttribute(t, "to"),
         status |-> Lookup(findAttribute(t, "status"), {"alert", "notify"}),
         perhop |-> Has(t, "per-hop", "true") \/ Has(t, "per-hop", "1"),
         rules |-> TagsOf(LAMBDA p : ReadRule(At(root, p)), rules)]
WriteAMP(x) ==
    IF ~ x.valid \/ x.rules = <<>> THEN NoTag
    ELSE E("amp", Ns("amp") @@ [from |-> x.from, to |-> x.to, status |-> x.status]
                  @@ ("per-hop" :> IF x.perhop THEN "true" ELSE ""),
           TagsOf(WriteRule, x.rules))

-----------------------------------------------------------------------------
(* PubSub::Event: one child after another, the last one giving the type.   *)
(* "items" stands twice in the table of names, so it is read as the first  *)
(* and becomes the second ("retracted") at a retract element.              *)
NoEvent == [valid |-> TRUE, type |-> "", node |-> "", jid |-> "", subscribed |-> FALSE,
            subscriptionIDs |-> <<>>, collection |-> "", config |-> <<>>,
            itemOperations |-> <<>>]
FirstX(t) == LET x == findChild(t, "x") IN IF x = NoTag THEN <<>> ELSE <<x>>
ReadOperation(c) ==
    [retract |-> c.name = "retract", item |-> findAttribute(c, "id"), payload |-> <<c>>]
ReadHeaders(x, t) ==
    LET Named(n) == SelectSeq(t.kids, LAMBDA c : findAttribute(c, "name") = n)
        collections == Named("pubsub#collection")
    IN  [x EXCEPT
          !.subscriptionIDs = <<TagsOf(LAMBDA c : c.cdata, Named("pubsub#subid"))>>,
          !.collection = IF collections = <<>> THEN @ ELSE Last(collections).cdata]
ReadEventChild(x, t) ==
    LET node == findAttribute(t, "node")
    IN  CASE t.name = "collection" ->
               LET n == findChild(t, "node")
               IN  IF n = NoTag THEN [x EXCEPT !.type = t.name]
                   ELSE [x EXCEPT !.type = t.name, !.node = findAttribute(n, "id"),
                                  !.config = FirstX(n)]
          [] t.name = "configuration" ->
               [x EXCEPT !.type = t.name, !.node = node, !.config = FirstX(t)]
          [] t.name \in {"delete", "purge"} -> [x EXCEPT !.type = t.name, !.node = node]
          [] t.name = "items" ->
               [x EXCEPT !.type = IF hasChild(t, "retract") THEN "retracted" ELSE "items",
                         !.node = node,
                         !.itemOperations =
                             <<(IF @ = <<>> THEN <<>> ELSE Head(@)) \o TagsOf(ReadOperation, t.kids)>>]
          [] t.name = "subscription" ->
               [x EXCEPT !.type = t.name, !.node = node, !.jid = findAttribute(t, "jid"),
                         !.subscribed = Has(t, "subscription", "subscribed")]
          [] t.name = "headers" /\ x.subscriptionIDs = <<>> -> ReadHeaders(x, t)
          [] OTHER -> [x EXCEPT !.valid = FALSE]
ReadEvent(t) ==
    FoldLeft(LAMBDA x, c : IF x.valid THEN ReadEventChild(x, c) ELSE x, NoEvent, t.kids)

WriteEventChild(x) ==
    LET node == "node" :> x.node
    IN  CASE x.type = "collection" ->
               E(x.type, <<>>, <<E("node", [id |-> x.node], x.config)>>)
          [] x.type = "configuration" -> E(x.type, node, x.config)
          [] x.type \in {"delete", "purge"} -> E(x.type, node, <<>>)
          [] x.type \in {"items", "retracted"} ->
               E("items", node, IF x.itemOperations = <<>> THEN <<>>
                                ELSE FlattenSeq(TagsOf(LAMBDA o : o.payload,
                                                       Head(x.itemOperations))))
          [] OTHER ->
               E(x.type, node @@ [jid |-> x.jid,
                                  subscription |-> IF x.subscribed THEN "subscribed" ELSE "none"],
                 <<>>)
WriteEvent(x) ==
    IF ~ x.valid \/ x.type = "" THEN NoTag
    ELSE E("event", Ns("pubsub#event"),
           <<WriteEventChild(x)>>
           \o (IF x.subscriptionIDs = <<>> THEN <<>>
               ELSE <<E("headers", Ns("shim"),
                        TagsOf(LAMBDA i : NewTag("header", [name |-> "pubsub#subid"], <<>>, i),
                               Head(x.subscriptionIDs))
                        \o (IF x.collection = "" THEN <<>>
                            ELSE <<NewTag("header", [name |-> "pubsub#collection"], <<>>,
                                          x.collection)>>))>>))

-----------------------------------------------------------------------------
(* Base64 (base64.cpp) over sequences of bytes.  A character of the         *)
(* encoded text is its position in the alphabet, from 0, and Pad.           *)
Pad == 64

(* table64(): a character outside the alphabet is (char)std::string::npos. *)
table64(c) == IF c < 64 THEN c ELSE 255

encode64(input) ==
    LET n == Len(input)
        B(i) == IF i <= n THEN input[i] ELSE 0
        Group(i) ==
            <<B(i) \div 4,
              (B(i) % 4) * 16 + B(i + 1) \div 16,
              IF i + 1 <= n THEN (B(i + 1) % 16) * 4 + B(i + 2) \div 64 ELSE Pad,
              IF i + 2 <= n THEN B(i + 2) % 64 ELSE Pad>>
    IN  FlattenSeq([k \in 1..((n + 2) \div 3) |-> Group(3 * k - 2)])

(* A pad ends the text; a text that ends in the middle of a group of four  *)
(* gives the bytes it has.                                                 *)
decode64(input) ==
    LET V(i) == table64(input[i])
        Ends(i) == i > Len(input) \/ input[i] = Pad
        Bytes(i) ==
            <<(V(i) * 4 + V(i + 1) \div 16) % 256>>
            \o (IF Ends(i + 2) THEN <<>>
                ELSE <<((V(i + 1) % 16) * 16 + V(i + 2) \div 4) % 256>>)
            \o (IF Ends(i + 2) \/ Ends(i + 3) THEN <<>>
                ELSE <<((V(i + 2) % 4) * 64 + V(i + 3)) % 256>>)
        groups == (Len(input) + 2) \div 4
        padded == {k \in 1..groups : Ends(4 * k - 1) \/ Ends(4 * k)}
        last == IF padded = {} THEN groups ELSE CHOOSE k \in padded : \A j \in padded : k <= j
    IN  FlattenSeq([k \in 1..last |-> Bytes(4 * k - 3)])
=============================================================================
